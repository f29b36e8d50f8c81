-------------------------- MODULE GraphSessionProofs --------------------------
(***************************************************************************)
(* Theorems about the dependency graph and its sessions, for any sets of   *)
(* files, kinds and components and without the bounds of TLC's runs.       *)
(***************************************************************************)
EXTENDS GraphSession, TLAPS

-----------------------------------------------------------------------------
(* The operations keep the indexes coherent *)

LEMMA TargetsOfUnion ==
  ASSUME NEW A, NEW B
  PROVE  Targets(A \cup B) = Targets(A) \cup Targets(B)
BY DEF Targets

LEMMA SelfEdge ==
  ASSUME NEW p \in Paths, NEW deps \in SUBSET Edges
  PROVE  /\ WithSelfEdge(p, deps) \in SUBSET Edges
         /\ p \in Targets(WithSelfEdge(p, deps))
         /\ Targets(WithSelfEdge(p, deps)) = Targets(deps) \cup {p}
<1>1. <<p, Module>> \in Edges
  BY KindAssumption DEF Edges
<1>2. Targets({<<p, Module>>}) = {p}
  BY DEF Targets
<1>3. CASE p \in Targets(deps)
  BY <1>3 DEF WithSelfEdge
<1>4. CASE p \notin Targets(deps)
  <2>1. WithSelfEdge(p, deps) = deps \cup {<<p, Module>>}
    BY <1>4 DEF WithSelfEdge
  <2> QED BY <1>1, <1>2, <2>1, TargetsOfUnion
<1> QED BY <1>3, <1>4

\* upsert_all, field by field.
LEMMA UpsertFields ==
  ASSUME NEW g \in Graphs, NEW ps \in SUBSET Paths, NEW deps \in [ps -> SUBSET Edges]
  PROVE  LET h == upsert_all(g, ps, deps) IN
         /\ h \in Graphs
         /\ h.pages = g.pages \cup ps
         /\ h.globals = g.globals
         /\ \A p \in Paths : h.forward[p] = IF p \in ps THEN WithSelfEdge(p, deps[p])
                                            ELSE g.forward[p]
         /\ \A x, p \in Paths :
              p \in h.reverse[x] <=> IF p \in ps THEN x \in Targets(WithSelfEdge(p, deps[p]))
                                                     \/ (p \in g.reverse[x] /\ x \notin Targets(g.forward[p]))
                                    ELSE p \in g.reverse[x]
         /\ \A x, p \in Paths :
              p \in h.reverse[x] /\ x \in g.nodes => x \in h.nodes
         /\ \A x \in Paths : \A p \in ps : x \in Targets(WithSelfEdge(p, deps[p])) => x \in h.nodes
<1> DEFINE fresh    == [p \in ps |-> WithSelfEdge(p, deps[p])]
           prior(x) == {p \in ps : x \in Targets(g.forward[p])}
           users(x) == {p \in ps : x \in Targets(fresh[p])}
           emptied  == {x \in Paths : prior(x) # {} /\ g.reverse[x] \subseteq prior(x)}
           h        == upsert_all(g, ps, deps)
           F        == [p \in Paths |-> IF p \in ps THEN fresh[p] ELSE g.forward[p]]
           R        == [x \in Paths |-> (g.reverse[x] \ prior(x)) \cup users(x)]
           N        == (g.nodes \ emptied) \cup {x \in Paths : users(x) # {}}
<1>1. h = [g EXCEPT !.pages = g.pages \cup ps, !.forward = F, !.reverse = R, !.nodes = N]
  BY DEF upsert_all, Graphs
<1>2. /\ h.pages = g.pages \cup ps /\ h.globals = g.globals
      /\ h.forward = F /\ h.reverse = R /\ h.nodes = N
      /\ h = [pages |-> g.pages \cup ps, forward |-> F, reverse |-> R, nodes |-> N,
              globals |-> g.globals]
  BY <1>1 DEF Graphs
<1>3. \A p \in ps : fresh[p] \in SUBSET Edges
  BY SelfEdge
<1>4. F \in [Paths -> SUBSET Edges]
  BY <1>3 DEF Graphs
<1>5. R \in [Paths -> SUBSET Paths]
  <2>1. \A x \in Paths : (g.reverse[x] \ prior(x)) \cup users(x) \in SUBSET Paths
    BY DEF Graphs
  <2> QED BY <2>1
<1>6. N \in SUBSET Paths
  BY DEF Graphs
<1>7. h \in Graphs
  <2>1. g.pages \cup ps \in SUBSET Paths /\ g.globals \in SUBSET Paths
    BY DEF Graphs
  <2> QED BY <1>2, <1>4, <1>5, <1>6, <2>1 DEF Graphs
<1>8. \A p \in Paths : h.forward[p] = IF p \in ps THEN WithSelfEdge(p, deps[p]) ELSE g.forward[p]
  BY <1>2
<1>9. \A x, p \in Paths : p \in h.reverse[x] <=> p \in (g.reverse[x] \ prior(x)) \cup users(x)
  BY <1>2
<1>10. ASSUME NEW x \in Paths, NEW p \in Paths
       PROVE  p \in h.reverse[x] <=> IF p \in ps THEN x \in Targets(WithSelfEdge(p, deps[p]))
                                                   \/ (p \in g.reverse[x] /\ x \notin Targets(g.forward[p]))
                                     ELSE p \in g.reverse[x]
  BY <1>9
<1>11. ASSUME NEW x \in Paths, NEW p \in Paths, p \in h.reverse[x], x \in g.nodes
       PROVE  x \in h.nodes
  BY <1>2, <1>11
<1>12. ASSUME NEW x \in Paths, NEW p \in ps, x \in Targets(WithSelfEdge(p, deps[p]))
       PROVE  x \in h.nodes
  <2>1. p \in users(x)
    BY <1>12
  <2> QED BY <1>2, <2>1
<1> HIDE DEF h, F, R, N, fresh, emptied
<1> QED BY <1>2, <1>7, <1>8, <1>9, <1>10, <1>11, <1>12 DEF h

\* A graph rebuilt for some of its pages is still coherent.
LEMMA UpsertCoherent ==
  ASSUME NEW g \in Graphs, Coherent(g),
         NEW ps \in SUBSET Paths, NEW deps \in [ps -> SUBSET Edges]
  PROVE  Coherent(upsert_all(g, ps, deps))
<1> DEFINE h == upsert_all(g, ps, deps)
<1>1. /\ h.pages = g.pages \cup ps
      /\ \A p \in Paths : h.forward[p] = IF p \in ps THEN WithSelfEdge(p, deps[p]) ELSE g.forward[p]
  BY UpsertFields
<1>2. \A x, p \in Paths :
        p \in h.reverse[x] <=> IF p \in ps THEN x \in Targets(WithSelfEdge(p, deps[p]))
                                               \/ (p \in g.reverse[x] /\ x \notin Targets(g.forward[p]))
                              ELSE p \in g.reverse[x]
  BY UpsertFields
<1>3. /\ \A x, p \in Paths : p \in h.reverse[x] /\ x \in g.nodes => x \in h.nodes
      /\ \A x \in Paths : \A p \in ps : x \in Targets(WithSelfEdge(p, deps[p])) => x \in h.nodes
      /\ h \in Graphs
  BY UpsertFields
<1> HIDE DEF h
<1>4. ASSUME NEW x \in Paths
      PROVE  h.reverse[x] = {p \in Paths : x \in Targets(h.forward[p])}
  <2>1. g.reverse[x] = {p \in Paths : x \in Targets(g.forward[p])} /\ h.reverse[x] \subseteq Paths
    BY <1>3 DEF Coherent, Graphs
  <2>2. \A p \in Paths : p \in h.reverse[x] <=> x \in Targets(h.forward[p])
    BY <1>1, <1>2, <2>1
  <2> QED BY <2>1, <2>2
<1>5. ASSUME NEW p \in Paths, h.forward[p] # {}
      PROVE  p \in h.pages
  BY <1>1, <1>5 DEF Coherent
<1>6. ASSUME NEW p \in h.pages
      PROVE  p \in Targets(h.forward[p])
  <2>1. p \in Paths
    BY <1>3 DEF Graphs
  <2>2. CASE p \in ps
    BY <1>1, <2>1, <2>2, SelfEdge
  <2>3. CASE p \notin ps
    BY <1>1, <2>1, <2>3 DEF Coherent
  <2> QED BY <2>2, <2>3
<1>7. ASSUME NEW x \in Paths, h.reverse[x] # {}
      PROVE  x \in h.nodes
  <2>1. PICK p \in Paths : p \in h.reverse[x]
    BY <1>3, <1>7 DEF Graphs
  <2>2. CASE p \in ps /\ x \in Targets(WithSelfEdge(p, deps[p]))
    BY <1>3, <2>2
  <2>3. CASE p \in g.reverse[x]
    BY <1>3, <2>1, <2>3 DEF Coherent
  <2> QED BY <1>2, <2>1, <2>2, <2>3
<1> QED BY <1>4, <1>5, <1>6, <1>7 DEF Coherent, h

\* A page module that some page imports is itself a page: the metafile reports
\* the imports of every bundled page, never of some.
Closed(g) == \A q \in PageFiles : g.reverse[q] # {} => q \in g.pages

Good(g) == g \in Graphs /\ Coherent(g) /\ Closed(g)

LEMMA NewGraphGood == Good(NewGraph)
BY FileAssumption DEF Good, NewGraph, Graphs, Coherent, Closed, Targets

LEMMA UpsertGood ==
  ASSUME NEW g, Good(g), NEW ps \in SUBSET Paths, NEW deps \in [ps -> SUBSET Edges],
         \A p \in ps : Targets(deps[p]) \cap PageFiles \subseteq g.pages \cup ps
  PROVE  Good(upsert_all(g, ps, deps))
<1> DEFINE h == upsert_all(g, ps, deps)
<1>1. g \in Graphs /\ Coherent(g) /\ Closed(g)
  BY DEF Good
<1>2. h \in Graphs /\ h.pages = g.pages \cup ps
  BY <1>1, UpsertFields
<1>3. \A x, p \in Paths : p \in h.reverse[x] =>
        (p \in g.reverse[x]) \/ (p \in ps /\ x \in Targets(WithSelfEdge(p, deps[p])))
  BY <1>1, UpsertFields
<1>4. Coherent(h)
  BY <1>1, UpsertCoherent
<1> HIDE DEF h
<1>5. ASSUME NEW q \in PageFiles, h.reverse[q] # {}
      PROVE  q \in h.pages
  <2>1. q \in Paths
    BY FileAssumption
  <2>2. PICK p \in Paths : p \in h.reverse[q]
    BY <1>2, <1>5, <2>1 DEF Graphs
  <2>3. CASE p \in g.reverse[q]
    BY <1>1, <1>2, <2>3 DEF Closed
  <2>4. CASE p \in ps /\ q \in Targets(WithSelfEdge(p, deps[p]))
    <3>1. q \in Targets(deps[p]) \/ q = p
      BY <2>4, SelfEdge
    <3> QED BY <1>2, <2>4, <3>1
  <2> QED BY <1>3, <2>1, <2>2, <2>3, <2>4
<1> QED BY <1>2, <1>4, <1>5 DEF Good, Closed, h

\* The targets of a good graph's edges are paths, and the page modules among
\* them are pages.
LEMMA GoodTargets ==
  ASSUME NEW g, Good(g), NEW p \in Paths
  PROVE  /\ g.forward[p] \in SUBSET Edges
         /\ Targets(g.forward[p]) \subseteq Paths
         /\ Targets(g.forward[p]) \cap PageFiles \subseteq g.pages
<1>1. g \in Graphs /\ Coherent(g) /\ Closed(g)
  BY DEF Good
<1>2. g.forward[p] \in SUBSET Edges
  BY <1>1 DEF Graphs
<1>3. Targets(g.forward[p]) \subseteq Paths
  BY <1>2 DEF Targets, Edges
<1>4. \A q \in Targets(g.forward[p]) : p \in g.reverse[q]
  BY <1>1, <1>3 DEF Coherent
<1> QED BY <1>1, <1>2, <1>3, <1>4 DEF Closed

LEMMA TargetsMonotone ==
  ASSUME NEW A, NEW B, A \subseteq B
  PROVE  Targets(A) \subseteq Targets(B)
BY DEF Targets

LEMMA TargetsOfKind ==
  ASSUME NEW X, NEW k
  PROVE  Targets(X \X {k}) = X
<1>1. ASSUME NEW x \in X
      PROVE  x \in Targets(X \X {k})
  <2>1. <<x, k>> \in X \X {k} /\ <<x, k>>[1] = x
    OBVIOUS
  <2> QED BY <2>1 DEF Targets
<1>2. Targets(X \X {k}) \subseteq X
  BY DEF Targets
<1> QED BY <1>1, <1>2

\* Replacing the edges of one kind, whatever the pages it is done for.
LEMMA ReplaceKindGood ==
  ASSUME NEW g, Good(g), NEW ps \in SUBSET Paths, NEW kind \in Kinds,
         NEW found \in [ps -> SUBSET Paths],
         \A p \in ps : found[p] \cap PageFiles \subseteq g.pages \cup ps
  PROVE  Good(upsert_all(g, ps, [p \in ps |-> NotOfKind(g, p, kind) \cup (found[p] \X {kind})]))
<1> DEFINE deps == [p \in ps |-> NotOfKind(g, p, kind) \cup (found[p] \X {kind})]
<1>1. ASSUME NEW p \in ps
      PROVE  /\ deps[p] \in SUBSET Edges
             /\ Targets(deps[p]) \cap PageFiles \subseteq g.pages \cup ps
  <2>1. NotOfKind(g, p, kind) \subseteq g.forward[p]
    BY DEF NotOfKind
  <2>2. Targets(NotOfKind(g, p, kind)) \cap PageFiles \subseteq g.pages
    BY <2>1, GoodTargets, TargetsMonotone
  <2>3. found[p] \X {kind} \subseteq Edges /\ Targets(found[p] \X {kind}) = found[p]
    BY TargetsOfKind DEF Edges
  <2>4. NotOfKind(g, p, kind) \subseteq Edges
    BY <2>1, GoodTargets
  <2> QED BY <2>2, <2>3, <2>4, TargetsOfUnion
<1>2. deps \in [ps -> SUBSET Edges]
  BY <1>1
<1> HIDE DEF deps
<1>3. Good(upsert_all(g, ps, deps))
  BY <1>1, <1>2, UpsertGood
<1> QED BY <1>3 DEF deps

LEMMA PopulateGood ==
  ASSUME NEW g, Good(g), tree \in Trees, NEW imports \in Metafiles
  PROVE  Good(populate_module_edges(g, imports))
<1> DEFINE ps == DOMAIN imports
<1>1. /\ ps \subseteq Paths /\ imports \in [ps -> SUBSET Paths]
      /\ \A p \in ps : imports[p] \cap PageFiles \subseteq ps
  BY DEF Metafiles, Importable, Files
<1> HIDE DEF ps
<1>2. Good(upsert_all(g, ps, [p \in ps |-> NotOfKind(g, p, Module) \cup (imports[p] \X {Module})]))
  BY <1>1, KindAssumption, ReplaceKindGood
<1> QED BY <1>2 DEF populate_module_edges, ps

LEMMA ReplaceContentGood ==
  ASSUME NEW g, Good(g), NEW D \in SUBSET Paths, NEW reads \in [D -> SUBSET ContentFiles]
  PROVE  Good(replace_content_edges(g, reads))
<1> DEFINE ps    == g.pages \cup DOMAIN reads
           found == [p \in ps |-> IF p \in DOMAIN reads THEN reads[p] ELSE {}]
<1>1. ps \subseteq Paths
  BY DEF Good, Graphs
<1>2. found \in [ps -> SUBSET Paths] /\ \A p \in ps : found[p] \cap PageFiles = {}
  BY FileAssumption
<1>3. replace_content_edges(g, reads)
        = upsert_all(g, ps, [p \in ps |-> NotOfKind(g, p, Content) \cup (found[p] \X {Content})])
  BY DEF replace_content_edges
<1> HIDE DEF ps, found
<1> QED BY <1>1, <1>2, <1>3, KindAssumption, ReplaceKindGood

LEMMA SeedGood ==
  ASSUME NEW g, Good(g), NEW pages \in SUBSET Paths
  PROVE  Good(seed(g, pages))
<1> DEFINE unknown == {p \in pages : ~knows(g, p)}
           nothing == [p \in unknown |-> {}]
<1>1. /\ unknown \subseteq Paths /\ nothing \in [unknown -> SUBSET Edges]
      /\ \A p \in unknown : Targets(nothing[p]) = {}
  BY DEF Targets
<1>2. seed(g, pages) = upsert_all(g, unknown, nothing)
  BY DEF seed
<1> HIDE DEF unknown, nothing
<1> QED BY <1>1, <1>2, UpsertGood

LEMMA MergeGood ==
  ASSUME NEW g, Good(g), NEW old, Good(old)
  PROVE  Good(merge_from_persisted(g, old))
<1> DEFINE h    == [g EXCEPT !.globals = g.globals \cup old.globals]
           deps == [p \in old.pages |-> MergedDeps(g, old, p)]
<1>1. g \in Graphs /\ old \in Graphs /\ old.pages \subseteq Paths
  BY DEF Good, Graphs
<1>2. Good(h) /\ h.pages = g.pages
  <2>1. /\ h \in Graphs /\ h.pages = g.pages /\ h.forward = g.forward
        /\ h.reverse = g.reverse /\ h.nodes = g.nodes
    BY <1>1 DEF Graphs
  <2> HIDE DEF h
  <2> QED BY <2>1 DEF Good, Coherent, Closed
<1>3. ASSUME NEW p \in old.pages
      PROVE  /\ deps[p] \in SUBSET Edges
             /\ Targets(deps[p]) \cap PageFiles \subseteq g.pages \cup old.pages
  <2>1. deps[p] \subseteq g.forward[p] \cup old.forward[p]
    BY DEF MergedDeps, OfKind, NotOfKind
  <2> HIDE DEF deps
  <2>2. Targets(deps[p]) \subseteq Targets(g.forward[p] \cup old.forward[p])
    BY <2>1, TargetsMonotone
  <2>3. Targets(deps[p]) \subseteq Targets(g.forward[p]) \cup Targets(old.forward[p])
    BY <2>2, TargetsOfUnion
  <2> QED BY <1>1, <2>1, <2>3, GoodTargets
<1>4. deps \in [old.pages -> SUBSET Edges]
  BY <1>3
<1>5. merge_from_persisted(g, old) = upsert_all(h, old.pages, deps)
  BY <1>1 DEF merge_from_persisted, Graphs
<1> HIDE DEF h, deps
<1> QED BY <1>1, <1>2, <1>3, <1>4, <1>5, UpsertGood

Without(deps, x) == {d \in deps : d[1] # x}

\* remove_node: what it returns and what it leaves of every page's edges.
LEMMA RemoveFields ==
  ASSUME NEW g, Good(g), NEW x \in Paths
  PROVE  /\ removed_consumers(g, x) = {p \in Paths : x \in Targets(g.forward[p])}
         /\ \A p \in Paths : remove_node(g, x).forward[p]
                               = IF p = x THEN {} ELSE Without(g.forward[p], x)
         /\ remove_node(g, x).pages = g.pages \ {x}
         /\ \A y, p \in Paths : p \in remove_node(g, x).reverse[y]
                                 <=> p \in g.reverse[y] /\ p # x /\ y # x
         /\ \A y, p \in Paths : p \in remove_node(g, x).reverse[y] => y \in remove_node(g, x).nodes
         /\ remove_node(g, x) \in Graphs
<1> DEFINE R == OwnEdgesRemoved(g, x)
           E == {y \in Paths : g.reverse[y] # {} /\ R[y] = {}}
           F == [p \in Paths |-> IF p = x /\ x \in g.pages THEN {}
                                 ELSE IF p \in R[x] THEN Without(g.forward[p], x)
                                 ELSE g.forward[p]]
           N == g.nodes \ (E \cup {x})
           h == remove_node(g, x)
<1>1. /\ g \in Graphs
      /\ \A y, p \in Paths : p \in g.reverse[y] <=> y \in Targets(g.forward[p])
      /\ \A p \in Paths : g.forward[p] # {} => p \in g.pages
      /\ \A p \in g.pages : p \in Targets(g.forward[p])
      /\ \A y \in Paths : g.reverse[y] # {} => y \in g.nodes
  BY DEF Good, Coherent
<1>2. \A p \in Paths : Targets(g.forward[p]) \subseteq Paths /\ g.forward[p] \in SUBSET Edges
  BY GoodTargets
<1>3. R \in [Paths -> SUBSET Paths] /\ \A y \in Paths : R[y] = g.reverse[y] \ {x}
  <2>1. CASE x \in g.pages
    <3>1. R = [y \in Paths |-> IF y \in Targets(g.forward[x]) THEN g.reverse[y] \ {x} ELSE g.reverse[y]]
      BY <2>1 DEF OwnEdgesRemoved
    <3>2. \A y \in Paths : R[y] = g.reverse[y] \ {x}
      BY <1>1, <3>1
    <3>3. \A y \in Paths : R[y] \in SUBSET Paths
      BY <1>1, <3>2 DEF Graphs
    <3> QED BY <3>1, <3>2, <3>3
  <2>2. CASE x \notin g.pages
    <3>1. R = g.reverse
      BY <2>2 DEF OwnEdgesRemoved
    <3>2. g.forward[x] = {}
      BY <1>1, <2>2
    <3>3. Targets(g.forward[x]) = {}
      BY <3>2 DEF Targets
    <3> QED BY <1>1, <3>1, <3>3 DEF Graphs
  <2> QED BY <2>1, <2>2
<1>4. \A p \in Paths : Without(g.forward[p], x) = g.forward[p] \/ x \in Targets(g.forward[p])
  BY DEF Targets, Without
<1>5. removed_consumers(g, x) = {p \in Paths : x \in Targets(g.forward[p])}
  <2>1. removed_consumers(g, x) = (IF x \in g.pages THEN {x} ELSE {}) \cup R[x]
    BY DEF removed_consumers
  <2>2. x \in g.reverse[x] => x \in g.pages
    <3>1. x \in g.reverse[x] => Targets(g.forward[x]) # {}
      BY <1>1
    <3> QED BY <1>1, <3>1 DEF Targets
  <2>3. g.reverse[x] = {p \in Paths : x \in Targets(g.forward[p])}
    BY DEF Good, Coherent
  <2> HIDE DEF R
  <2> QED BY <1>1, <1>3, <2>1, <2>2, <2>3
<1>6. /\ h.pages = g.pages \ {x} /\ h.forward = F /\ h.reverse = [R EXCEPT ![x] = {}]
      /\ h.nodes = N /\ h.globals = g.globals
      /\ h = [pages |-> h.pages, forward |-> h.forward, reverse |-> h.reverse, nodes |-> h.nodes,
              globals |-> h.globals]
  <2>1. h = [g EXCEPT !.pages = g.pages \ {x}, !.forward = F, !.reverse = [R EXCEPT ![x] = {}],
                      !.nodes = N]
    BY DEF remove_node, Without
  <2> HIDE DEF h, F, R, N
  <2> QED BY <1>1, <2>1 DEF Graphs
<1> HIDE DEF R, h
<1>7. ASSUME NEW p \in Paths
      PROVE  h.forward[p] = IF p = x THEN {} ELSE Without(g.forward[p], x)
  <2>1. h.forward[p] = IF p = x /\ x \in g.pages THEN {}
                       ELSE IF p \in R[x] THEN Without(g.forward[p], x)
                       ELSE g.forward[p]
    BY <1>6
  <2>2. p \in R[x] <=> x \in Targets(g.forward[p]) /\ p # x
    BY <1>1, <1>3
  <2>3. CASE p = x
    BY <1>1, <2>1, <2>2, <2>3
  <2>4. CASE p # x
    BY <1>4, <2>1, <2>2, <2>4
  <2> QED BY <2>3, <2>4
<1> HIDE DEF F, N
<1>8. ASSUME NEW y \in Paths, NEW p \in Paths
      PROVE  p \in h.reverse[y] <=> p \in g.reverse[y] /\ p # x /\ y # x
  <2>1. h.reverse[y] = IF y = x THEN {} ELSE R[y]
    BY <1>3, <1>6
  <2> QED BY <1>3, <2>1
<1> USE DEF F, N
<1>9. ASSUME NEW y \in Paths, NEW p \in Paths, p \in h.reverse[y]
      PROVE  y \in h.nodes
  <2>1. y # x /\ p \in g.reverse[y] /\ p \in R[y]
    BY <1>3, <1>8, <1>9
  <2>2. y \in g.nodes
    BY <1>1, <2>1
  <2> QED BY <1>6, <2>1, <2>2
<1>10. h \in Graphs
  <2>1. F \in [Paths -> SUBSET Edges]
    <3>1. \A p \in Paths : F[p] \in SUBSET Edges
      BY <1>2, <1>6, <1>7 DEF Without
    <3> QED BY <3>1
  <2>2. [R EXCEPT ![x] = {}] \in [Paths -> SUBSET Paths]
    BY <1>3
  <2>3. /\ N \in SUBSET Paths /\ g.pages \ {x} \in SUBSET Paths
        /\ g.globals \in SUBSET Paths
    BY <1>1 DEF Graphs
  <2> HIDE DEF F, N
  <2> QED BY <1>6, <2>1, <2>2, <2>3 DEF Graphs
<1> HIDE DEF F, N
<1> QED BY <1>5, <1>6, <1>7, <1>8, <1>9, <1>10 DEF h

LEMMA RemoveGood ==
  ASSUME NEW g, Good(g), NEW x \in Paths
  PROVE  Good(remove_node(g, x))
<1> DEFINE h == remove_node(g, x)
<1>1. /\ h \in Graphs
      /\ \A p \in Paths : h.forward[p] = IF p = x THEN {} ELSE Without(g.forward[p], x)
      /\ h.pages = g.pages \ {x}
      /\ \A y, p \in Paths : p \in h.reverse[y] <=> p \in g.reverse[y] /\ p # x /\ y # x
      /\ \A y, p \in Paths : p \in h.reverse[y] => y \in h.nodes
  BY RemoveFields
<1> HIDE DEF h
<1>2. \A p, y \in Paths : y \in Targets(h.forward[p])
                           <=> y \in Targets(g.forward[p]) /\ p # x /\ y # x
  BY <1>1 DEF Targets, Without
<1>3. ASSUME NEW y \in Paths
      PROVE  h.reverse[y] = {p \in Paths : y \in Targets(h.forward[p])}
  <2>1. \A p \in Paths : p \in g.reverse[y] <=> y \in Targets(g.forward[p])
    BY DEF Good, Coherent
  <2>2. \A p \in Paths : p \in h.reverse[y] <=> y \in Targets(h.forward[p])
    BY <1>1, <1>2, <2>1
  <2>3. h.reverse[y] \subseteq Paths
    BY <1>1 DEF Graphs
  <2> QED BY <2>2, <2>3
<1>4. ASSUME NEW p \in Paths, h.forward[p] # {}
      PROVE  p \in h.pages
  BY <1>1, <1>4 DEF Good, Coherent, Without
<1>5. ASSUME NEW p \in h.pages
      PROVE  p \in Targets(h.forward[p])
  BY <1>1, <1>2 DEF Good, Coherent, Graphs
<1>6. ASSUME NEW y \in Paths, h.reverse[y] # {}
      PROVE  y \in h.nodes
  BY <1>1, <1>6 DEF Graphs
<1>7. ASSUME NEW q \in PageFiles, h.reverse[q] # {}
      PROVE  q \in h.pages
  <2>1. q \in Paths
    BY FileAssumption
  <2>2. PICK p \in Paths : p \in h.reverse[q]
    BY <1>1, <1>7, <2>1 DEF Graphs
  <2>3. p \in g.reverse[q] /\ q # x
    BY <1>1, <2>1, <2>2
  <2> QED BY <1>1, <2>3 DEF Good, Closed
<1> QED BY <1>1, <1>3, <1>4, <1>5, <1>6, <1>7 DEF Good, Coherent, Closed, h

-----------------------------------------------------------------------------
(* The asset layer *)

GoodAssets(a) == a \in AssetLayers /\ AssetsCoherent(a)

LEMMA NewAssetsGood == GoodAssets(NewAssets)
BY DEF GoodAssets, NewAssets, AssetLayers, AssetsCoherent

\* `index' says for each thing of K which pages use it.
IsIndex(K, index, uses) ==
  /\ index \in [K -> SUBSET Paths] /\ uses \in [Paths -> SUBSET K]
  /\ \A k \in K, p \in Paths : p \in index[k] <=> k \in uses[p]

\* The uses once those of `ps' are replaced.
After(ps, prior, uses) == [p \in Paths |-> IF p \in ps THEN uses[p] ELSE prior[p]]

LEMMA ReindexedIsIndex ==
  ASSUME NEW K, NEW index, NEW prior, IsIndex(K, index, prior),
         NEW ps \in SUBSET Paths, NEW uses, \A p \in ps : uses[p] \in SUBSET K
  PROVE  IsIndex(K, Reindexed(index, ps, prior, uses), After(ps, prior, uses))
<1> DEFINE after == After(ps, prior, uses)
           new   == Reindexed(index, ps, prior, uses)
<1>1. after \in [Paths -> SUBSET K] /\ \A p \in Paths : after[p] = IF p \in ps THEN uses[p] ELSE prior[p]
  BY DEF After, IsIndex
<1>2. new = [k \in K |-> (index[k] \ {p \in ps : k \in prior[p]}) \cup {p \in ps : k \in uses[p]}]
  BY DEF Reindexed, IsIndex
<1> HIDE DEF after, new
<1>3. ASSUME NEW k \in K
      PROVE  /\ new[k] \in SUBSET Paths
             /\ \A p \in Paths : p \in new[k] <=> k \in after[p]
  <2>1. new[k] = (index[k] \ {p \in ps : k \in prior[p]}) \cup {p \in ps : k \in uses[p]}
    BY <1>2
  <2>2. index[k] \in SUBSET Paths /\ \A p \in Paths : p \in index[k] <=> k \in prior[p]
    BY DEF IsIndex
  <2> QED BY <1>1, <2>1, <2>2
<1>4. new \in [K -> SUBSET Paths]
  BY <1>2, <1>3
<1> QED BY <1>1, <1>3, <1>4 DEF IsIndex, after, new

LEMMA AssetIndexes ==
  ASSUME NEW a
  PROVE  GoodAssets(a) <=>
           /\ a = [assets |-> a.assets, islands |-> a.islands, css_modules |-> a.css_modules,
                   islands_reverse |-> a.islands_reverse, css_reverse |-> a.css_reverse]
           /\ a.assets \in SUBSET Paths
           /\ IsIndex(Components, a.islands_reverse, a.islands)
           /\ IsIndex(Paths, a.css_reverse, a.css_modules)
           /\ \A p \in Paths \ a.assets : a.islands[p] = {} /\ a.css_modules[p] = {}
<1>1. ASSUME GoodAssets(a)
      PROVE  /\ a = [assets |-> a.assets, islands |-> a.islands, css_modules |-> a.css_modules,
                     islands_reverse |-> a.islands_reverse, css_reverse |-> a.css_reverse]
             /\ a.assets \in SUBSET Paths
             /\ IsIndex(Components, a.islands_reverse, a.islands)
             /\ IsIndex(Paths, a.css_reverse, a.css_modules)
             /\ \A p \in Paths \ a.assets : a.islands[p] = {} /\ a.css_modules[p] = {}
  BY <1>1 DEF GoodAssets, AssetLayers, AssetsCoherent, IsIndex
<1>2. ASSUME a = [assets |-> a.assets, islands |-> a.islands, css_modules |-> a.css_modules,
                  islands_reverse |-> a.islands_reverse, css_reverse |-> a.css_reverse],
             a.assets \in SUBSET Paths,
             IsIndex(Components, a.islands_reverse, a.islands),
             IsIndex(Paths, a.css_reverse, a.css_modules),
             \A p \in Paths \ a.assets : a.islands[p] = {} /\ a.css_modules[p] = {}
      PROVE  GoodAssets(a)
  <2>1. /\ a.islands \in [Paths -> SUBSET Components] /\ a.css_modules \in [Paths -> SUBSET Paths]
        /\ a.islands_reverse \in [Components -> SUBSET Paths]
        /\ a.css_reverse \in [Paths -> SUBSET Paths]
    BY <1>2 DEF IsIndex
  <2>2. a \in AssetLayers
    BY <1>2, <2>1 DEF AssetLayers
  <2>3. \A c \in Components : a.islands_reverse[c] = {p \in Paths : c \in a.islands[p]}
    BY <1>2 DEF IsIndex
  <2>4. \A x \in Paths : a.css_reverse[x] = {p \in Paths : x \in a.css_modules[p]}
    BY <1>2 DEF IsIndex
  <2> QED BY <1>2, <2>2, <2>3, <2>4 DEF GoodAssets, AssetsCoherent
<1> QED BY <1>1, <1>2

\* set_assets_for_page, field by field.
LEMMA SetAssetsFields ==
  ASSUME NEW a, GoodAssets(a), NEW ps, NEW islands, NEW css
  PROVE  set_assets(a, ps, islands, css) =
           [assets |-> a.assets \cup ps,
            islands |-> After(ps, a.islands, islands),
            css_modules |-> After(ps, a.css_modules, css),
            islands_reverse |-> Reindexed(a.islands_reverse, ps, a.islands, islands),
            css_reverse |-> Reindexed(a.css_reverse, ps, a.css_modules, css)]
<1>1. set_assets(a, ps, islands, css) =
        [a EXCEPT !.assets = a.assets \cup ps,
                  !.islands = After(ps, a.islands, islands),
                  !.css_modules = After(ps, a.css_modules, css),
                  !.islands_reverse = Reindexed(a.islands_reverse, ps, a.islands, islands),
                  !.css_reverse = Reindexed(a.css_reverse, ps, a.css_modules, css)]
  BY DEF set_assets, After
<1> QED BY <1>1 DEF GoodAssets, AssetLayers

LEMMA SetAssetsGood ==
  ASSUME NEW a, GoodAssets(a), NEW ps \in SUBSET Paths, NEW islands, NEW css,
         \A p \in ps : islands[p] \in SUBSET Components, \A p \in ps : css[p] \in SUBSET Paths
  PROVE  GoodAssets(set_assets(a, ps, islands, css))
<1> DEFINE b == set_assets(a, ps, islands, css)
<1>1. /\ b = [assets |-> b.assets, islands |-> b.islands, css_modules |-> b.css_modules,
              islands_reverse |-> b.islands_reverse, css_reverse |-> b.css_reverse]
      /\ b.assets = a.assets \cup ps
      /\ b.islands = After(ps, a.islands, islands)
      /\ b.css_modules = After(ps, a.css_modules, css)
      /\ b.islands_reverse = Reindexed(a.islands_reverse, ps, a.islands, islands)
      /\ b.css_reverse = Reindexed(a.css_reverse, ps, a.css_modules, css)
  BY SetAssetsFields
<1> HIDE DEF b
<1>2. /\ a.assets \in SUBSET Paths
      /\ IsIndex(Components, a.islands_reverse, a.islands)
      /\ IsIndex(Paths, a.css_reverse, a.css_modules)
      /\ \A p \in Paths \ a.assets : a.islands[p] = {} /\ a.css_modules[p] = {}
  BY AssetIndexes
<1>3. IsIndex(Components, b.islands_reverse, b.islands)
  BY <1>1, <1>2, ReindexedIsIndex
<1>4. IsIndex(Paths, b.css_reverse, b.css_modules)
  BY <1>1, <1>2, ReindexedIsIndex
<1>5. \A p \in Paths \ b.assets : b.islands[p] = {} /\ b.css_modules[p] = {}
  BY <1>1, <1>2 DEF After
<1>6. b.assets \in SUBSET Paths
  BY <1>1, <1>2
<1>7. GoodAssets(b)
  BY <1>1, <1>3, <1>4, <1>5, <1>6, AssetIndexes
<1> QED BY <1>7 DEF b

\* clear_assets_for_page empties the page's own record and no other.
LEMMA ClearAssetsGood ==
  ASSUME NEW a, GoodAssets(a), NEW p \in Paths
  PROVE  /\ GoodAssets(clear_assets_for_page(a, p))
         /\ clear_assets_for_page(a, p).css_modules[p] = {}
         /\ \A q \in Paths : q # p => clear_assets_for_page(a, p).css_modules[q] = a.css_modules[q]
<1> DEFINE none == [q \in {p} |-> {}]
           b    == set_assets(a, {p}, none, none)
           c    == [b EXCEPT !.assets = b.assets \ {p}]
<1>1. none[p] = {}
  OBVIOUS
<1>2. GoodAssets(b)
  <2>1. \A q \in {p} : none[q] \in SUBSET Components
    OBVIOUS
  <2>2. \A q \in {p} : none[q] \in SUBSET Paths
    OBVIOUS
  <2> HIDE DEF none
  <2> QED BY <2>1, <2>2, SetAssetsGood
<1>3. \A q \in Paths : /\ b.islands[q] = IF q = p THEN {} ELSE a.islands[q]
                      /\ b.css_modules[q] = IF q = p THEN {} ELSE a.css_modules[q]
  <2>1. b.islands = After({p}, a.islands, none) /\ b.css_modules = After({p}, a.css_modules, none)
    BY SetAssetsFields
  <2> HIDE DEF b, none
  <2> QED BY <1>1, <2>1 DEF After
<1>4. clear_assets_for_page(a, p) = c
  BY DEF clear_assets_for_page
<1> HIDE DEF b, none
<1>5. c \in AssetLayers /\ c.css_modules = b.css_modules /\ c.islands = b.islands
      /\ c.assets = b.assets \ {p} /\ c.islands_reverse = b.islands_reverse
      /\ c.css_reverse = b.css_reverse
  BY <1>2 DEF GoodAssets, AssetLayers
<1> HIDE DEF c
<1>6. AssetsCoherent(c)
  BY <1>2, <1>3, <1>5 DEF GoodAssets, AssetsCoherent
<1> QED BY <1>3, <1>4, <1>5, <1>6 DEF GoodAssets

LEMMA RemoveCssGood ==
  ASSUME NEW a, GoodAssets(a), NEW x \in Paths
  PROVE  GoodAssets(remove_css_module(a, x))
<1> DEFINE b == clear_assets_for_page(a, x)
           C == [p \in Paths |-> IF p \in a.css_reverse[x] THEN b.css_modules[p] \ {x}
                                 ELSE b.css_modules[p]]
           R == [b.css_reverse EXCEPT ![x] = {}]
           h == remove_css_module(a, x)
<1>1. GoodAssets(b)
  BY ClearAssetsGood
<1>2. /\ b.css_modules[x] = {}
      /\ \A p \in Paths : p # x => b.css_modules[p] = a.css_modules[p]
  BY ClearAssetsGood
<1>3. h = [b EXCEPT !.css_modules = C, !.css_reverse = R]
  BY DEF remove_css_module
<1> HIDE DEF b
<1>4. /\ b \in AssetLayers
      /\ b.css_modules \in [Paths -> SUBSET Paths] /\ b.css_reverse \in [Paths -> SUBSET Paths]
      /\ \A y, p \in Paths : p \in b.css_reverse[y] <=> y \in b.css_modules[p]
  BY <1>1 DEF GoodAssets, AssetLayers, AssetsCoherent
<1>5. \A p \in Paths : p # x /\ x \in b.css_modules[p] => p \in a.css_reverse[x]
  BY <1>2 DEF GoodAssets, AssetsCoherent
<1>6. \A p \in Paths : C[p] = b.css_modules[p] \ {x}
  BY <1>2, <1>5
<1>7. C \in [Paths -> SUBSET Paths] /\ R \in [Paths -> SUBSET Paths]
  BY <1>4
<1>8. ASSUME NEW y \in Paths
      PROVE  R[y] = {p \in Paths : y \in C[p]}
  <2>1. R[y] = IF y = x THEN {} ELSE b.css_reverse[y]
    BY <1>4
  <2>2. \A p \in Paths : p \in R[y] <=> y \in C[p]
    BY <1>4, <1>6, <2>1
  <2> QED BY <1>7, <2>2
<1>9. \A p \in Paths : b.css_modules[p] = {} => C[p] = {}
  BY <1>6
<1> HIDE DEF C, R, h
<1>10. /\ h \in AssetLayers /\ h.css_modules = C /\ h.css_reverse = R
       /\ h.islands = b.islands /\ h.islands_reverse = b.islands_reverse /\ h.assets = b.assets
  BY <1>3, <1>4, <1>7 DEF AssetLayers
<1>11. AssetsCoherent(h)
  BY <1>1, <1>8, <1>9, <1>10 DEF GoodAssets, AssetsCoherent
<1> QED BY <1>10, <1>11 DEF GoodAssets, h

LEMMA MergeAssetsGood ==
  ASSUME NEW a, GoodAssets(a), NEW old, GoodAssets(old)
  PROVE  GoodAssets(merge_assets(a, old))
<1>1. /\ old.assets \ a.assets \subseteq Paths
      /\ old.islands \in [Paths -> SUBSET Components] /\ old.css_modules \in [Paths -> SUBSET Paths]
  BY DEF GoodAssets, AssetLayers
<1> QED BY <1>1, SetAssetsGood DEF merge_assets

-----------------------------------------------------------------------------
(* The session keeps both layers good, in memory and in the cache *)

IInv ==
  /\ TypeOK
  /\ Good(graph) /\ GoodAssets(assets)
  /\ cache # NoCache => Good(cache.graph) /\ GoodAssets(cache.assets)
  /\ phase = "down" => graph = NewGraph
  /\ BootKnowsEveryRoute

\* No operation but remove_node forgets a page.
LEMMA PagesGrow ==
  ASSUME NEW g, Good(g)
  PROVE  /\ \A imports : g.pages \subseteq populate_module_edges(g, imports).pages
         /\ \A reads : g.pages \subseteq replace_content_edges(g, reads).pages
         /\ \A pages : g.pages \subseteq seed(g, pages).pages
         /\ \A old : g.pages \subseteq merge_from_persisted(g, old).pages
<1>1. \A ps, deps : g.pages \subseteq upsert_all(g, ps, deps).pages
  BY DEF Good, Graphs, upsert_all
<1>2. \A more : LET h == [g EXCEPT !.globals = @ \cup more] IN
        \A ps, deps : g.pages \subseteq upsert_all(h, ps, deps).pages
  BY DEF Good, Graphs, upsert_all
<1>3. \A imports : g.pages \subseteq populate_module_edges(g, imports).pages
  BY <1>1 DEF populate_module_edges
<1>4. \A reads : g.pages \subseteq replace_content_edges(g, reads).pages
  BY <1>1 DEF replace_content_edges
<1>5. \A pages : g.pages \subseteq seed(g, pages).pages
  BY <1>1 DEF seed
<1>6. \A old : g.pages \subseteq merge_from_persisted(g, old).pages
  BY <1>2 DEF merge_from_persisted
<1> QED BY <1>3, <1>4, <1>5, <1>6

\* Every page of a seeded graph answers to its own path.
LEMMA SeedKnows ==
  ASSUME NEW g, Good(g), NEW pages \in SUBSET PageFiles, NEW p \in pages
  PROVE  p \in seed(g, pages).globals \cup dirty_pages(seed(g, pages), p)
<1> DEFINE unknown == {q \in pages : ~knows(g, q)}
           nothing == [q \in unknown |-> {}]
           h       == upsert_all(g, unknown, nothing)
<1>1. seed(g, pages) = h
  BY DEF seed
<1>2. unknown \in SUBSET Paths /\ nothing \in [unknown -> SUBSET Edges] /\ g \in Graphs
  BY FileAssumption DEF Good
<1>3. h.pages = g.pages \cup unknown /\ h.globals = g.globals
  <2> HIDE DEF nothing, unknown
  <2> QED BY <1>2, UpsertFields
<1> HIDE DEF h
<1>4. CASE p \in unknown
  BY <1>1, <1>3, <1>4 DEF dirty_pages
<1>5. CASE knows(g, p)
  <2>1. p \in g.globals \/ p \in g.pages
    BY <1>5 DEF knows, Good, Closed
  <2> QED BY <1>1, <1>3, <2>1 DEF dirty_pages
<1> QED BY <1>4, <1>5

LEMMA InitIInv == Init => IInv
<1> SUFFICES ASSUME Init PROVE IInv
  OBVIOUS
<1>1. TypeOK
  <2>1. tree \in Trees /\ used \in [Counters -> Nat]
    BY DEF Init, Trees, Absent, Counters
  <2>2. graph \in Graphs /\ assets \in AssetLayers
    BY NewGraphGood, NewAssetsGood DEF Init, Good, GoodAssets
  <2> QED BY <2>1, <2>2 DEF Init, TypeOK, Phases
<1> QED BY <1>1, NewGraphGood, NewAssetsGood DEF Init, IInv, BootKnowsEveryRoute

LEMMA UseType ==
  ASSUME NEW what \in Counters, NEW limit, TypeOK, Use(what, limit)
  PROVE  used' \in [Counters -> Nat]
BY DEF Use, TypeOK

LEMMA NextIInv == IInv /\ [Next]_vars => IInv'
<1> SUFFICES ASSUME IInv, [Next]_vars PROVE IInv'
  OBVIOUS
<1> USE DEF IInv
<1>1. ASSUME NEW x \in Paths, WriteFile(x)
      PROVE  IInv'
  <2>1. "write" \in Counters
    BY DEF Counters
  <2>2. used' \in [Counters -> Nat] /\ used["write"] + 2 \in Nat
    BY <1>1, <2>1, UseType DEF WriteFile, TypeOK
  <2>3. tree' \in Trees
    BY <1>1, <2>2 DEF WriteFile, TypeOK, Trees
  <2> QED BY <1>1, <2>2, <2>3 DEF WriteFile, TypeOK, BootKnowsEveryRoute, load_persisted_graph
<1>2. ASSUME NEW x \in Paths, RemoveFile(x)
      PROVE  IInv'
  <2>1. "remove" \in Counters
    BY DEF Counters
  <2>2. used' \in [Counters -> Nat]
    BY <1>2, <2>1, UseType DEF RemoveFile
  <2>3. tree' \in Trees
    BY <1>2 DEF RemoveFile, TypeOK, Trees, Absent
  <2> QED BY <1>2, <2>2, <2>3 DEF RemoveFile, TypeOK, BootKnowsEveryRoute
<1>3. ASSUME NEW x \in Paths, HandleRemoved(x)
      PROVE  IInv'
  <2>1. Good(graph') /\ GoodAssets(assets')
    BY <1>3, RemoveGood, RemoveCssGood DEF HandleRemoved
  <2>2. affected' \subseteq Paths
    BY <1>3, RemoveFields DEF HandleRemoved
  <2> QED BY <1>3, <2>1, <2>2 DEF HandleRemoved, TypeOK, BootKnowsEveryRoute, Good, GoodAssets
<1>4. ASSUME NEW imports \in Metafiles, BootBundle(imports)
      PROVE  IInv'
  <2>1. Good(graph')
    BY <1>4, NewGraphGood, PopulateGood DEF BootBundle, TypeOK
  <2>2. used' \in [Counters -> Nat]
    BY <1>4, UseType DEF BootBundle, Counters
  <2>3. phase' = "bundled" /\ phase' \in Phases
    BY <1>4 DEF BootBundle, Phases
  <2> QED BY <1>4, <2>1, <2>2, <2>3 DEF BootBundle, TypeOK, BootKnowsEveryRoute, Good
<1>5. ASSUME NEW imports \in Metafiles, Refresh(imports)
      PROVE  IInv'
  <2>1. Good(graph')
    BY <1>5, PopulateGood DEF Refresh, TypeOK
  <2> QED BY <1>5, <2>1 DEF Refresh, TypeOK, BootKnowsEveryRoute, Good
<1>6. ASSUME NEW reads \in ContentReads, Reconcile(reads)
      PROVE  IInv'
  <2>1. PICK D \in SUBSET Paths : reads \in [D -> SUBSET ContentFiles]
    BY DEF ContentReads, Files
  <2>2. Good(graph')
    BY <1>6, <2>1, ReplaceContentGood DEF Reconcile
  <2> QED BY <1>6, <2>2 DEF Reconcile, TypeOK, BootKnowsEveryRoute, Good
<1>7. CASE ComputeDigest
  BY <1>7 DEF ComputeDigest, TypeOK, Phases, BootKnowsEveryRoute
<1>8. CASE Assemble
  <2>1. phase' = "assembled" /\ phase' \in Phases
    BY <1>8 DEF Assemble, Phases
  <2> DEFINE g == IF load_persisted_graph THEN merge_from_persisted(graph, cache.graph) ELSE graph
  <2>2. Good(g)
    BY MergeGood DEF load_persisted_graph
  <2>3. graph' = seed(g, routes) /\ routes \in SUBSET PageFiles /\ routes \in SUBSET Paths
    BY <1>8, FileAssumption DEF Assemble, TypeOK
  <2> HIDE DEF g
  <2>4. Good(graph')
    BY <2>2, <2>3, SeedGood
  <2>5. GoodAssets(assets')
    BY <1>8, MergeAssetsGood DEF Assemble, load_persisted_graph
  <2>6. BootKnowsEveryRoute'
    <3>1. routes' = routes
      BY <1>8 DEF Assemble
    <3> QED BY <2>2, <2>3, <3>1, SeedKnows DEF BootKnowsEveryRoute
  <2> QED BY <1>8, <2>1, <2>4, <2>5, <2>6 DEF Assemble, TypeOK, Good, GoodAssets
<1>9. CASE PublishDigest
  <2>1. Good(graph')
    <3>1. [p \in {} |-> {}] \in [{} -> SUBSET ContentFiles] /\ {} \in SUBSET Paths
      OBVIOUS
    <3> QED BY <1>9, <3>1, ReplaceContentGood DEF PublishDigest, clear_content_edges
  <2> QED BY <1>9, <2>1 DEF PublishDigest, TypeOK, Phases, BootKnowsEveryRoute, Good
<1>10. CASE ApiCall
  <2>1. used' \in [Counters -> Nat]
    BY <1>10, UseType DEF ApiCall, Counters
  <2>2. ASSUME NEW p \in PageFiles, NEW cs \in Islands, NEW css \in SUBSET (Paths \ PageFiles),
               assets' = set_assets(assets, {p}, [q \in {p} |-> cs], [q \in {p} |-> css]), UNCHANGED graph
        PROVE  Good(graph') /\ GoodAssets(assets')
    <3> DEFINE islands == [q \in {p} |-> cs]
               modules == [q \in {p} |-> css]
    <3>1. \A q \in {p} : islands[q] \in SUBSET Components
      BY FileAssumption
    <3>2. \A q \in {p} : modules[q] \in SUBSET Paths
      OBVIOUS
    <3>3. {p} \in SUBSET Paths
      BY FileAssumption
    <3> HIDE DEF islands, modules
    <3>4. GoodAssets(set_assets(assets, {p}, islands, modules))
      BY <3>1, <3>2, <3>3, SetAssetsGood
    <3> QED BY <2>2, <3>4 DEF islands, modules
  <2>3. ASSUME NEW p \in PageFiles, assets' = clear_assets_for_page(assets, p), UNCHANGED graph
        PROVE  Good(graph') /\ GoodAssets(assets')
    BY <2>3, FileAssumption, ClearAssetsGood
  <2>4. ASSUME NEW x \in Paths, UNCHANGED assets,
               graph' \in {mark_global(graph, x), unmark_global(graph, x), add_node(graph, x)}
        PROVE  Good(graph') /\ GoodAssets(assets')
    <3>1. /\ graph' \in Graphs /\ graph'.pages = graph.pages /\ graph'.forward = graph.forward
          /\ graph'.reverse = graph.reverse /\ graph.nodes \subseteq graph'.nodes
      BY <2>4 DEF Good, Graphs, mark_global, unmark_global, add_node
    <3> QED BY <2>4, <3>1 DEF Good, Coherent, Closed
  <2>5. Good(graph') /\ GoodAssets(assets')
    BY <1>10, <2>2, <2>3, <2>4 DEF ApiCall
  <2> QED BY <1>10, <2>1, <2>5 DEF ApiCall, TypeOK, BootKnowsEveryRoute, Good, GoodAssets
<1>11. ASSUME Alive, Gone, cache' \in {cache, save_graph_on_shutdown}
       PROVE  IInv'
  <2>1. /\ cache' \in Caches \cup {NoCache}
        /\ cache' # NoCache => Good(cache'.graph) /\ GoodAssets(cache'.assets)
    BY <1>11 DEF save_graph_on_shutdown, TypeOK, Caches, Good, GoodAssets
  <2> QED BY <1>11, <2>1, NewGraphGood, NewAssetsGood
          DEF Gone, TypeOK, Phases, BootKnowsEveryRoute, Good, GoodAssets
<1>12. CASE UNCHANGED vars
  BY <1>12 DEF vars, TypeOK, BootKnowsEveryRoute
<1> QED
  BY <1>1, <1>2, <1>3, <1>4, <1>5, <1>6, <1>7, <1>8, <1>9, <1>10, <1>11, <1>12
  DEF Next, Shutdown, Crash

LEMMA Invariant == Spec => []IInv
BY InitIInv, NextIInv, PTL DEF Spec

-----------------------------------------------------------------------------
(* The theorems *)

\* Every variable keeps its type, in every session and in the cache between them.
THEOREM TypeCorrect == Spec => []TypeOK
<1>1. IInv => TypeOK
  BY DEF IInv
<1> QED BY <1>1, Invariant, PTL

\* No sequence of boots, ticks, merges and removals makes an index of the graph,
\* live or cached, disagree with the edges.
THEOREM IndexesStayCoherent == Spec => []IndexesCoherent
<1>1. IInv => IndexesCoherent
  BY DEF IInv, IndexesCoherent, Good, GoodAssets
<1> QED BY <1>1, Invariant, PTL

\* The assembled boot graph selects every page of the route table for a change
\* to that page itself.
THEOREM BootGraphKnowsEveryRoute == Spec => []BootKnowsEveryRoute
<1>1. IInv => BootKnowsEveryRoute
  BY DEF IInv
<1> QED BY <1>1, Invariant, PTL

\* The digest is published by the last step of the boot, and only there.
Published == slot # NoDigest => phase = "running" /\ slot = digest

\* A shutdown saves only what a boot has finished.
THEOREM HalfBootsAreNotSaved == Spec => SavesOnlyFinishedBoots
<1>1. Init => Published
  BY DEF Init, Published
<1>2. Published /\ [Next]_vars => Published'
  BY DEF Published, Next, vars, WriteFile, RemoveFile, HandleRemoved, BootBundle, Refresh, Reconcile,
         ComputeDigest, Assemble, PublishDigest, ApiCall, Shutdown, Crash, Gone
<1>3. Published /\ [Next]_vars => [cache' # cache => phase = "running" /\ cache'.digest = digest]_vars
  <2> SUFFICES ASSUME Published, Next, cache' # cache
               PROVE  phase = "running" /\ cache'.digest = digest
    OBVIOUS
  <2>1. Shutdown
    BY DEF Next, WriteFile, RemoveFile, HandleRemoved, BootBundle, Refresh, Reconcile,
           ComputeDigest, Assemble, PublishDigest, ApiCall, Crash
  <2> QED BY <2>1 DEF Shutdown, save_graph_on_shutdown, Published
<1> QED BY <1>1, <1>2, <1>3, PTL DEF Spec, SavesOnlyFinishedBoots

\* Publishing the boot digest leaves no Content edge of an earlier session.
THEOREM ContentEdgesAreNotInherited == Spec => NoInheritedContent
<1>1. ASSUME IInv, PublishDigest, NEW p \in Paths
      PROVE  OfKind(graph', p, Content) = {}
  <2> DEFINE nothing == [q \in {} |-> {}]
             kept    == [q \in graph.pages |-> NotOfKind(graph, q, Content) \cup ({} \X {Content})]
  <2>1. Good(graph)
    BY <1>1 DEF IInv
  <2>2. graph' = replace_content_edges(graph, nothing)
    BY <1>1 DEF PublishDigest, clear_content_edges
  <2>3. graph.pages \cup DOMAIN nothing = graph.pages
    OBVIOUS
  <2>4. \A q \in graph.pages : kept[q] = NotOfKind(graph, q, Content)
    OBVIOUS
  <2>5. graph' = upsert_all(graph, graph.pages, kept)
    BY <2>2, <2>3 DEF replace_content_edges
  <2>6. kept \in [graph.pages -> SUBSET Edges] /\ graph \in Graphs /\ graph.pages \in SUBSET Paths
    BY <2>1, <2>4, GoodTargets DEF Good, Graphs, NotOfKind
  <2> HIDE DEF kept
  <2>7. graph'.forward[p] = IF p \in graph.pages THEN WithSelfEdge(p, kept[p]) ELSE graph.forward[p]
    BY <2>5, <2>6, UpsertFields
  <2>8. CASE p \in graph.pages
    BY <2>4, <2>7, <2>8, KindAssumption DEF OfKind, NotOfKind, WithSelfEdge
  <2>9. CASE p \notin graph.pages
    BY <2>1, <2>7, <2>9 DEF OfKind, Good, Coherent
  <2> QED BY <2>8, <2>9
<1>2. IInv /\ [Next]_vars => [PublishDigest => \A p \in Paths : OfKind(graph', p, Content) = {}]_vars
  BY <1>1
<1> QED BY <1>2, Invariant, PTL DEF Spec, NoInheritedContent

\* Between two good graphs, no page of the first lost, every change of a page's
\* edges is a resolve.
LEMMA GrowthIsResolve ==
  ASSUME Good(graph), Good(graph'), graph.pages \subseteq graph'.pages, UNCHANGED affected
  PROVE  Edge!Resolve
<1>1. graph'.forward \in [Paths -> SUBSET (Paths \X Kinds)]
  BY DEF Good, Graphs, Edges
<1>2. ASSUME NEW p \in Paths, graph'.forward[p] # graph.forward[p]
      PROVE  \E d \in graph'.forward[p] : d[1] = p
  <2>1. p \in graph'.pages
    BY <1>2 DEF Good, Coherent
  <2> QED BY <2>1 DEF Good, Coherent, Targets
<1> QED BY <1>1, <1>2 DEF Edge!Resolve

\* The graph with its indexes implements the plain map of edges: a removal names
\* every page that depended on the file and forgets it on both sides.
THEOREM GraphImplementsImporters == Spec => RemovalReachesEveryImporter
<1>1. Init => Edge!Init
  BY DEF Init, Edge!Init, Edge!Nothing, NewGraph
<1>2. IInv /\ IInv' /\ [Next]_vars => [Edge!Next]_(Edge!vars)
  <2> SUFFICES ASSUME IInv, IInv', [Next]_vars PROVE [Edge!Next]_(Edge!vars)
    OBVIOUS
  <2>1. ASSUME NEW x \in Paths, HandleRemoved(x)
        PROVE  Edge!Remove(x)
    <3>1. affected' = {p \in Paths : x \in Targets(graph.forward[p])}
      BY <2>1, RemoveFields DEF HandleRemoved, IInv
    <3>2. graph'.forward \in [Paths -> SUBSET Edges]
      BY DEF IInv, Good, Graphs
    <3>3. ASSUME NEW p \in Paths
          PROVE  graph'.forward[p] = IF p = x THEN {} ELSE {d \in graph.forward[p] : d[1] # x}
      <4>1. graph' = remove_node(graph, x) /\ Good(graph)
        BY <2>1 DEF HandleRemoved, IInv
      <4>2. remove_node(graph, x).forward[p] = IF p = x THEN {} ELSE Without(graph.forward[p], x)
        BY <4>1, RemoveFields
      <4> QED BY <4>1, <4>2 DEF Without
    <3>4. affected' = {p \in Paths : Edge!DependsOn(p, x)}
      BY <3>1 DEF Edge!DependsOn, Targets
    <3>5. graph'.forward = [p \in Paths |-> IF p = x THEN {} ELSE {d \in graph.forward[p] : d[1] # x}]
      BY <3>2, <3>3
    <3> QED BY <3>4, <3>5 DEF Edge!Remove
  <2>2. ASSUME UNCHANGED affected, graph.pages \subseteq graph'.pages
        PROVE  [Edge!Next]_(Edge!vars)
    BY <2>2, GrowthIsResolve DEF IInv, Edge!Next
  <2>3. ASSUME Gone
        PROVE  Edge!Restart
    BY <2>3 DEF Gone, NewGraph, Edge!Restart, Edge!Nothing
  <2>4. ASSUME NEW imports \in Metafiles, BootBundle(imports) \/ Refresh(imports)
        PROVE  UNCHANGED affected /\ graph.pages \subseteq graph'.pages
    BY <2>4, NewGraphGood, PagesGrow DEF BootBundle, Refresh, IInv
  <2>5. ASSUME NEW reads \in ContentReads, Reconcile(reads)
        PROVE  UNCHANGED affected /\ graph.pages \subseteq graph'.pages
    BY <2>5, PagesGrow DEF Reconcile, IInv
  <2>6. ASSUME Assemble
        PROVE  UNCHANGED affected /\ graph.pages \subseteq graph'.pages
    <3> DEFINE g == IF load_persisted_graph THEN merge_from_persisted(graph, cache.graph) ELSE graph
    <3>1. Good(g) /\ graph.pages \subseteq g.pages
      BY MergeGood, PagesGrow DEF IInv, load_persisted_graph
    <3>2. graph' = seed(g, routes)
      BY <2>6 DEF Assemble
    <3> HIDE DEF g
    <3>3. g.pages \subseteq graph'.pages
      BY <3>1, <3>2, PagesGrow
    <3> QED BY <2>6, <3>1, <3>3 DEF Assemble
  <2>7. ASSUME PublishDigest
        PROVE  UNCHANGED affected /\ graph.pages \subseteq graph'.pages
    BY <2>7, PagesGrow DEF PublishDigest, clear_content_edges, IInv
  <2>8. ASSUME ApiCall
        PROVE  UNCHANGED affected /\ graph.pages \subseteq graph'.pages
    BY <2>8 DEF ApiCall, IInv, Good, Graphs, mark_global, unmark_global, add_node
  <2>9. ASSUME UNCHANGED <<graph, affected>>
         PROVE  [Edge!Next]_(Edge!vars)
    BY <2>9 DEF Edge!vars
  <2>10. \A x \in Paths : WriteFile(x) \/ RemoveFile(x) => UNCHANGED <<graph, affected>>
    BY DEF WriteFile, RemoveFile
  <2>11. ComputeDigest \/ UNCHANGED vars => UNCHANGED <<graph, affected>>
    BY DEF ComputeDigest, vars
  <2> QED
    BY <2>1, <2>2, <2>3, <2>4, <2>5, <2>6, <2>7, <2>8, <2>9, <2>10, <2>11
    DEF Next, Shutdown, Crash, Edge!Next
<1>3. Spec => Edge!Spec
  BY <1>1, <1>2, Invariant, PTL DEF Spec, Edge!Spec
<1> QED BY <1>3 DEF RemovalReachesEveryImporter
=============================================================================
