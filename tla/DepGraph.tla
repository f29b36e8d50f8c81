------------------------------- MODULE DepGraph -------------------------------
(***************************************************************************)
(* The page dependency graph (crate zfb-graph): which pages depend on      *)
(* which files, asked in the other direction on every change.  The         *)
(* operators below are the methods of struct DependencyGraph; the dev      *)
(* session holds the struct in one mutex, so each is one step.             *)
(*                                                                         *)
(* A page is identified by its source path.  The struct's hash maps are    *)
(* total functions whose empty set stands for an absent key; only the keys *)
(* of `reverse' need a set of their own, `nodes', because add_node stores  *)
(* an empty consumer set.  The asset layer, which shares nothing with the  *)
(* source layer but the page keys, is a record of its own.                 *)
(***************************************************************************)
CONSTANTS Paths,      \* source paths, pages among them
          Kinds,      \* dependency kinds
          Module,     \* the kind of edges from the bundler's metafile
          Content,    \* the kind of edges from observed collection reads
          Components  \* island component names

ASSUME KindAssumption == Module \in Kinds /\ Content \in Kinds /\ Module # Content

Edges == Paths \X Kinds

Graphs == [pages : SUBSET Paths, forward : [Paths -> SUBSET Edges],
           reverse : [Paths -> SUBSET Paths], nodes : SUBSET Paths,
           globals : SUBSET Paths]

AssetLayers == [assets : SUBSET Paths,
                islands : [Paths -> SUBSET Components], css_modules : [Paths -> SUBSET Paths],
                islands_reverse : [Components -> SUBSET Paths],
                css_reverse : [Paths -> SUBSET Paths]]

Targets(deps) == {d[1] : d \in deps}
-----------------------------------------------------------------------------
(* The source layer *)

NewGraph == [pages |-> {}, forward |-> [x \in Paths |-> {}], reverse |-> [x \in Paths |-> {}],
             nodes |-> {}, globals |-> {}]

mark_global(g, x)   == [g EXCEPT !.globals = @ \cup {x}]
unmark_global(g, x) == [g EXCEPT !.globals = @ \ {x}]

WithSelfEdge(page, deps) ==
  IF page \in Targets(deps) THEN deps ELSE deps \cup {<<page, Module>>}

\* Mutant: the reverse entries of the previous resolve are left behind.
upsert_all_dangling(g, ps, deps) ==
  LET fresh == [p \in ps |-> WithSelfEdge(p, deps[p])]
      users(x) == {p \in ps : x \in Targets(fresh[p])}
  IN [g EXCEPT !.pages = @ \cup ps,
               !.forward = [p \in Paths |-> IF p \in ps THEN fresh[p] ELSE @[p]],
               !.reverse = [x \in Paths |-> @[x] \cup users(x)],
               !.nodes = @ \cup {x \in Paths : users(x) # {}}]

\* upsert of every page of `ps' with its dependencies deps[p], in any order:
\* each page touches its own edges only.  A path whose last consumer goes is
\* forgotten, unless a fresh edge brings it back.
upsert_all(g, ps, deps) ==
  LET fresh == [p \in ps |-> WithSelfEdge(p, deps[p])]
      prior(x) == {p \in ps : x \in Targets(g.forward[p])}
      users(x) == {p \in ps : x \in Targets(fresh[p])}
      emptied  == {x \in Paths : prior(x) # {} /\ g.reverse[x] \subseteq prior(x)}
  IN [g EXCEPT !.pages = @ \cup ps,
               !.forward = [p \in Paths |-> IF p \in ps THEN fresh[p] ELSE @[p]],
               !.reverse = [x \in Paths |-> (@[x] \ prior(x)) \cup users(x)],
               !.nodes = (@ \ emptied) \cup {x \in Paths : users(x) # {}}]

upsert(g, page, deps) == upsert_all(g, {page}, [p \in {page} |-> deps])

add_node(g, x) == [g EXCEPT !.nodes = @ \cup {x}]

\* remove_node, first the page's own edges, then those of whoever imported it.
OwnEdgesRemoved(g, x) ==
  IF x \in g.pages THEN [y \in Paths |-> IF y \in Targets(g.forward[x]) THEN g.reverse[y] \ {x}
                                         ELSE g.reverse[y]]
  ELSE g.reverse

\* Mutant: removing a page returns before its importers are collected.
removed_consumers_page_only(g, x) == IF x \in g.pages THEN {x} ELSE OwnEdgesRemoved(g, x)[x]

removed_consumers(g, x) ==
  (IF x \in g.pages THEN {x} ELSE {}) \cup OwnEdgesRemoved(g, x)[x]

remove_node(g, x) ==
  LET reverse   == OwnEdgesRemoved(g, x)
      consumers == reverse[x]
      emptied   == {y \in Paths : g.reverse[y] # {} /\ reverse[y] = {}}
  IN [g EXCEPT !.pages = @ \ {x},
               !.forward = [p \in Paths |->
                              IF p = x /\ x \in g.pages THEN {}
                              ELSE IF p \in consumers THEN {d \in @[p] : d[1] # x}
                              ELSE @[p]],
               !.reverse = [reverse EXCEPT ![x] = {}],
               !.nodes = @ \ (emptied \cup {x})]

knows(g, x) == x \in g.globals \/ g.reverse[x] # {} \/ x \in g.pages

\* DirtySet::Specific; DirtySet::All is the caller's case x \in g.globals.
dirty_pages(g, x) == (IF x \in g.pages THEN {x} ELSE {}) \cup g.reverse[x]

\* The edges of one kind, or of all the others, without the self-edge.
OfKind(g, p, kind)     == {d \in g.forward[p] : d[2] = kind /\ d[1] # p}
NotOfKind(g, p, kind)  == {d \in g.forward[p] : d[2] # kind /\ d[1] # p}

\* Live Module edges win over persisted ones, every other kind is persisted.
MergedDeps(g, old, p) ==
  (IF OfKind(g, p, Module) = {} THEN OfKind(old, p, Module) ELSE OfKind(g, p, Module))
    \cup NotOfKind(old, p, Module)

merge_from_persisted(g, old) ==
  upsert_all([g EXCEPT !.globals = @ \cup old.globals], old.pages,
             [p \in old.pages |-> MergedDeps(g, old, p)])
-----------------------------------------------------------------------------
(* The asset layer *)

NewAssets == [assets |-> {}, islands |-> [x \in Paths |-> {}], css_modules |-> [x \in Paths |-> {}],
              islands_reverse |-> [c \in Components |-> {}], css_reverse |-> [x \in Paths |-> {}]]

\* The reverse index `index' once `ps', which used prior[p], use exactly uses[p].
Reindexed(index, ps, prior, uses) ==
  [k \in DOMAIN index |-> (index[k] \ {p \in ps : k \in prior[p]}) \cup {p \in ps : k \in uses[p]}]

\* set_assets_for_page of every page of `ps'.
set_assets(a, ps, islands, css) ==
  [a EXCEPT !.assets = @ \cup ps,
            !.islands = [p \in Paths |-> IF p \in ps THEN islands[p] ELSE @[p]],
            !.css_modules = [p \in Paths |-> IF p \in ps THEN css[p] ELSE @[p]],
            !.islands_reverse = Reindexed(@, ps, a.islands, islands),
            !.css_reverse = Reindexed(@, ps, a.css_modules, css)]

clear_assets_for_page(a, p) ==
  [set_assets(a, {p}, [q \in {p} |-> {}], [q \in {p} |-> {}]) EXCEPT !.assets = @ \ {p}]

\* remove_node's part in the asset layer: `x' as a page, then as a CSS module.
remove_css_module(a, x) ==
  [clear_assets_for_page(a, x) EXCEPT
     !.css_modules = [p \in Paths |-> IF p \in a.css_reverse[x] THEN @[p] \ {x} ELSE @[p]],
     !.css_reverse[x] = {}]

\* Records of pages the live session has not tracked yet.
merge_assets(a, old) == set_assets(a, old.assets \ a.assets, old.islands, old.css_modules)
-----------------------------------------------------------------------------
(* What ties the indexes together *)

\* The reverse index is the inverse of the forward edges, every page depends on
\* itself, and a path with a consumer is a node.
Coherent(g) ==
  /\ \A x \in Paths : g.reverse[x] = {p \in Paths : x \in Targets(g.forward[p])}
  /\ \A p \in Paths : g.forward[p] # {} => p \in g.pages
  /\ \A p \in g.pages : p \in Targets(g.forward[p])
  /\ \A x \in Paths : g.reverse[x] # {} => x \in g.nodes

AssetsCoherent(a) ==
  /\ \A c \in Components : a.islands_reverse[c] = {p \in Paths : c \in a.islands[p]}
  /\ \A x \in Paths : a.css_reverse[x] = {p \in Paths : x \in a.css_modules[p]}
  /\ \A p \in Paths \ a.assets : a.islands[p] = {} /\ a.css_modules[p] = {}
=============================================================================
