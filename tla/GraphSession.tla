----------------------------- MODULE GraphSession -----------------------------
(***************************************************************************)
(* The dependency graph over several runs of `zfb dev': what each boot     *)
(* assembles it from, how ticks change it, and what a shutdown leaves in   *)
(* the cache for the next boot.                                            *)
(*                                                                         *)
(*  boot:      bundle -> digest of the source tree -> load the cache if    *)
(*             its digest matches, merge, seed -> drop persisted content   *)
(*             edges -> publish the digest                                 *)
(*  running:   removed files, re-bundles, content provenance               *)
(*  shutdown:  save the graph under the published digest, if there is one  *)
(*  crash:     nothing is saved; the save itself is a temp file and a      *)
(*             rename, so a crash inside it leaves the previous cache      *)
(*                                                                         *)
(* The digest covers path, modification time and size of every file, so it *)
(* is the tree itself, a file being its last modification time.            *)
(***************************************************************************)
EXTENDS DepGraph, Naturals

CONSTANTS PageFiles,     \* the paths that are page modules
          ContentFiles,  \* the paths that are collection entries
          Islands,       \* component sets an asset record may hold
          MaxWrites,     \* bound: files written after the first boot
          MaxRemovals,   \* bound: files removed
          MaxSessions,   \* bound: boots
          MaxApi,        \* bound: calls of the asset and globals interface
          InitialTree,   \* the files a first boot finds
          NoDigest, NoCache

ASSUME FileAssumption ==
  /\ PageFiles \subseteq Paths /\ ContentFiles \subseteq Paths \ PageFiles
  /\ InitialTree \subseteq Paths /\ Islands \subseteq SUBSET Components
  /\ {MaxWrites, MaxRemovals, MaxSessions, MaxApi} \subseteq Nat

Absent == 0
Trees  == [Paths -> Nat]
Caches == [digest : Trees, graph : Graphs, assets : AssetLayers]

VARIABLES
  tree,     \* modification time of every file
  gone,     \* removals the watcher has reported and no tick has taken
  phase,    \* of the current session
  graph,    \* the live graph, source layer
  assets,   \* the live graph, asset layer
  routes,   \* page ids of the live route table
  digest,   \* the digest the boot task computed
  slot,     \* the published digest
  cache,    \* graph.bin
  affected, \* what the last remove_node returned
  used      \* counters of the bounds

vars == <<tree, gone, phase, graph, assets, routes, digest, slot, cache, affected, used>>

Phases   == {"down", "bundled", "digested", "assembled", "running"}
Counters == {"write", "remove", "session", "api"}

Files(t)  == {x \in Paths : t[x] # Absent}
Alive     == phase # "down"
Use(what, limit) == used[what] < limit /\ used' = [used EXCEPT ![what] = @ + 1]
-----------------------------------------------------------------------------
Init ==
  /\ tree = [x \in Paths |-> IF x \in InitialTree THEN 1 ELSE Absent]
  /\ gone = {} /\ phase = "down" /\ routes = {} /\ affected = {}
  /\ graph = NewGraph /\ assets = NewAssets
  /\ digest = NoDigest /\ slot = NoDigest /\ cache = NoCache
  /\ used = [c \in Counters |-> 0]
-----------------------------------------------------------------------------
(* The developer, whether a session is running or not *)

WriteFile(x) ==
  /\ Use("write", MaxWrites)
  /\ tree' = [tree EXCEPT ![x] = used["write"] + 2]
  /\ UNCHANGED <<gone, phase, graph, assets, routes, digest, slot, cache, affected>>

RemoveFile(x) ==
  /\ tree[x] # Absent /\ Use("remove", MaxRemovals)
  /\ tree' = [tree EXCEPT ![x] = Absent]
  /\ gone' = IF Alive THEN gone \cup {x} ELSE gone
  /\ UNCHANGED <<phase, graph, assets, routes, digest, slot, cache, affected>>
-----------------------------------------------------------------------------
(* Edges from the bundler and from observed reads *)

\* What the metafile reports: the imports of every bundled page, or nothing at
\* all when it cannot be parsed.
Importable(p) == {x \in Files(tree) \ ContentFiles : x # p}
Metafiles ==
  {[p \in {} |-> {}]} \cup
  {f \in [Files(tree) \cap PageFiles -> SUBSET Files(tree)] : \A p \in DOMAIN f : f[p] \subseteq Importable(p)}

populate_module_edges(g, imports) ==
  upsert_all(g, DOMAIN imports,
             [p \in DOMAIN imports |-> NotOfKind(g, p, Module) \cup (imports[p] \X {Module})])

ContentReads == [Files(tree) \cap PageFiles -> SUBSET (Files(tree) \cap ContentFiles)]

\* Mutant: only the pages with a current observation are rewritten.
replace_observed_only(g, reads) ==
  upsert_all(g, DOMAIN reads, [p \in DOMAIN reads |-> NotOfKind(g, p, Content)
                                                     \cup (reads[p] \X {Content})])

replace_content_edges(g, reads) ==
  LET ps == g.pages \cup DOMAIN reads IN
  upsert_all(g, ps, [p \in ps |-> NotOfKind(g, p, Content)
                                  \cup ((IF p \in DOMAIN reads THEN reads[p] ELSE {}) \X {Content})])

clear_content_edges(g) == replace_content_edges(g, [p \in {} |-> {}])
-----------------------------------------------------------------------------
(* Boot *)

BootBundle(imports) ==
  /\ phase = "down" /\ Use("session", MaxSessions)
  /\ phase' = "bundled"
  /\ routes' = Files(tree) \cap PageFiles
  /\ graph' = populate_module_edges(NewGraph, imports)
  /\ UNCHANGED <<tree, gone, assets, digest, slot, cache, affected>>

ComputeDigest ==
  /\ phase = "bundled"
  /\ digest' = tree /\ phase' = "digested"
  /\ UNCHANGED <<tree, gone, graph, assets, routes, slot, cache, affected, used>>

\* Mutant: pages the bundle and the cache left out stay unknown.
seed_nothing(g, pages) == g

\* assemble_boot_graph: pages of the route table the graph has no record of.
seed(g, pages) ==
  LET unknown == {p \in pages : ~knows(g, p)}
  IN upsert_all(g, unknown, [p \in unknown |-> {}])

load_persisted_graph == cache # NoCache /\ cache.digest = digest

Assemble ==
  /\ phase = "digested"
  /\ graph' = seed(IF load_persisted_graph THEN merge_from_persisted(graph, cache.graph)
                   ELSE graph, routes)
  /\ assets' = IF load_persisted_graph THEN merge_assets(assets, cache.assets) ELSE assets
  /\ phase' = "assembled"
  /\ UNCHANGED <<tree, gone, routes, digest, slot, cache, affected, used>>

PublishDigest ==
  /\ phase = "assembled"
  /\ graph' = clear_content_edges(graph)
  /\ slot' = digest /\ phase' = "running"
  /\ UNCHANGED <<tree, gone, assets, routes, digest, cache, affected, used>>
-----------------------------------------------------------------------------
(* Ticks *)

HandleRemoved(x) ==
  /\ phase = "running" /\ x \in gone
  /\ gone' = gone \ {x}
  /\ affected' = removed_consumers(graph, x)
  /\ graph' = remove_node(graph, x)
  /\ assets' = remove_css_module(assets, x)
  /\ UNCHANGED <<tree, phase, routes, digest, slot, cache, used>>

Refresh(imports) ==
  /\ phase = "running"
  /\ graph' = populate_module_edges(graph, imports)
  /\ routes' = Files(tree) \cap PageFiles
  /\ UNCHANGED <<tree, gone, phase, assets, digest, slot, cache, affected, used>>

Reconcile(reads) ==
  /\ phase = "running"
  /\ graph' = replace_content_edges(graph, reads)
  /\ UNCHANGED <<tree, gone, phase, assets, routes, digest, slot, cache, affected, used>>

\* The rest of the public interface, which the dev session itself never calls.
ApiCall ==
  /\ phase = "running" /\ Use("api", MaxApi)
  /\ \/ \E p \in PageFiles, cs \in Islands, css \in SUBSET (Paths \ PageFiles) :
          /\ assets' = set_assets(assets, {p}, [q \in {p} |-> cs], [q \in {p} |-> css])
          /\ UNCHANGED graph
     \/ \E p \in PageFiles : assets' = clear_assets_for_page(assets, p) /\ UNCHANGED graph
     \/ \E x \in Paths : /\ graph' \in {mark_global(graph, x), unmark_global(graph, x),
                                        add_node(graph, x)}
                         /\ UNCHANGED assets
  /\ UNCHANGED <<tree, gone, phase, routes, digest, slot, cache, affected>>
-----------------------------------------------------------------------------
(* The end of a session *)

\* Mutant: the graph is saved as soon as its digest is computed.
save_once_digested ==
  IF digest = NoDigest THEN cache ELSE [digest |-> digest, graph |-> graph, assets |-> assets]

save_graph_on_shutdown ==
  IF slot = NoDigest THEN cache ELSE [digest |-> slot, graph |-> graph, assets |-> assets]

\* The process is gone, and its memory with it.
Gone ==
  /\ phase' = "down" /\ gone' = {} /\ routes' = {} /\ affected' = {}
  /\ graph' = NewGraph /\ assets' = NewAssets
  /\ digest' = NoDigest /\ slot' = NoDigest
  /\ UNCHANGED <<tree, used>>

Shutdown == Alive /\ Gone /\ cache' = save_graph_on_shutdown
Crash    == Alive /\ Gone /\ UNCHANGED cache

Next ==
  \/ \E x \in Paths : WriteFile(x) \/ RemoveFile(x) \/ HandleRemoved(x)
  \/ \E imports \in Metafiles : BootBundle(imports) \/ Refresh(imports)
  \/ \E reads \in ContentReads : Reconcile(reads)
  \/ ComputeDigest \/ Assemble \/ PublishDigest \/ ApiCall \/ Shutdown \/ Crash

Spec == Init /\ [][Next]_vars
-----------------------------------------------------------------------------
(* Properties *)

TypeOK ==
  /\ tree \in Trees /\ gone \subseteq Paths /\ phase \in Phases
  /\ graph \in Graphs /\ assets \in AssetLayers
  /\ routes \subseteq PageFiles /\ affected \subseteq Paths
  /\ digest \in Trees \cup {NoDigest} /\ slot \in Trees \cup {NoDigest}
  /\ cache \in Caches \cup {NoCache}
  /\ used \in [Counters -> Nat]

\* The indexes of the live graph and of the cached one agree with the edges they
\* were built from, so dirty_pages answers from `reverse' what a scan of every
\* page's dependencies would.
IndexesCoherent ==
  /\ Coherent(graph) /\ AssetsCoherent(assets)
  /\ cache # NoCache => Coherent(cache.graph) /\ AssetsCoherent(cache.assets)

\* The graph with its indexes answers removals as the plain map of edges does:
\* every page that depended on the file, the page itself included ("exactly the
\* pages that need rebuilding"), and no edge to it is left.
Edge == INSTANCE Importers WITH deps <- graph.forward

RemovalReachesEveryImporter == Edge!Spec

\* Once the boot graph is assembled a change to any page of the route table
\* selects that page, by name or by being global, whatever the metafile and the
\* cache said.
BootKnowsEveryRoute ==
  phase = "assembled" => \A p \in routes : p \in graph.globals \cup dirty_pages(graph, p)

\* Wherever in the deferred boot a shutdown comes, what it saves is a graph that this
\* boot has merged, seeded and cleared of inherited Content edges, under the digest
\* the boot computed; the shutdown itself only asks whether a digest is published.
SavesOnlyFinishedBoots ==
  [][cache' # cache => phase = "running" /\ cache'.digest = digest]_vars

\* A session starts without the Content edges of an earlier one.
NoInheritedContent ==
  [][PublishDigest => \A p \in Paths : OfKind(graph', p, Content) = {}]_vars

\* A cached graph is reused only for the tree it describes: "false-invalidate,
\* never false-reuse" (zfb-graph/src/persist.rs).
NeverFalseReuse ==
  phase = "digested" /\ load_persisted_graph => cache.graph.pages \subseteq Files(digest)
=============================================================================
