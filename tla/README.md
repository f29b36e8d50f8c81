# zfb, formally

TLA+ models of the parts of `zudo-front-builder` (`zfb`) where the order of events
decides whether a developer sees the page they just edited, and of the other parts
that run concurrently: the watcher and the drain loop behind it, the lazy dev session
(one watcher loop and many request threads writing the same files), the dependency
graph that tells a tick which pages an edit concerns, the publication of documents and
entries as one generation, live reload, the host process of the plugins, and the tree of
prepared sources that the bundler keeps up to date between calls.

Paths below are relative to `src/crates/` unless they say otherwise.

## 1. Inventory

### 1.1 What the program is

`zfb` is a static site generator. `zfb build` runs once; `zfb dev` keeps a session
alive. A dev session consists of these parts.

| Component | State it keeps | Operations | Correct when |
|---|---|---|---|
| Watcher (`zfb-watcher`) | pending set of changes per path, debounce clocks | debounce, flush, self check | every change reaches the drain loop at least once, with its last kind |
| Orchestrator (`zfb-build/src/orchestrator.rs`) | graph, known page sources, known content | drain a batch, normalise it, purge removals, run discovery, plan, hand the plan to the pipeline | a tick selects every page an edit concerns; a tick always ends |
| Dependency graph (`zfb-graph`) | forward edges, reverse index, nodes, globals, asset layer; `graph.bin` on disk | upsert, add/remove node, merge, set/clear assets, dirty_pages; save/load under a digest | the indexes are inverses; removal names all importers; a cache is used only for its own tree |
| Dev render session (`zfb/src/commands/dev.rs`) | V8 host, route tables, stale map, content provenance, skip key, browser token | refresh (bundle, boot candidate, swap host, swap tables), mark / claim / clear stale, reconcile provenance | a route that is not stale has on disk what the live host renders |
| Asset pipeline (`zfb-build/src/pipeline/dev.rs`) | exclusion lock, write cache, failed prunes | apply a plan: render, write, prune, publish; guarded request write | disk and cache agree; no live document is removed; no vanished one stays |
| Lazy render adapter (`zfb/src/lazy_render_adapter.rs`) | per-request locals | claim, render under the renderer mutex, reconcile, write if still current | a request never publishes the bytes of a host that is gone |
| Publication (`zfb-server/src/lib.rs`, `dev.rs`) | publication state of the server, `DocumentObligations`, the discovery gate, the transaction of an apply | begin, stage, commit, leave pending, abort; defer and replay a request's repair | readiness is declared only when nothing failed is outstanding; a response names entries that exist |
| Live reload (`zfb-server/src/livereload.rs`, `livereload.js`) | broadcast channel, one session per connection, the client script of each tab | outcome to events, forward, notice a lag, time out a send, reload, reconnect | a browser that keeps reading shows what is served some time later |
| Plugin host (`zfb-build/src/plugin_runner.rs`, `zfb/js/plugin-host.mjs`) | child process, pending map, two reader tasks, three flags | request, reply, hook timeout and kill, shutdown | callers always get an answer or an error; a crash is announced once; nothing printed is lost |
| Companion ledgers (`zfb/src/commands/dev_companion_ledger.rs`) | live, staged, unresolved and retained generations of island and client scripts | begin, stage, commit, abort, prune plan | no file a served document names is pruned |
| Bundler's shadow session (`zfb-build/src/bundler.rs`) | shadow directory, hashes of what was written, skip entries per source, the dirty flag | open (wipe), mirror, materialise, rewrite stylesheets, prune, mark clean | esbuild reads what a build from scratch would give it |
| Scratch dir, process supervision, bounded joins | lock file, child processes | take the lock, kill at a deadline | one session per directory; shutdown ends |
| Content, router, CSS, islands, config, plugin, markdown crates, `packages/*` | none that outlives a call | pure transformations, subprocess calls, browser code | input/output behaviour |

### 1.2 How the parts interact

- Watcher to orchestrator: a bounded channel of `Change`s, drained into one batch per tick
  (`orchestrator.rs:2235`). A tick runs on the blocking pool; there is only ever one.
- Orchestrator to session: the discovery hook, called for newly created files *before* the
  pipeline's exclusion lock is taken; the reloader and the renderer, called under it.
- Tick and request: they share the renderer mutex (one V8 host), the stale-map mutex, the route
  tables (`RwLock`), the provenance state and the exclusion lock. A tick holds the exclusion lock
  from `apply` to its end; a request only for its final write. A request holds the renderer mutex
  only while it renders or drains, so a tick's host swap can fall between any two of its steps.
- Session to graph: module edges from esbuild's metafile at each refresh, content edges from
  the reads the worker traced while rendering.
- Refresh to the bundler: the boot and every refresh bundle through one shadow session, which outlives
  them; users edit the sources while a call reads them.
- Shutdown to the next boot: `graph.bin`, tagged with a digest of the tree.
- Tick, discovery and requests to the server: one publication hook (`dev.rs:1815-2079`), which takes
  the write lock of the server's state for the state's part of an event and releases it before it
  commits or aborts the companion ledgers and deletes files.
- Tick to browsers: the callback of the watch loop turns the tick's outcome into events on a
  broadcast channel; every connection has a receiver of its own.
- Boot, ticks and requests to the plugin host: JSON lines over the child's stdin, answers over its
  stdout, routed by request id through a shared map.

### 1.3 What is hard here

Interleavings of a tick with requests around the host swap; reads that travel late (a render's
content reads reach the graph after the planner used it); partial failures inside a tick, whose
batch is then gone; prunes that fail and are retried when the route may live again; two
refresh paths, one of which (discovery) runs without the exclusion lock; a graph kept in two
indexes and carried across process lifetimes; a publication event whose state part and file part
are not one step; companions that old, still served documents import; subscribers that lag behind
a bounded channel, and browsers that stop reading; edits made while nobody watched the file; a
child process that hangs, dies or leaves its pipes open to somebody else; an incremental tree that is
trusted by hashes and modification times after calls that failed and paths that changed their kind. `PROJECT.json` lists each hazard at its line with
the properties that cover it, or the reason none does yet.

## 2. Plan

1. `StaleMap`, `LazyDev`: the tick, the request and everything they share. **Done.**
2. `DepGraph`, `GraphSession`, `Importers`: the graph and its life across sessions, shown to
   implement the plain map of edges. **Done.**
3. Proofs of both, for every site and any number of threads. **Done for the properties in section 6.**
4. `PublicationState`, `Obligations`, `CompanionLedger`, `Publication`: the server's publication
   state, the obligations and the discovery gate, both ledgers, and the transaction that composes
   them. **Done, except the CSS step; readiness is proved, and that what a response names is on disk.**
5. `LiveReload`: reload events to slow, dropped and hidden tabs. **Done and proved, liveness by TLC.**
6. `Watch`: the debouncer, its channel, and the reconciliation of edits before a watch. **Done and its safety proved.**
7. `PluginHost`: requests, timeouts, readers and shutdown. **Done and its safety proved.**
8. `ShadowTree`: the shadow session of the bundler. **Done and proved: true hashes, no write
   to a source, fresh files and a current bridge.**
9. Further theorems: `NoOrphan`, `FreshMeansCurrent` and `PlannerReachesReaders`. **Done, and `BodyKeepsItsIslands`.**
10. Further models: the leases of scratch and session directories, staging of `node_modules`, the CSS step of
    an apply, recovery of a failed first bundle, spawn and `init` of the plugin host.

## 3. The models

### 3.1 `StaleMap` and `LazyDev`

`StaleMap` is `struct StaleRoutes` and its methods (`dev.rs:5766-6170`). Each runs under one
mutex in the code, hence each is one atomic operator on a record. The map's absent key is the
value `NoEntry`; the `Vec` `tick_stale` is sorted and deduplicated when drained, hence a set.

`LazyDev` composes everything a tick and a request share.

| Variable | Code |
|---|---|
| `src`, `pending` | the source tree; the watcher's channel |
| `known` | `known_content`, `known_page_sources` |
| `observed`, `edges` | `reads_by_observation`; the `Content` edges of the graph |
| `host`, `token`, `renderer` | the V8 host in the renderer slot (the sources it was bundled from, its trace); the provenance token; the renderer mutex |
| `table` | `routes_by_source` of `DevRouteTables` |
| `stale` | the stale map |
| `exclusion` | `WriteShared::exclusion` |
| `disk`, `cache`, `failedPrunes` | the dev HTML root, `WriteCache.last_bytes`, `failed_prunes` |
| `tick`, `req` | locals of `tick_with_kinds` / `apply` / `refresh_bundle_and_routes`, and of `render_stale_route` |
| `budget` | bounds on edits and failures |
| `dropped`, `unbundled`, `unwritten` | history only, read by no guard: what failed ticks had to do (the sources whose pages no tick has marked, the routes that had vanished); the changes of failed ticks that no bundle has read since; the documents that a failed write left neither current nor stale |

The tick, in order: `TickBegin` (batch, removals, normalisation), then, when files were created,
the discovery refresh, `TickPlan`, `TickEnter` (exclusion lock), the reload refresh unless
discovery did it, `RenderEager`, `MarkStale`, `TickReconcile`, one `TickWrite` per document,
`TickPrune`, `TickFinish`. A refresh is `RefreshBundle` (bundle and skip key), `SwapHost`,
`BeginTrace`, `SwapTables`; `RefreshFails` is every error before the swap. The actions of
the refresh are shared by both callers, with `Discovering` telling which one runs.

A request: `RequestRoute` (lookup and pre-check), `RequestClaim` (claim under the renderer
mutex), `RequestRenders` or `RequestRenderFails`, `RequestToken`, `RequestDrain`,
`RequestApply` (the three steps of `reconcile_content_provenance`, between which a swap may
fall), `RequestWrite` or `RequestWriteFails` under the exclusion lock.

Abstractions, and why they are sound for the properties below:

- A document is the part of a host's snapshot its route reads, plus (for routes in `Stamped`) the
  browser build token, for which the graph has no edge. What HTML looks like does not matter.
- `SwapTables` groups the table write, `note_table_swap`, the re-staling of all, seed and
  dynamic routes and the skip key (`dev.rs:8308-8384`). Between those statements a request
  sees a table with the old generation or a bumped one; the window from `SwapHost` to
  `SwapTables` already lets every request action happen in the former, and in the latter it can at
  worst leave one stale entry more.
- `RenderEager` renders all eager routes in one step and `TickReconcile` is one step: the
  watcher alone swaps hosts and tokens, and it is busy here.
- `WriteCache.last_output_path` is keyed by output path in a dev session (the comment at
  `dev.rs:6993-7009` says so), so a page never moves from one path to another, its prune
  cannot fire, and it is not modelled.
- Module edges are derived from `Reads`: esbuild's metafile is complete for a successful bundle.
- Digests and skip keys are the data they digest (no collisions).

### 3.2 `DepGraph`, `GraphSession`, `Importers`

`DepGraph` holds the operations of `DependencyGraph` (`zfb-graph/src/lib.rs`) as pure
operators on two records, the source layer and the asset layer, because one operation
touches both. `upsert_all` applies `upsert` to a set of pages at once; every page touches its own
edges only, so the order is immaterial. A dependency is a pair of path and kind, as in the code.

`GraphSession` is their life: boot (`BootBundle`, `ComputeDigest`, `Assemble`, `PublishDigest`,
the order of `run`'s boot task, `dev.rs:3510-3553`), ticks (`HandleRemoved`, `Refresh`,
`Reconcile`), and the end (`Shutdown` saves under the published digest, `Crash` saves nothing).
The digest is the tree as a map from files to modification times, which is what
`ManifestDigest::compute` hashes. `save_to_disk` writes a temporary file and renames it, so a crash
inside it leaves the previous cache. A missing, undecodable or foreign-version
cache, or an unreadable file while digesting, is `NoCache`/no match. `ApiCall` is the rest of
the crate's public interface (globals, `add_node`, the asset layer), which nothing in the dev
session calls; it is there so that the indexes are checked under every operation.

`Importers` is the abstract specification: a map of edges without indexes, a removal that
names everyone who depended on the file, a resolve, a restart. `GraphSession` implements it with
`deps <- graph.forward`.

### 3.3 `PublicationState`, `Obligations`, `CompanionLedger`, `Publication`

The first three hold pure operators, one per method of a Rust type, on a whole record each:
`PublicationState` is `DevPublicationState` (`zfb-server/src/lib.rs`), `Obligations` is
`DocumentObligations` and `DiscoveryPublicationState` (`dev.rs`), `CompanionLedger` is both ledgers
of `dev_companion_ledger.rs`. `Publication` composes them and instantiates `CompanionLedger` twice.

| Variable | Code |
|---|---|
| `pub`, `obl`, `gate` | the server's state, the obligations, the gate discovery holds |
| `islands`, `scripts` | the two ledgers |
| `disk` | companion files, the build whose islands entry is on disk, client scripts; `phase` is history only: the generation of that entry is staged, was published, or is an orphan: it never committed and the last island went (see section 4) |
| `body`, `stale`, `host`, `live`, `queue` | the documents on disk (with or without island markers), stale marks, what the live host renders, route tables, removals to try again |
| `site`, `plan`, `txn`, `todo`, `pc` | what the project declares; plan and `DocumentPublicationTransaction` of the current apply, and where the tick thread is |
| `req` | the request that drained the last obligation and now publishes |
| `hook` | per thread, what is left of a hook call after the state's lock was released |
| `exclusion`, `publock` | the exclusion lock; the state's write lock when it is held across steps |
| `lost` | history only: documents that nothing marks stale although they are old or were written without a declaration for their markers (section 4) |

An apply is `Enter`, the entry builds (`BuildScripts`, `WriteCompanions` and `WriteIslandsEntry`,
`ReuseIslands`, `NoIslandsLeft` and their failures), `Reload`, `RenderPages`, one `WriteDocument` per
document, `Prune`, then `Commit` or, after a failure, `Drop` (the transaction's destructor), then
`Close`. Discovery is `RaiseGate`, `DiscoveryBeginsLedgers`, `DiscoveryBeginsState`, `Discover` or
`DiscoverFails`, and after a failure `DiscoveryAborts`, `ReleaseGate`, `TakeRepair` and
`ReplayRepair`. A request that repairs the last stale document is `RequestWrites`,
`RequestChecksGate` (which keeps the state's lock), `RequestCommits`, `RequestFinishes`.
`CommitScripts`, `CommitIslands` and `AbortLedgers` are the file part of a hook call, and interleave
with the other thread. The boot is an apply of its own without a transaction.

What is abstracted: an islands build is a token with its set of companion files, a document is absent,
plain, or with island markers, and a client build is the set of its outputs, with a bit for changed
bytes. A source has one document, so failed sources and failed outputs are one set. How a
request claims and renders is `LazyDev`'s subject; here it writes what the host renders.

### 3.4 `LiveReload`

What is served and what a tab shows are versions, one per kind of event (`page`, `css`, `islands`).
`Tick` is the end of a tick with `outcome_to_events`; `PrewarmEnds` sends the events that a recovered
cold boot holds back until its rewrite targets are rendered. `log` is everything sent; a receiver
is a position in it and has lagged when that is older than `Capacity` events (tokio's broadcast).
`Receive`, `Send` and `SendTimesOut` are `handle_livereload_ws` and the SSE stream (`livereload.rs:240-342`):
a lagging WebSocket session sends a `page` message, a lagging SSE stream nothing. `Load`, `Connect`,
`Handle`, `Closed`, `Hide`, `Show`, `LoseConnection` are the client script and the browser around
it. A subscriber in `tooling` is a program on the SSE endpoint.

### 3.5 `Watch`

From an edit on disk to the batch of a tick. `Recv`, `QuietTick`, `EmitNext`, `SendChange`,
`ShutdownSeen` are the `select!` loop of the debouncer (`zfb-watcher/src/lib.rs`) with the merge of
kinds, the forced flush and the probe of the disk; `StartWatcher`, `BootArm`, `Boot`, `TickStart`, `EndPass`
are `watch_loop` with the registration of dependencies that only a build discovers. Modification times
are compared by what the comparison tells: `touched` and `since` hold the files edited since a pass
began to read. `Manifests` are the dependencies a build requires, package manifests of styles: one that is missing is
reported (`policy.rs:1014`), and a pass that fails publishes them although it publishes nothing else
(`dev.rs:4815-4838`). An edit in place may be reported as a creation, a removal may be followed by an
attribute event, a restored file may be reported as a removal only; these are the cases the code's comments name.

### 3.6 `PluginHost`

The running host (`plugin_runner.rs`) and its child (`plugin-host.mjs`). A call is `Call`,
`LockStdin`, `Write` in two pieces, `Answered` or `TimesOut`, then `Forget`, `Condemn`, and the
kill (`TakeChild`, `Reap`) with the bounded joins (`JoinOut`, `JoinErr`, `Joined`, `JoinExpires`).
`Drop` is the HTTP server dropping the future of a request at any of its waits. The two
readers are `ReadOut`, `EndOfOut`, `AlarmOut`, `DrainPending` and `ReadErr`, `EndOfErr`, `AlarmErr`.
The child reads lines, runs hooks concurrently, may hang, occupy its event loop, print, crash, or start a
process that inherits its outputs. `Shutdown` is enabled when no call runs: "no dispatch may
overlap shutdown" (`plugin_runner.rs:1183`) is the caller's obligation and a guard here.

### 3.7 `ShadowTree`

One variable is one part of the tree or of `ShadowSession`/`ShadowWriter` (`bundler.rs`).

| Variable | Code |
|---|---|
| `src`, `stamp`, `clock`, `aside` | the sources, their `(mtime, size)`, the time of the last edit, a file moved away |
| `shadow`, `written` | the files of the shadow directory, `ShadowSession::written` |
| `prevVisited`, `visited` | `prev_visited`, `ShadowWriter::visited` |
| `dirty`, `copyMode`, `settings` | `dirty`, `last_copy_mode`, `last_fingerprint` |
| `skip`, `mirrorSkip` | `content_skip` and `source_skip`, one entry per path; `sibling_mirror_skip` |
| `seen`, `opened` | the input of a call, assembled before it (content snapshot, class maps, `?raw` targets) |
| `at`, `entered`, `pending`, `bridge` | where the call is, directories its walk read, the file between its read and its stat, the content imports it registered |
| `edges` | the `?raw` targets that sources expanded earlier in the call have committed (`bundler.rs:12242-12244`) |

A call is `Begin` (or `BeginFails`), then the steps of `Plan`: the walks of the project (`EnterDir`,
`Materialise` or `Reuse`), the copies of sibling packages (`Mirror`), their preprocessing (`Materialise`,
`Reuse`, `KeepMirror`), the stylesheets (`RewriteCss`); then `prune_stale` and `Bundled`. `Store`
is the stat that follows a file's write. `Fail` may happen anywhere and may leave the file in hand half
written. `Save`, `MakeDir`, `Delete`, `MoveAway` and `MoveBack` are the user, between any two steps.
`write_if_changed`, `symlink_if_absent` and `ensure_dir` are the methods of `ShadowWriter`, as operators
from a tree to a tree: the tree has the sources too, since `fs::write` follows a link.

What a file becomes is data: its form (raw, expanded, compiled, the shim of a stylesheet, the module of a
`?raw` import), the text it is made of, and what else went into it. Expanding a glob sees all files of the
project; compiling sees the settings and the transcluded file. Two texts have the same
stamp only after an edit of a file in `Preserving`, which may keep the stamp or not. Files in `EditsInWindow` may be
saved at any moment, also between the read and the stat of the step that has them in hand; the others not while a file
waits for its stat. A file's expansion sees the targets known when its turn comes (`Targets`): those of the assembled
input and `edges`. A mirrored source that imports another mirrored source with `?raw` is outside `Fresh`, since
whether the target is expanded depends on the order of the copies.

## 4. Runs

Runs that pass:

| Run | Question | Instance |
|---|---|---|
| `lazy_blog` | do two requests and a tick keep a blog current, also when one reconciliation of reads fails? | two posts (the second missing at first) and an index that lists them, two interchangeable request threads, eager boot, two edits, one failure of a reconciliation, before or after it emptied the trace; 3,364,473 states |
| `lazy_site` | the same for a preset site: island component, page that comes and goes, static and dynamic injected route, one failure of any kind | one request thread, two edits, one failure of seven kinds; 2,449,149 states |
| `lazy_failures` | do ticks and requests end, do edits arrive and does nothing vanished stay, whatever fails? | two posts, one thread, two edits, one failure of seven kinds, liveness; 64,838 states |
| `graph_session` | do the indexes, the removals and the boot graph hold over two sessions? | two pages, one may import the other, one entry, one write, one removal, one API call; 277,560 states |
| `publication` | is what is declared ready settled and on disk, whatever fails and whoever interleaves? | two documents, two islands builds that share a companion, one client script, four project declarations, ten kinds of batch, two batches, one failure; 645,729 states |
| `live_reload` | does a tab that keeps reading catch up, and is one that stopped let go? | one subscriber of either endpoint, channel of two, one message on the wire, two ticks of five outcomes, one lost connection or restart, one navigation; 307,226 states |
| `watch` | does every edit reach a tick with the right kind? | a file under a root that is also edited without pause, a required manifest watched late, channel of one, forced flush at two, two edits; 433,325 states |
| `plugin_host` | do callers, readers, timeouts and the shutdown agree on what happened to the child? | one hook call, one droppable call, a pipe of one piece, one line of output on each stream; 314,000 states |
| `shadow_tree` | does esbuild read what a build from scratch would give it, whatever calls skip, fail and flip? | a library that is a file, with or without a macro, or a directory with a stylesheet; a sibling package's file that imports it with `?raw`; a collection entry and a page that include it; copies and links, settings with and without a fingerprint, two edits, those of the collection entry also between its read and its stat; 4,118,798 states |

What the properties say:

- `FreshMeansCurrent`: between ticks, a servable route that is not stale has on disk what the
  live host renders, except for changes no tick has taken, changes whose own tick failed before its bundle and
  that were not edited again (`dropped`), and a document whose own write failed when it was not stale (`unwritten`).
  This is what the stale map is for; both sides of every race end in it.
- `PlannerReachesReaders`: whatever content a fresh document was rendered from, a change to it
  selects that document's page (by an edge, or by the fallback for a file without readers).
- `GuardedWriteIsLive`: a claim that passes the revalidation under the exclusion lock holds
  bytes of the live host, except between discovery's host swap and table swap.
- `DedupMatchesDisk`, `NoOrphan`, `NeverPrunesLive`, `AnnouncedRoutesResolve`: the byte-dedup
  cache never suppresses a write the disk needs; between ticks a document belongs to a live route, or its removal
  is queued, or the tick in which it vanished failed; no live document is pruned; no announced route fails to resolve.
- `EveryTickEnds`, `EveryRequestEnds`, `EditsReachHost`: no lock is leaked or waited for in a
  circle; a skipped refresh never loses an edit, and the batch of a failed tick reaches the host with the next bundle,
  whatever change asked for it (until then it is in `unbundled`).
- `ReadyMeansSettled`, `ReadyIsOnDisk`: `is_ready` is true only when no document or entry build
  that failed is outstanding and no write is uncertain, and then the islands entry on disk is the
  generation whose companions the ledger protects.
- `ServedEntryResolves`, `NamedScriptsOnDisk`, `BodyKeepsItsIslands`: what a response names exists,
  for staged, live and retained generations, between the two halves of every hook call (the islands
  entry except one whose build never committed before the last island went); a document with
  island markers does not lose its URL while one is offered, also when the last island goes, unless it is one of `lost`.
- `GateIsReleased`, `RepairIsPublished`: discovery defers a request's repair only for a while, and
  somebody publishes it then: the request, the tick, or the failed discovery that replays it.
- `DrainedMeansCurrent`, `TabCatchesUp`, `StoppedReaderIsReleased`: a tab that was current when it
  subscribed and has handled everything shows what is served, also after a lag; an attentive tab gets
  there; a tab that stopped reading does not hold its session for ever.
- `NoEditIsLost`, `CreationIsTold`, `EveryEditIsTaken`, `ShutdownCompletes`: when nothing is on its way,
  the last batch with a file says what the disk says and new files were announced as new; an edit is
  taken although another file is edited without pause; shutdown ends although the channel is full.
- `OneHonestAlarm`, `CrashIsTold`, `WaiterIsRemembered`, `CleanShutdown`, `WrittenCallReturns`: a death of
  the child is announced once and only if it was its own, a caller is never forgotten by a
  drain or a timeout, a returned shutdown has a complete report or says so, and a written request comes back.
- `EsbuildReadsFresh`: if nobody edited during a call, esbuild reads at every place of the tree what a build
  without a session would have put there, whatever earlier calls skipped, wrote half or left behind;
  `BridgeMatchesSnapshot`: in such a call the imports of the content bridge are those of the snapshot;
  `WrittenIsOnDisk`: a hash that lets a write be left out is that of the file there;
  `SourcesUntouched`: no write goes through a link of the shadow into the project.
- `IndexesCoherent`, `RemovalReachesEveryImporter`, `BootKnowsEveryRoute`, `NoInheritedContent`:
  section 3.2. `SavesOnlyFinishedBoots`: wherever in the deferred boot a shutdown comes, only a graph that this
  boot has completed is saved, under the digest the boot computed.

Runs that find a disagreement between a statement of the repository and its code:

| Run | The statement | What happens |
|---|---|---|
| `lazy_cold_boot` | an old request "cannot publish and clear it after the swap" (`dev.rs:5955-5959`); a response "is never stale" (`src/docs/.../dev-mode-lifecycle.mdx:84-90`) | With the default on-demand boot, the index has no recorded reads when the planner runs. A request renders it from the old host, clears its entry and is done before the tick enters. The swap re-records outstanding entries only, the plan does not contain the index, and the old document stays fresh until the next edit. |
| `graph_reuse` | "false-invalidate, never false-reuse" (`zfb-graph/src/persist.rs:36-37`) | Shutdown saves the session's last graph under the digest of its boot. If the tree returns to what it was, the next boot accepts edges of files that no longer exist. |
| `shadow_raw_flip` | the flag says "whether this file's text contained `import.meta.glob` at materialise time" (`bundler.rs:11253-11254`); the tree "stays byte-for-byte what a fresh build would produce" (`bundler.rs:1660-1661`) | A file with a glob that is imported with `?raw` is stored as a plain file. When the import goes away the file is skipped, and the glob reaches esbuild as it is. |

Seven more are left out of the passing runs, most of them by a constant or an exception. With the change that is named, TLC
finds them:

- `lazy_blog` with one thread, `InitialTrees <- BothPosts`, `EagerBoot = FALSE`, one edit and one fault of kind
  `provenanceEarly` (`PlannerReachesReaders`, which that instance satisfies without the fault): any failure of a reconciliation "removes Content edges [...] so
  the existing unknown-path fallback remains conservative" (`dev.rs:7316-7319`). A drain that fails after it
  emptied the worker's trace loses those observations; the next one that succeeds rebuilds the edges without
  them, and the file is no longer unknown: it has some readers, not all.
- `publication` with `OverlappingAbort = TRUE`, one document and build, `Sites <- OneIsland`,
  `Batches <- RaceBatches`, three batches and two failures: repairs and discovery "share this state write lock as their
  serialization point" (`dev.rs:1809-1815`). The hook releases that lock before it commits the ledgers. A
  discovery that begins and fails in between aborts them: the staged generation that the state
  already serves is dropped, and a later commit deletes companions of the served entry (`ServedEntryResolves`).
- `publication` without the first line of `ServedEntryResolves`, one document, `Sites <- OneIsland`,
  `Batches <- RaceBatches`, four batches and two failures: a commit may preserve "an older
  islands entry for lazy request-time fallback bodies" (`zfb-server/src/lib.rs:163-164`). The entry has one
  name, and a build writes it before its generation commits. A batch writes the entry of build two and fails;
  the next has no islands left, replaces the staged generation by an empty one and commits. The
  companions of build two are deleted as candidates nobody keeps, the declaration of build one is
  retained, and the entry it names is that of build two. When the islands come back and their
  build fails, a page with markers is served that entry. `disk.phase = "orphan"` records such an entry until it is written again.
- `shadow_tree` with `EditsInWindow = {lib}`, a source in place of the collection entry: "the stored state matches what the compile actually read"
  (`bundler.rs:11513-11515`). The stat comes after the read. An edit between them is stored as the state that
  was compiled, and every later call skips the file.
- `shadow_tree` with `FlipWipeFails = TRUE`: "a half-updated tree can never feed esbuild"
  (`bundler.rs:1667-1670`). The wipe for a change of mode runs before the session is marked dirty. If it fails
  half-way, the next call in the old mode trusts the hashes of the removed files.
- `shadow_tree`, reduced to the library and its stylesheet, with `lib` in `Movable` and five edits:
  "path-type flips heal in place"
  (`bundler.rs:1671-1676`). A file is replaced by a directory for one call and moved back with its old stamp. The
  skip finds something at the place, the directory, and esbuild does too.
- `shadow_tree` with `lib` in `Preserving`: a source edited without a change of its stamp is not seen; the code
  accepts this for all but collection entries (`bundler.rs:11360-11367`).

Other disagreements met while modelling, stated here and not run:

- "Initial render always stays eager" (`dev-mode-lifecycle.mdx:90`), while the default boot mode is `Cold`
  (`dev.rs:5457`) and renders nothing; the model has both as `EagerBoot`.
- The answer of `claim_is_current` "cannot go stale before the write" because no tick is in flight under
  the exclusion lock (`dev.rs:6164-6166`): the discovery hook swaps the host without that lock. A
  write in between publishes bytes of the old host; `FreshMeansCurrent` shows that this heals by the
  tick's end under an eager boot, and `GuardedWriteIsLive` excepts the window.
- A tick that fails before it marks anything loses its batch, although a tick "marks every other affected
  route stale" (`dev-mode-lifecycle.mdx:84-90`); a fresh eager route whose write fails has no entry to
  claim, although a write failure "must leave the request-time repair claimable" (`dev.rs:11454-11457`).
  The history variables `dropped` and `unbundled` except the former, `unwritten` the latter; so no run asks that such a
  document be repaired.
- Vanished routes that could not be removed are retained for a later tick "so no orphan accumulates" (`dev.rs:7005-7010`), because
  "a vanished path is not naturally rediscovered" (`pipeline/dev.rs:550-552`); but a tick that fails after the table swap, at a write
  say, never reaches its prunes and forgets the routes that vanished in it. `lazy_failures` with five edits
  leaves such a document for ever after later ticks succeeded; `dropped.vanished` names it in `NoOrphan`.
- Publication: after a write fails, the later eager documents of that apply are neither failed nor stale,
  and a repair of the failed one declares readiness over them; the same after a failed refresh, also for
  what a request then renders from the host left behind, and for a
  document whose removal failed and which is live again (it keeps its old body). A document that
  vanished in an apply that failed before its prunes stays on disk unmarked. And a
  document that a tick or a request writes while the live host has island markers and the newest declaration none is
  not marked either: the entry build was lost with a batch that failed, or the refresh that was to drop the markers failed. The next
  commit that finds nothing stale gives up the older entry, which three ticks reach. `lost` records
  all of these until they are marked stale, or written under a declaration (`Undeclared`, `Forgotten`), and
  `BodyKeepsItsIslands` excepts them. A failed entry build at boot is a warning only.
- Live reload: "the next real event will still trigger a reload" (`livereload.rs:262-265`) for an SSE
  stream that lagged is not so when that event is `css` or `islands`. "The browser reconnects
  automatically and reloads" (`src/docs/.../build-pipeline.mdx:36`): the script reconnects and does not
  reload, so events between two connections, and between the page's load and its subscription, are missed until the next.
- Watcher: a dependency created or removed before it was watched is not reconciled (the comparison of
  modification times skips missing files, except a required manifest); a failed pass publishes only the required
  manifests, so a new import outside the roots that made it fail is not watched; a transient error of the probe passes the wrong kind. `unseen` and `misread` record these.
- Plugin host: a request dropped in the middle of its write leaves half a line in the pipe, the next
  request is appended to it, and the child exits on the garbled line (`plugin-host.mjs:772-773` says a bad line harms no
  other request); the hook timeout does not cover the write; a forced kill discards the results of its joins, so a
  shutdown after it may leave lines unread without saying so.

## 5. Bounds and fairness

In the lazy runs, two edits are the smallest number with which an edit can arrive during the tick of another, be
undone (the skip key), or recreate what was removed. One failure per behaviour, but
every kind of it at every place it can happen, is enough because a failure leaves nothing
behind but what the other actions then find (a dropped batch, a queued prune, cleared edges). In `lazy_blog` the failure
is one of a reconciliation, since the recorded reads are what its two properties about readers rest on, and the second post
is absent at boot, so that one of the edits creates it. Two request threads suffice for one to
overtake another between claim and write, or to drain what the other rendered; `lazy_blog` uses them
with symmetry, and no liveness property is checked under symmetry. Two values per file tell a changed
file from an unchanged one and let an edit be undone. Two sessions are needed to save and
reload a graph. `MaxEdits`, `MaxFaults`, `MaxWrites`, `MaxRemovals`, `MaxSessions` and `MaxApi` are
the bounds; no other counter is capped (host identities and generations grow with the edits).
In `publication`, two documents tell the last obligation from an earlier one, two builds that share
a companion tell a pruned file from a protected one, and with one retained generation the third
generation (boot, two ticks) evicts one. In `live_reload` the channel holds two events and two ticks send up to eight, so
a session lags by more than the channel; one message on the wire is enough to block a send. In `watch` a
channel of one blocks the debouncer at once, and a burst of two is forced out. In `plugin_host` a
pipe of one piece makes every write block in its middle. In `shadow_tree` the
two initial trees are the two sides of a change of kind, and two edits lead from each to the other; calls
and failures are not bounded. Larger instances were checked by
hand without an error: `publication` with one document, four batches and two failures, and its documents
with two, three batches with vanished documents and two failures (5.1 million states, `BodyKeepsItsIslands` and
the invariant that proves it), `live_reload` with three
ticks (5.2 million states), and parts of `shadow_tree` by themselves: the library and its stylesheet with five
edits, a page and a sibling importing one file with three, four settings with two documents, and a
collection entry edited at any moment with four.

`CHECK_DEADLOCK FALSE` except in `ShadowTree`, where a call can always begin: a session without edits or requests, tabs that are up to date and
a host that was shut down are idle, which is their normal state.

Fairness is weak fairness of the tick's next step and of each running request's next step. The
tick runs on one dedicated blocking thread and the drain loop awaits it before the next
(`orchestrator.rs:2325-2383`); each request runs on its own blocking thread. They wait only for
two mutexes, and the mutexes are not assumed to be fair: weak fairness of a waiting step is enough
because requests cannot hold a tick up for ever. The holder of the renderer mutex releases it without
waiting for anything; a request that rendered needs the exclusion lock to finish, so while a
tick holds that lock each thread comes back for the mutex a bounded number of times; and outside it
each served request makes one route fresh. There is no fairness on edits or on new requests.

The other modules follow the same rule. `Publication`: weak fairness of the tick thread and of the request
that publishes, each one blocking thread of the code. `LiveReload`: of the senders, of each
session task and its timer, and of browsers in `attentive` only; a browser that stopped reading gets none. `Watch`: of
the debouncer's task, of the clock and of the drain loop; `Stall` lets a tick hang, and the
properties except it. `PluginHost`: of the callers, the readers, the timers and the shutdown;
nothing is assumed of the child, whose hooks may hang.

## 6. Proofs

Eight modules of proofs hold, for every value of the constants that meets the named assumptions
(`KindAssumption`, `FileAssumption`, `ConstantAssumption`, `DocumentAssumption`,
`PublicationAssumption`, `RetentionAssumption` (the constant of the code is 2), `NoneAssumption`, `LiveReloadAssumption`, `WatchAssumption`, `HostAssumption`, `ShadowAssumption`, `WalkAssumption`), hence for any site, any number of
request threads, tabs, calls, edits, failures and sessions:

| Theorem | Says |
|---|---|
| `LazyDevProofs!TypeCorrect` | `TypeOK` |
| `LazyDevProofs!DedupIsSafe` | `DedupMatchesDisk` |
| `LazyDevProofs!GuardedWritesAreLive` | `GuardedWriteIsLive` |
| `LazyDevProofs!SwapOutdatesClaims` | a table swap invalidates every claim taken before it |
| `LazyDevProofs!LiveDocumentsStay` | `NeverPrunesLive` |
| `LazyDevProofs!NoOrphans` | `NoOrphan` |
| `LazyDevProofs!ReadersAreReached` | `PlannerReachesReaders`, assuming `ReadersAreKnown` |
| `LazyDevProofs!FreshIsCurrent` | `FreshMeansCurrent`, assuming `ReadersAreKnown` |
| `LazyDevProofs!AnnouncementsResolve` | `AnnouncedRoutesResolve` |
| `GraphSessionProofs!TypeCorrect` | `TypeOK` |
| `GraphSessionProofs!IndexesStayCoherent` | `IndexesCoherent` |
| `GraphSessionProofs!BootGraphKnowsEveryRoute` | `BootKnowsEveryRoute` |
| `GraphSessionProofs!ContentEdgesAreNotInherited` | `NoInheritedContent` |
| `GraphSessionProofs!GraphImplementsImporters` | `RemovalReachesEveryImporter` |
| `GraphSessionProofs!HalfBootsAreNotSaved` | `SavesOnlyFinishedBoots` |
| `PublicationProofs!TypeCorrect` | `TypeOK` |
| `PublicationProofs!ReadinessIsHonest` | `ReadyMeansSettled` |
| `PublicationProofs!ApplyIsNotReady` | no readiness between the opening of a transaction and its end |
| `LedgerProofs!ScriptsAreOnDisk` | `NamedScriptsOnDisk` |
| `LedgerProofs!EntryResolves` | `ServedEntryResolves` |
| `LedgerProofs!ReadyEntryIsLive` | `ReadyIsOnDisk` |
| `LedgerProofs!MarkersKeepTheirEntry` | `BodyKeepsItsIslands` |
| `LiveReloadProofs!TypeCorrect` | `TypeOK` |
| `LiveReloadProofs!ReloadsArrive` | `DrainedMeansCurrent` |
| `WatchProofs!TypeCorrect` | `TypeOK` |
| `WatchProofs!EditsAreTaken` | `NoEditIsLost` |
| `WatchProofs!CreationsAreTold` | `CreationIsTold` |
| `PluginHostProofs!TypeCorrect` | `TypeOK` |
| `PluginHostProofs!AlarmIsHonest` | `OneHonestAlarm` |
| `PluginHostProofs!NoWaiterIsForgotten` | `WaiterIsRemembered` |
| `PluginHostProofs!ShutdownIsClean` | `CleanShutdown` |
| `ShadowTreeProofs!TypeCorrect` | `TypeOK` |
| `ShadowTreeProofs!HashesAreTrue` | `WrittenIsOnDisk` |
| `ShadowTreeProofs!NoWriteThroughLinks` | `SourcesUntouched` |
| `ShadowTreeProofs!BridgeIsCurrent` | `BridgeMatchesSnapshot` |
| `ShadowTreeProofs!EsbuildIsFresh` | `EsbuildReadsFresh` |

The argument for `LazyDev`. `GuardedWriteIsLive` is not inductive: nothing in it relates a
claim taken now to a swap that comes later. The invariant `IInv` adds that every entry of the stale
map is recorded at the current generation (so a claim is current exactly when its
generation is, and the swap, which bumps it, outdates all earlier claims), and, per request,
that a claim at the current generation goes with bytes of the live host unless a swap is between
host and tables. `DedupMatchesDisk` is a conjunct of it. `AnnouncementsResolve` needs a second
invariant, `Announceable`, which tracks what a tick may still announce through its phases. `NoOrphans` has two more:
`Live` says that what is stale, about to be written or written is a live route, so that no render brings a vanished
document back, and `Accounted` where a document without a route is in each phase of a tick: among the routes the tick
saw vanish, the queued removals or those a failed tick forgot.

`ReadersAreReached` and `FreshIsCurrent` (same module) assume `ReadersAreKnown`: the content a route reads is read by
its page's `paths()` too, or the route is always there and boot rendered it; and what decides that a route exists is
read by its render or by `paths()`. `lazy_blog`, `lazy_site` and `lazy_failures` meet it. Without it the theorem is false:
`lazy_cold_boot` has an index that no boot rendered and whose reads `paths()` does not record, and ends in an outdated
document. Nothing else is assumed: boots are eager or not, failures are of all kinds, edits and requests any number.
`EdgesAreWhole` says that the edges of a file are all of its readers on record or none, in which case the plan falls
back to every page, and that the records include those readers. For `FreshIsCurrent`, `Unapplied` is what has a change
that waits for a tick or for the tick's end, or that was lost with a tick that had not bundled. `Snapshots` says that source tree, candidate, live and previous host differ only
there; `Chosen` that the tick has the pages of whatever its batch affects, those of removed files from before their
edges go; `Advanced` that each selected document is rendered, then stale or to be written, then stale or current, so that
at its end the batch counts as applied. `Upheld` is the claim for every moment: a fresh document
that is not `unwritten` is right in all inputs but unapplied ones. The browser token has no edge in the graph, so for its
inputs it says more, they are right even when unapplied (a swap that changes one re-stales every route), except between the
two swaps. There a request may still write bytes of the previous host, and `BytesOfEither` says that they differ only where
that does no harm. Dynamic injected routes are in no table and no plan selects them; `InjectedUpheld` and `Remembered` say that
every swap re-stales those that have a document or are being rendered. TLC checked all of it first, with up to three
edits and two failures on `lazy_failures`.

The argument for `GraphSession`. Coherence of the indexes alone is not preserved, because the
metafile resolves only pages and the merge copies edges of a cached graph. `Good` adds the types
and that a page module some page depends on is itself a page of the graph (without it the boot
could leave a route unseeded that only a cached edge names); it is stated for the live and for the cached
graph, since the latter becomes part of the former. `GraphImplementsImporters` then shows that
each action is a `Resolve`, a `Remove`, a `Restart` or a stutter of `Importers`. `HalfBootsAreNotSaved` rests on
`Published`: a digest is in the slot only once the boot has gone through all its steps, and it is that boot's.

The argument for `Publication`. `ReadyMeansSettled` is not inductive: nothing in it keeps a failure from
being recorded while the documents are not pending. The invariant has four parts besides the types.
`Coherent`: an open transaction or anything unsettled keeps the documents pending (each method
of the state preserves it). `Order`: who holds the exclusion lock, so that no request commits inside
an apply. `Gates`: where the discovery gate is up. `Owed`: inside a relevant apply the documents are
pending, hence failures are recorded under that; and an apply that inherits an open transaction
from discovery finds it unsettled or fresh, so that its abort cannot restore a readiness that is no longer true.
`OverlappingAbort` does not matter to it: the theorems hold for both values.

The argument for `ScriptsAreOnDisk`. A build and a commit delete what the ledger does not protect, so the
invariant says that the ledger protects what the state names. Because the hook releases the state's lock before it
touches a ledger, `Follows` says so per phase: a staged generation of the state is staged in the ledger
until the commit or abort of the event reaches it, and is then the live one; in between the two agree on
what is about to happen. `HookOrder` says where a hook call may be under way, and that the commit of a
request and an abort never are at the same time. The theorem assumes `~OverlappingAbort` for that; section 4 shows
what happens without it.

The argument for `EntryResolves` and `ReadyEntryIsLive` (same module, same assumption). The islands differ from the scripts in
that their entry has one name and is overwritten before its generation commits, so what the ledger says of the
live generation is not yet, or no longer, about the entry on disk. The invariant follows the entry instead:
`Guarded` says that its companions are candidates nobody has settled while its generation is staged, and
live, or the youngest retained generation once no islands are left, after it was published; this is where the retention of at
least one generation is needed. `Tracks` relates the slots of the state to the staged generation of the ledger, which
is one behind between the two halves of a commit. Neither survives an abort by itself, because an abort deletes candidates and
restores an old readiness: `Risks` says that an abort which really drops something finds no entry written by its own
transaction. Such an entry has moved the fallback away from `AbortBeforeDocumentWrite`, or an earlier failure left something
unsettled, and then nothing is aborted; an entry staged by an earlier transaction is in the baseline (`Based`), which an
abort keeps.

The argument for `MarkersKeepTheirEntry` (same module, same assumption). The property is about a step, and the invariant
finds the one step that could break it: `UrlStep` shows that an URL is given up (`Losing`) only by the boot, which has no bodies yet,
and by the commit of an apply whose newest declaration has no islands, that has no outstanding failure and finds no stale body, for
that commit retains nothing (`CommitOffers` has the other commits). `Marked` says that in such a state every body with markers
that is not `lost` is stale, still to be written, failed, or of a document the apply is about to remove (`Vanished`);
at the commit only the first and the third are left, and either forbids the loss. The apply that takes the islands away meets `Marked` only
once it has refreshed and marked (`Refreshing`), which relies on its batch also having page work (`Batched`). `Removed` and `Routed` say
what a body without a route and a stale mark are, `Slots` that a published declaration has URLs. An abort restores
slots, and drops no published staged one, by `Risks`.

The argument for `LiveReload`. `NewsArrives`: a tab that was current when it subscribed is behind in a kind
only if the news of it is not sent yet, is in its receiver, was lost with the loss still to be
noticed, or is being sent, on the wire, or a `page` message before it is. For a tool the same is
true of the kind of the last event only, because a lag is swallowed.

The argument for `Watch`. `NoEditIsLost` speaks of a settled state only, so the invariant says where the
news of a file is before that. A watched file has an event before the probe of the disk (`Up`), or what
is past the probe is right (`Known`): the change whose send waits, one of those in the channel, a
synthesized one, or what was told. An unwatched file has no events (`FromWatch`) and has not come or gone
unseen (`Hidden`); what is accounted for, or was read and not edited since, is told or synthesized
(`Unwatched`), which is what makes a watch armed late safe. A required manifest may come and go before its watch: what
is told of it is what the pass found, and a missing one stays unaccounted for until it is synthesized. For `CreationIsTold`: the creation of a fresh file
is somewhere on the way with no removal behind it (`Announced`), since a later modification does not replace it
and the probe finds the file. After the shutdown signal nothing of this is claimed. Edits may fall between any
two steps; the capacities and the threshold are free.

The argument for `PluginHost`. A flag is raised before every kill and every expected exit, and
a reader looks at the flags after it saw the end, so a reader that reaches its alarm saw a death of the
child's own; the swap of `deathReported` counts the alarms. A waiter leaves `pending` only with its reply, by
its own hand, or in the final drain, which answers it. For the shutdown: the join handles are
taken only by it when nothing was killed, and a reader that ended has read its pipe to the end.

The argument for `ShadowTree`. An operation takes a tree whose remembered files are there (`Sound`) to
another and leaves the sources alone; this is one lemma for each of the four. The last part needs the
hashes: a place with a hash has that file, so it is not a link and the write does not follow one. What a
failed call leaves is covered by the dirty flag, hence the invariant says that a running call has raised it.
The theorems assume `~FlipWipeFails`, and section 4 shows why: that wipe makes `WrittenIsOnDisk`
false with the flag down. They assume nothing of edits: `EditsInWindow`, `Movable` and `Preserving` are any files.

The argument for `BridgeIsCurrent` and `EsbuildIsFresh` (same module). Both speak of the end of a call, so the invariant says what a
call at step `at` has done: its plan visits each file once per pass (`PlanOnce`, from `WalkAssumption`), and `Passed` is
what is behind. `Collecting` says that the bridge has the parsed entries that are behind, `Settled` that the
files behind are in place with the modules that belong to them and no others; both hold of a call during which
nothing was edited, and `HereOrder` gives what a pass needs of the ones before it (directories before their files,
copies before their preprocessing). Nothing in this would justify a skip. `Entries` and `Copies` do, as long as the session is
not dirty: a skip entry is of a text, `Agrees` says that the file has that text whenever it has the entry's
stamp, now or once a moved file is back, and what was made of the text is at its place or nothing is. An edit keeps `Agrees`
(`EditTraces`) since its stamp is new, or the file is a collection entry, which no skip trusts by its stamp. `Placed` lets the prune leave no file of an earlier call.
`Awaited` is for the file between its write and its stat, which stays what was read unless it is an entry
of a collection (`EditAwaits`). `Edged` keeps the targets that are found on the way (`edges`) from making a difference: the
sources among them are walked ones and the walks are over by then (`EdgesSpareDue`). TLC checked all of it on `shadow_tree` before it was proved.

`BridgeIsCurrent` assumes `~FlipWipeFails` and nothing of edits: a collection entry is
replayed only while the snapshot of the same call has its specifier, whatever its stamp says. `EsbuildIsFresh` assumes
`Trackable`: besides `~FlipWipeFails`, only files that are never directories are moved and
restored; only collection entries that nothing transcludes are saved between read and stat or keep their stamp; no
source of the project imports another with `?raw`, and no mirrored source imports a mirrored one so; and the fingerprint
tells the settings apart. `shadow_tree` meets it.
The conditions are not for the proof's convenience: `shadow_raw_flip` takes away the one about `?raw` and the parameters
tried in section 4 take away others, and each ends in a stale file. `WalkAssumption` is what the
file system and the walk grant: paths nest, a directory is walked before what is in it and nothing twice, and a generated
module lies beside its importer and is one for each file imported (a collision is an error, `raw_import_expand.rs:442-449`).

`TypeOK` of the modules with a `TypeCorrect` theorem is not checked again by their runs, except in
`watch`, where it says that a burst stays below its threshold.

Only model-checked: everything temporal beyond `[]` (`EveryTickEnds`,
`EveryRequestEnds`, `EditsReachHost`, `GateIsReleased`, `RepairIsPublished`, `TabCatchesUp`,
`StoppedReaderIsReleased`, `EveryEditIsTaken`, `ShutdownCompletes`, `WrittenCallReturns`,
`CrashIsTold`): liveness under fairness is outside the prover's reach. No recursive operator
is used anywhere.

## 7. Not modelled

- In `LazyDev`: recovery of a boot whose first bundle failed; the reload branch of ticks that
  touch server-rendered routes only; eager mode (`ZFB_DEV_EAGER`); the publication observer (it is
  `Publication`'s `RequestWrites`); the file of dynamic injected routes remembered from an earlier
  session. The entry and script steps of a plan and the gate of prunes are in `Publication`, which in
  turn sees a request from its guarded write on.
- In `Publication`: the CSS step, whose failure ends an apply like a failed entry build without an
  obligation of its own; eager boot mode; the response paths of `routes.rs` other than the choice of
  islands URLs.
- In `LiveReload`: payloads of events, the error overlay, compression and origin checks.
- In `Watch`: which backend events become changes and the suppression of the session's own writes, the
  self check of the backend, the polling backend, the periodic sync of directory watches, the granularity of
  modification times. Nothing is edited after the signal to shut down.
- In `PluginHost`: spawn and `init`, the staging of the host script, virtual modules, callers of `shutdown`
  other than the first. A write to a dead child always fails.
- In `ShadowTree`: a source that is materialised at two places, links of the sources and the containment
  of their targets, module workers, `bundle.exclude`, the cache of the scan for `?raw` targets, the links to
  `node_modules`, and the ownership of the session's directory. esbuild reads the tree or fails.
- `zfb build`, `zfb preview`, content, markdown, CSS, routing, configuration and toolchain crates:
  transformations and subprocess calls without concurrent state; together they are most of the
  repository's lines, which is why the models cover a small share of them. The browser packages and
  the create script: no shared state with the session.
