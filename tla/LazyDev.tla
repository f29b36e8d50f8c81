------------------------------- MODULE LazyDev -------------------------------
(***************************************************************************)
(* The lazy dev session of `zfb dev`: one watcher loop that turns batches  *)
(* of file changes into ticks, and request threads that re-render a stale  *)
(* route just before it is served.  Both write the same HTML files.        *)
(*                                                                         *)
(*  - A tick selects pages through the dependency graph, re-bundles the    *)
(*    site into a fresh V8 host, swaps it in, moves the route tables,      *)
(*    renders the edited entries' own routes and marks every other         *)
(*    selected route stale.  It holds the pipeline exclusion lock from     *)
(*    `enter' to its end.  A batch with newly created files refreshes the  *)
(*    host first, in the discovery hook, before it has that lock.          *)
(*  - A request for a stale route claims it and renders it under the       *)
(*    renderer mutex, reconciles the content provenance, and writes under  *)
(*    the exclusion lock if its claim is still current.                    *)
(*                                                                         *)
(* Data are abstracted to what freshness can tell apart: a source file is  *)
(* one of a few Values, a host is the snapshot of the sources it was       *)
(* bundled from, and a rendered document is the part of a host's snapshot  *)
(* that the route reads.                                                   *)
(***************************************************************************)
EXTENDS StaleMap, FiniteSets

CONSTANTS
  Pages,        \* page modules (PageId), the granularity of the graph
  Sources,      \* watched source files
  Modules,      \* the sources whose edges come from esbuild's metafile
  Values,       \* possible contents of a source file
  Absent,       \* the file does not exist
  NoSource,     \* Own of a route that exists whatever the sources are
  NoFile,       \* no document, no cached bytes, nothing rendered
  NoPath,       \* no route: what an idle request is asked for
  PageOf,       \* the page module a route belongs to
  Own,          \* the source whose existence makes the route exist
  Reads,        \* the sources a route's render reads
  PathReads,    \* the content a page's paths() reads when a host starts
  Injected,     \* dynamic injected routes, never in the route table
  Seeds,        \* static injected routes, always in the route table
  IslandSources,\* sources the browser build token is a digest of
  Stamped,      \* routes whose document carries that token
  Requests,     \* request threads
  InitialTrees, \* source trees a session may start from
  EagerBoot,    \* did boot render every route, or leave them all stale?
  MaxEdits,     \* bound: edits of a behaviour
  MaxFaults,    \* bound: failures of a behaviour, of all kinds together
  FaultKinds,   \* the kinds of failure that may happen
  Watcher,      \* the tick as a lock holder
  Nobody        \* the lock is free

Content  == Sources \ Modules
Holder   == Requests \cup {Watcher, Nobody}
Kinds    == {"Created", "Modified", "Removed"}
Faults   == {"refresh", "render", "tickWrite", "requestWrite", "prune",
             "provenanceEarly", "provenanceLate"}

ASSUME ConstantAssumption ==
  /\ Modules \subseteq Sources /\ Injected \subseteq Routes /\ Seeds \subseteq Routes
  /\ Seeds \cap Injected = {} /\ IslandSources \subseteq Sources /\ Stamped \subseteq Routes
  /\ PageOf \in [Routes -> Pages]
  /\ Own \in [Routes -> Sources \cup {NoSource}] /\ NoSource \notin Sources
  /\ \A r \in Injected \cup Seeds : Own[r] = NoSource
  /\ Reads \in [Routes -> SUBSET Sources] /\ PathReads \in [Pages -> SUBSET Content]
  /\ Absent \notin Values /\ NoPath \notin Routes
  /\ {Watcher, Nobody} \cap Requests = {} /\ Watcher # Nobody
  /\ InitialTrees \subseteq [Sources -> Values \cup {Absent}]
  /\ EagerBoot \in BOOLEAN
  /\ {MaxEdits, MaxFaults} \subseteq Nat /\ FaultKinds \subseteq Faults

VARIABLES
  src,       \* the source tree
  pending,   \* changes the watcher has reported and no tick has taken
  known,     \* known_content and known_page_sources
  observed,  \* reads_by_observation: the routes and pages with recorded reads
  edges,     \* Content edges of the dependency graph: source -> pages
  host,      \* the live host: [snapshot, id, trace]
  token,     \* the host id the provenance state believes is live
  renderer,  \* holder of the renderer mutex
  table,     \* the live route table
  stale,     \* the stale map
  exclusion, \* holder of the pipeline exclusion lock
  disk,      \* documents under the dev HTML root
  cache,     \* WriteCache.last_bytes
  failedPrunes,
  tick,      \* the tick's program counter and locals
  req,       \* per request thread: program counter and locals
  budget,    \* the edits and the failures that are left
  dropped,   \* history: what the batches that failed had to do
  unbundled, \* history: changes of failed batches that no bundle has read since
  unwritten  \* history: documents a failed write left neither current nor stale

graphVars == <<observed, edges>>
fileVars  == <<disk, cache, failedPrunes>>
hostVars  == <<host, token, renderer, table>>
envVars   == <<src, pending>>
history   == <<dropped, unbundled, unwritten>>
vars == <<src, pending, known, observed, edges, host, token, renderer, table, stale,
          exclusion, disk, cache, failedPrunes, tick, req, budget, dropped, unbundled, unwritten>>
-----------------------------------------------------------------------------
(* Data *)

RoutesOf(snapshot) ==
  {r \in Routes \ Injected : Own[r] # NoSource => snapshot[Own[r]] # Absent}

OwnedBy(c) == {PageOf[r] : r \in {s \in Routes : Own[s] = c}}

\* What a document depends on: what its render reads, and the browser build
\* token, for which the graph has no edge.
Inputs(r) == Reads[r] \cup (IF r \in Stamped THEN IslandSources ELSE {})

Render(r, snapshot) == [c \in Inputs(r) |-> snapshot[c]]

RendersOf(h, rs) == [r \in rs |-> Render(r, h.snapshot)]

Trees     == [Sources -> Values \cup {Absent}]
Documents == UNION {[Inputs(r) -> Values \cup {Absent}] : r \in Routes}
Outputs   == UNION {[rs -> Documents] : rs \in SUBSET Routes}

\* No file is not a document.
ASSUME DocumentAssumption == NoFile \notin Documents

\* The pages whose recorded reads include content file `c`.  Membership is the
\* directory walk: a deleted entry belongs to no collection.
ContentReaders(obs, c) ==
  IF src[c] = Absent THEN {}
  ELSE {p \in Pages : \/ p \in obs /\ c \in PathReads[p]
                      \/ \E r \in obs \cap Routes : PageOf[r] = p /\ c \in Reads[r]}

replace_content_edges(obs) == edges' = [c \in Content |-> ContentReaders(obs, c)]
clear_content_edges        == edges' = [c \in Content |-> {}]

dirty_pages(c) == IF c \in Content THEN edges[c]
                  ELSE {PageOf[r] : r \in {s \in Routes : c \in Reads[s]}}

\* plan_for_changes: a path without consumers is unknown to the graph, and the
\* plan falls back to every page.
PagesFor(c) == IF dirty_pages(c) = {} THEN Pages ELSE dirty_pages(c)

Fault(kind) ==
  /\ kind \in FaultKinds /\ budget.faults > 0
  /\ budget' = [budget EXCEPT !.faults = @ - 1]
-----------------------------------------------------------------------------
(* Program counters and locals *)

IdleTick ==
  [pc |-> "idle", batch |-> {}, created |-> {}, pages |-> {}, fresh |-> FALSE,
   snapshot |-> host.snapshot, previous |-> host.snapshot, vanished |-> {},
   toStale |-> {}, out |-> [r \in {} |-> NoFile], written |-> {}, retry |-> {}]

NoClaim == [output_path |-> NoPath, generation |-> NoEntry]

IdleRequest ==
  [pc |-> "idle", route |-> NoPath, claim |-> NoClaim, bytes |-> NoFile,
   token |-> 0, drained |-> {}, provenance |-> FALSE]

TickPCs == {"idle", "discover", "plan", "enter", "reload", "swapHost", "beginTrace",
            "swapTables", "render", "mark", "reconcile", "write", "finish"}
RequestPCs == {"idle", "lock", "rendering", "token", "drain", "apply", "write"}

TickLocals ==
  [pc : TickPCs, batch : SUBSET (Sources \X Kinds), created : SUBSET Sources,
   pages : SUBSET Pages, fresh : BOOLEAN, snapshot : Trees, previous : Trees,
   vanished : SUBSET Routes, toStale : SUBSET Routes, out : Outputs,
   written : SUBSET Routes, retry : SUBSET Routes]

RequestLocals ==
  [pc : RequestPCs, route : Routes \cup {NoPath}, claim : Claims \cup {NoClaim},
   bytes : Documents \cup {NoFile}, token : Nat, drained : SUBSET (Routes \cup Pages),
   provenance : BOOLEAN]

Goto(pc)       == tick' = [tick EXCEPT !.pc = pc]
GotoReq(q, pc) == req' = [req EXCEPT ![q].pc = pc]

\* The changes of the running tick's batch.
Batch == {change[1] : change \in tick.batch}

\* Only the history remembers a tick that fails: the changes of which no page
\* was marked, and the routes it had yet to remove.
Forget(changes) ==
  dropped' = [sources |-> changes, vanished |-> dropped.vanished \cup tick.vanished]

\* Mutant: an error path that leaks the exclusion lock.
AbortTickLeakingLock == tick' = IdleTick /\ exclusion' = exclusion

\* The tick's `?': its batch and its vanished routes are gone.
AbortTick ==
  /\ tick' = IdleTick
  /\ exclusion' = IF exclusion = Watcher THEN Nobody ELSE exclusion
-----------------------------------------------------------------------------
(* Initial states: boot has completed with a successful bundle *)

Init ==
  /\ src \in InitialTrees
  /\ pending = {} /\ failedPrunes = {}
  /\ dropped = [sources |-> {}, vanished |-> {}] /\ unbundled = {} /\ unwritten = {}
  /\ known = {c \in Sources : src[c] # Absent}
  /\ host = [snapshot |-> src, id |-> 0, trace |-> {}]
  /\ token = 0 /\ renderer = Nobody /\ exclusion = Nobody
  /\ table = RoutesOf(src)
  /\ observed = IF EagerBoot THEN table \cup Pages ELSE {p \in Pages : PathReads[p] # {}}
  /\ edges = [c \in Content |-> ContentReaders(observed, c)]
  /\ stale = [generation |-> 0,
              entries |-> [r \in Routes |-> IF EagerBoot \/ r \notin table THEN NoEntry ELSE 0],
              tick_stale |-> {}, dynamic_injected |-> {}]
  /\ disk = [r \in Routes |-> IF EagerBoot /\ r \in table THEN Render(r, src) ELSE NoFile]
  /\ cache = disk
  /\ tick = IdleTick
  /\ req = [q \in Requests |-> IdleRequest]
  /\ budget = [edits |-> MaxEdits, faults |-> MaxFaults]
-----------------------------------------------------------------------------
(* The developer edits a file and the watcher reports it.  An in-place edit *)
(* may be reported as Created (FSEvents coalescing).  Deleting a module that *)
(* is still imported is a bundle error, that is, one of the failed refreshes.*)

Edit(c, v) ==
  /\ budget.edits > 0 /\ budget' = [budget EXCEPT !.edits = @ - 1]
  /\ v # src[c] /\ (v = Absent => c \in Content \/ OwnedBy(c) # {})
  /\ src' = [src EXCEPT ![c] = v]
  /\ \E kind \in IF v = Absent THEN {"Removed"}
                 ELSE IF src[c] = Absent THEN {"Created"} ELSE {"Modified", "Created"} :
       pending' = pending \cup {<<c, kind>>}
  /\ UNCHANGED <<known, graphVars, hostVars, stale, exclusion, fileVars, tick, req, history>>
-----------------------------------------------------------------------------
(* The tick *)

\* One batch of the drain loop, and the part of tick_with_kinds before
\* discovery: forget removed entries, turn a spurious Created back into
\* Modified, pick what discovery must look at, and collect the former
\* consumers of removed files.
Normalized(batch, registry) ==
  {IF /\ change[2] = "Created"
      /\ \/ change[1] \in registry
         \/ change[1] \in Content /\ edges[change[1]] # {}
   THEN <<change[1], "Modified">> ELSE change : change \in batch}

FormerConsumers(removed) ==
  IF \E c \in removed \cap Content : edges[c] = {}
  THEN Pages
  ELSE UNION {dirty_pages(c) : c \in removed}

TickBegin ==
  /\ tick.pc = "idle" /\ pending # {}
  /\ LET removed  == {change[1] : change \in {x \in pending : x[2] = "Removed"}}
         registry == known \ removed
         batch    == Normalized(pending, registry)
         created  == {change[1] : change \in
                        {x \in batch : \/ x[2] = "Created" /\ OwnedBy(x[1]) # {}
                                       \/ x[2] = "Created" /\ x[1] \in Content
                                       \/ /\ x[2] = "Modified" /\ x[1] \in Modules \ registry
                                          /\ OwnedBy(x[1]) # {}}}
     IN /\ known' = registry
        /\ edges' = [c \in Content |-> IF c \in removed THEN {} ELSE edges[c]]
        /\ tick' = [tick EXCEPT !.pc = IF created = {} THEN "plan" ELSE "discover",
                                !.batch = batch, !.created = created,
                                !.pages = FormerConsumers(removed)]
  /\ pending' = {}
  /\ UNCHANGED <<src, observed, hostVars, stale, exclusion, fileVars, req, budget, history>>

\* plan_for_changes, resolved against the graph, on top of what the removals
\* and the discovery hook already selected.
TickPlan ==
  /\ tick.pc = "plan"
  /\ tick' = [tick EXCEPT !.pc = "enter",
                          !.pages = @ \cup UNION {PagesFor(change[1]) : change \in
                                              {x \in tick.batch : x[2] # "Removed"}}]
  /\ UNCHANGED <<envVars, known, graphVars, hostVars, stale, exclusion, fileVars, req,
                 budget, history>>

\* DevAssetPipeline::apply takes the exclusion lock for the rest of the tick.
TickEnter ==
  /\ tick.pc = "enter" /\ exclusion = Nobody
  /\ exclusion' = Watcher
  /\ tick' = [tick EXCEPT !.pc = IF tick.fresh THEN "render" ELSE "reload",
                          !.retry = failedPrunes]
  /\ UNCHANGED <<envVars, known, graphVars, hostVars, stale, fileVars, req, budget, history>>

-----------------------------------------------------------------------------
(* refresh_bundle_and_routes, run by the discovery hook (before `enter') or *)
(* by the tick's reloader (under the exclusion lock)                         *)

Discovering == exclusion # Watcher
AfterRefresh == IF Discovering THEN "plan" ELSE "render"

\* Every refresh that gets as far as the skip check publishes the page sources
\* of the route tables in place of the earlier ones; a successful discovery
\* re-walks the collections into the registry.
Registered(snapshot) ==
  LET present == {c \in Sources : snapshot[c] # Absent}
  IN  (present \cap Modules) \cup (known \cap Content)
        \cup (IF Discovering THEN present \cap Content ELSE {})

\* Mutant: the skip key covers only the registered files.
SkipOnKnown == \A c \in known : src[c] = host.snapshot[c]

should_skip_refresh == src = host.snapshot

\* The bundle reads the sources.  A byte-identical one is skipped.
RefreshBundle ==
  /\ tick.pc \in {"discover", "reload"}
  /\ IF should_skip_refresh
     THEN /\ known' = Registered(src)
          /\ tick' = [tick EXCEPT !.pc = AfterRefresh, !.fresh = Discovering]
          /\ unbundled' = {}
     ELSE /\ tick' = [tick EXCEPT !.pc = "swapHost", !.snapshot = src]
          /\ UNCHANGED <<known, unbundled>>
  /\ UNCHANGED <<envVars, graphVars, hostVars, stale, exclusion, fileVars, req, budget,
                 dropped, unwritten>>

\* The bundle, the candidate host or its route tables fail: the old ones keep
\* serving and the tick is over.
RefreshFails ==
  /\ tick.pc \in {"discover", "reload"}
  /\ Fault("refresh")
  /\ AbortTick
  /\ Forget(dropped.sources \cup Batch)
  /\ unbundled' = unbundled \cup Batch
  /\ UNCHANGED <<envVars, known, graphVars, hostVars, stale, fileVars, req, unwritten>>

\* The validated candidate replaces the live host; its paths() expansion is
\* already in its trace.
SwapHost ==
  /\ tick.pc = "swapHost" /\ renderer = Nobody
  /\ host' = [snapshot |-> tick.snapshot, id |-> host.id + 1,
              trace |-> {p \in Pages : PathReads[p] # {}}]
  /\ tick' = [tick EXCEPT !.pc = "beginTrace", !.previous = host.snapshot]
  /\ unbundled' = {}
  /\ UNCHANGED <<envVars, known, graphVars, token, renderer, table, stale, exclusion,
                 fileVars, req, budget, dropped, unwritten>>

BeginTrace ==
  /\ tick.pc = "beginTrace"
  /\ token' = host.id
  /\ Goto("swapTables")
  /\ UNCHANGED <<envVars, known, graphVars, host, renderer, table, stale, exclusion,
                 fileVars, req, budget, history>>

\* After the old host has shut down: route tables, stale generation, and the
\* routes every refresh re-stales.
ChangedPages(old, new) == {PageOf[r] : r \in (old \ new) \cup (new \ old)}

\* Mutant: a swap forgets the dynamic injected routes.
RestaledStaticOnly(s, live, identityChanged) ==
  mark_stale(s, IF identityChanged THEN live ELSE Seeds)

Restaled(s, live, identityChanged) ==
  restale_dynamic_injected(mark_stale(s, IF identityChanged THEN live ELSE Seeds))

SwapTables ==
  /\ tick.pc = "swapTables"
  /\ LET live     == RoutesOf(tick.snapshot)
         vanished == table \ live
         identity == \E c \in IslandSources : tick.previous[c] # tick.snapshot[c]
     IN /\ table' = live
        /\ stale' = Restaled(note_table_swap(stale, vanished), live, identity)
        /\ tick' = [tick EXCEPT !.pc = AfterRefresh, !.fresh = Discovering,
                                !.vanished = vanished,
                                !.pages = IF Discovering
                                          THEN @ \cup ChangedPages(table, live) ELSE @]
        /\ dropped' = [dropped EXCEPT !.vanished = @ \ live]
        /\ unwritten' = {r \in unwritten : ~IsStale(stale', r)}
  /\ known' = Registered(tick.snapshot)
  /\ UNCHANGED <<envVars, graphVars, host, token, renderer, exclusion, fileVars, req,
                 budget, unbundled>>
-----------------------------------------------------------------------------
(* The rest of DevAssetPipeline::apply *)

\* lazy_render_tick renders the routes of the edited entries...
EditedContent == {change[1] : change \in {x \in tick.batch : x[1] \in Content
                                                             /\ x[2] # "Removed"}}
Selected == {r \in table : PageOf[r] \in tick.pages}
Eager    == {r \in Selected : Own[r] \in EditedContent}

RenderEager(failed) ==
  /\ tick.pc = "render" /\ renderer = Nobody
  /\ failed \subseteq Eager
  /\ IF failed = {} THEN UNCHANGED budget ELSE Fault("render")
  /\ tick' = [tick EXCEPT !.pc = "mark",
                          !.out = RendersOf(host, Eager \ failed),
                          !.toStale = (Selected \ Eager) \cup failed]
  /\ host' = [host EXCEPT !.trace = @ \cup (Eager \ failed)]
  /\ UNCHANGED <<envVars, known, graphVars, token, renderer, table, stale, exclusion,
                 fileVars, req, history>>

\* ... and marks the rest of the selection stale.
MarkStale ==
  /\ tick.pc = "mark"
  /\ stale' = mark_stale(stale, tick.toStale)
  /\ tick' = [tick EXCEPT !.pc = "reconcile", !.toStale = {}]
  /\ unwritten' = unwritten \ tick.toStale
  /\ UNCHANGED <<envVars, known, graphVars, hostVars, exclusion, fileVars, req, budget,
                 dropped, unbundled>>

\* Mutant: the edges are rebuilt from the latest drain alone.
ObserveLatestOnly(drained) ==
  /\ observed' = drained
  /\ replace_content_edges(drained)
  /\ UNCHANGED budget

\* reconcile_content_provenance: what was drained joins the retained
\* observations and the Content edges are rebuilt from all of them.  Failing
\* before that loses what was drained; any failure clears the Content edges.
Observe(drained) ==
  /\ observed' = observed \cup drained
  /\ replace_content_edges(observed \cup drained)
  /\ UNCHANGED budget

ObserveFails(drained) ==
  /\ \/ Fault("provenanceEarly") /\ UNCHANGED observed
     \/ Fault("provenanceLate") /\ observed' = observed \cup drained
  /\ clear_content_edges

TickReconcile ==
  /\ tick.pc = "reconcile" /\ renderer = Nobody
  /\ Observe(host.trace) \/ ObserveFails(host.trace)
  /\ host' = [host EXCEPT !.trace = {}]
  /\ Goto("write")
  /\ UNCHANGED <<envVars, known, token, renderer, table, stale, exclusion, fileVars,
                 req, history>>

\* One rendered document of the write loop: deduplicated, written, committed to
\* the caches, and only then no longer stale.
CommitDocument(r, bytes) ==
  /\ disk' = IF cache[r] = bytes THEN disk ELSE [disk EXCEPT ![r] = bytes]
  /\ cache' = [cache EXCEPT ![r] = bytes]
  /\ failedPrunes' = failedPrunes \ {r}

TickWrite(r) ==
  /\ tick.pc = "write" /\ r \in DOMAIN tick.out
  /\ CommitDocument(r, tick.out[r])
  /\ stale' = clear_stale(stale, {r})
  /\ tick' = [tick EXCEPT !.out = [s \in DOMAIN @ \ {r} |-> @[s]],
                          !.written = @ \cup {r}]
  /\ unwritten' = unwritten \ {r}
  /\ UNCHANGED <<envVars, known, graphVars, hostVars, exclusion, req, budget, dropped,
                 unbundled>>

\* The first document that cannot be written ends the tick.  Everything else it
\* had to render is stale by now; a document still to be written is only if it
\* was stale before, and the vanished routes are forgotten with their prunes.
TickWriteFails(r) ==
  /\ tick.pc = "write" /\ r \in DOMAIN tick.out
  /\ cache[r] # tick.out[r]
  /\ Fault("tickWrite")
  /\ AbortTick
  /\ Forget(dropped.sources \ Batch)
  /\ unwritten' = unwritten \cup {s \in DOMAIN tick.out : ~IsStale(stale, s)}
  /\ UNCHANGED <<envVars, known, graphVars, hostVars, stale, fileVars, req, unbundled>>

\* Mutants: what this tick wrote is protected but not the other live routes;
\* vanished routes are left to the failed-prune queue.
ProtectedWritten         == tick.written
PrunePathsWithoutVanished == tick.retry

\* The deferred prune: vanished routes and what an earlier tick could not
\* remove, unless something live owns the path.  (A page is keyed by its output
\* path here, so no page ever moves from one output path to another.)
Protected  == tick.written \cup table

PrunePaths == tick.vanished \cup tick.retry

\* Mutant: only the last output path is evicted.
EvictNothing(gone) == cache

evict_path(gone) == [r \in Routes |-> IF r \in gone THEN NoFile ELSE cache[r]]

TickPrune(undeletable) ==
  /\ tick.pc = "write" /\ DOMAIN tick.out = {}
  /\ LET gone == PrunePaths \ Protected IN
       /\ undeletable \subseteq {r \in gone : disk[r] # NoFile}
       /\ disk' = [r \in Routes |-> IF r \in gone \ undeletable THEN NoFile ELSE disk[r]]
       /\ cache' = evict_path(gone)
       /\ failedPrunes' = (failedPrunes \ PrunePaths) \cup undeletable
  /\ IF undeletable = {} THEN UNCHANGED budget ELSE Fault("prune")
  /\ Goto("finish")
  /\ UNCHANGED <<envVars, known, graphVars, hostVars, stale, exclusion, req, history>>

\* The outcome takes what became stale and the lock is released.
TickFinish ==
  /\ tick.pc = "finish"
  /\ stale' = take_tick_stale(stale)
  /\ exclusion' = Nobody
  /\ dropped' = [dropped EXCEPT !.sources = @ \ Batch]
  /\ tick' = IdleTick
  /\ UNCHANGED <<envVars, known, graphVars, hostVars, fileVars, req, budget, unbundled, unwritten>>

Tick ==
  \/ TickBegin \/ RefreshBundle \/ RefreshFails \/ SwapHost \/ BeginTrace \/ SwapTables
  \/ TickPlan \/ TickEnter \/ MarkStale \/ TickReconcile \/ TickFinish
  \/ \E failed \in SUBSET Routes : RenderEager(failed)
  \/ \E r \in Routes : TickWrite(r) \/ TickWriteFails(r)
  \/ \E undeletable \in SUBSET Routes : TickPrune(undeletable)
-----------------------------------------------------------------------------
(* A request: LazyRenderAdapter::render_stale_route *)

\* Route lookup and the staleness pre-check.  A dynamic injected route is
\* recorded on every match and, while it has no document, stale by construction.
RequestRoute(q, r) ==
  /\ req[q].pc = "idle"
  /\ \/ r \in table /\ IsStale(stale, r) /\ UNCHANGED stale
     \/ r \in Injected /\ LET noted == note_dynamic_injected(stale, r) IN
          stale' = IF disk[r] = NoFile THEN claim_or_mark_stale(noted, r) ELSE noted
  /\ req' = [req EXCEPT ![q].pc = IF IsStale(stale', r) THEN "lock" ELSE "idle",
                        ![q].route = IF IsStale(stale', r) THEN r ELSE NoPath]
  /\ UNCHANGED <<envVars, known, graphVars, hostVars, exclusion, fileVars, tick, budget, history>>

\* render_claimed_entry: the authoritative claim is captured under the renderer
\* mutex; without one the request lost a race and renders nothing.
RequestClaim(q) ==
  /\ req[q].pc = "lock" /\ renderer = Nobody
  /\ IF IsStale(stale, req[q].route)
     THEN /\ renderer' = q
          /\ req' = [req EXCEPT ![q].pc = "rendering",
                                ![q].claim = claim(stale, req[q].route)]
     ELSE UNCHANGED renderer /\ GotoReq(q, "token")
  /\ UNCHANGED <<envVars, known, graphVars, host, token, table, stale, exclusion, fileVars,
                 tick, budget, history>>

\* The route still resolves in the live host and renders, or it does not.
Resolves(r) == r \in Injected \cup RoutesOf(host.snapshot)

RequestRenders(q) ==
  /\ req[q].pc = "rendering" /\ Resolves(req[q].route)
  /\ req' = [req EXCEPT ![q].pc = "token", ![q].bytes = Render(req[q].route, host.snapshot)]
  /\ host' = [host EXCEPT !.trace = @ \cup {req[q].route}]
  /\ renderer' = Nobody
  /\ UNCHANGED <<envVars, known, graphVars, token, table, stale, exclusion, fileVars,
                 tick, budget, history>>

\* Mutant: an error return that keeps the renderer mutex.
RequestRenderFailsLocked(q) ==
  /\ req[q].pc = "rendering"
  /\ IF Resolves(req[q].route) THEN Fault("render") ELSE UNCHANGED budget
  /\ GotoReq(q, "token")
  /\ UNCHANGED <<envVars, known, graphVars, hostVars, stale, exclusion, fileVars, tick, history>>

RequestRenderFails(q) ==
  /\ req[q].pc = "rendering"
  /\ IF Resolves(req[q].route) THEN Fault("render") ELSE UNCHANGED budget
  /\ GotoReq(q, "token")
  /\ renderer' = Nobody
  /\ UNCHANGED <<envVars, known, graphVars, host, token, table, stale, exclusion, fileVars,
                 tick, history>>

\* reconcile_content_provenance, now racing a host swap: read the token, drain
\* the live host with it, re-check it before applying what was drained.
RequestToken(q) ==
  /\ req[q].pc = "token"
  /\ req' = [req EXCEPT ![q].pc = "drain", ![q].token = token]
  /\ UNCHANGED <<envVars, known, graphVars, hostVars, stale, exclusion, fileVars, tick,
                 budget, history>>

AfterReconcile(q, ok) ==
  req' = [req EXCEPT ![q] =
            IF @.bytes = NoFile THEN IdleRequest
            ELSE [@ EXCEPT !.pc = "write", !.token = 0, !.drained = {}, !.provenance = ok]]

RequestDrain(q) ==
  /\ req[q].pc = "drain" /\ renderer = Nobody
  /\ IF req[q].token = host.id
     THEN /\ req' = [req EXCEPT ![q].pc = "apply", ![q].drained = host.trace]
          /\ host' = [host EXCEPT !.trace = {}]
          /\ UNCHANGED edges
     ELSE /\ AfterReconcile(q, FALSE)
          /\ IF req[q].token = token THEN clear_content_edges ELSE UNCHANGED edges
          /\ UNCHANGED host
  /\ UNCHANGED <<envVars, known, observed, token, renderer, table, stale, exclusion, fileVars,
                 tick, budget, history>>

RequestApply(q) ==
  /\ req[q].pc = "apply"
  /\ \/ /\ req[q].token # token
        /\ AfterReconcile(q, TRUE) /\ UNCHANGED <<graphVars, budget>>
     \/ /\ req[q].token = token
        /\ Observe(req[q].drained) /\ AfterReconcile(q, TRUE)
     \/ /\ req[q].token = token
        /\ ObserveFails(req[q].drained) /\ AfterReconcile(q, FALSE)
  /\ UNCHANGED <<envVars, known, hostVars, stale, exclusion, fileVars, tick, history>>

\* The validation closure of the guarded write.  Mutant: none.
NoValidation(q) == TRUE

StillCurrent(q) == claim_is_current(stale, req[q].claim)

\* request_write_guarded_then: under the exclusion lock, write only if the claim
\* is still current, and clear it only if the provenance is.
RequestWrite(q) ==
  /\ req[q].pc = "write" /\ exclusion = Nobody
  /\ IF StillCurrent(q)
     THEN /\ CommitDocument(req[q].route, req[q].bytes)
          /\ stale' = IF req[q].provenance THEN clear_if_current(stale, req[q].claim) ELSE stale
     ELSE UNCHANGED <<disk, cache, failedPrunes, stale>>
  /\ req' = [req EXCEPT ![q] = IdleRequest]
  /\ UNCHANGED <<envVars, known, graphVars, hostVars, exclusion, tick, budget, history>>

RequestWriteFails(q) ==
  /\ req[q].pc = "write" /\ exclusion = Nobody
  /\ StillCurrent(q) /\ cache[req[q].route] # req[q].bytes
  /\ Fault("requestWrite")
  /\ req' = [req EXCEPT ![q] = IdleRequest]
  /\ UNCHANGED <<envVars, known, graphVars, hostVars, stale, exclusion, fileVars, tick, history>>

RequestStep(q) ==
  \/ RequestClaim(q) \/ RequestRenders(q) \/ RequestRenderFails(q) \/ RequestToken(q) \/ RequestDrain(q)
  \/ RequestApply(q) \/ RequestWrite(q) \/ RequestWriteFails(q)
-----------------------------------------------------------------------------
Next ==
  \/ \E c \in Sources, v \in Values \cup {Absent} : Edit(c, v)
  \/ Tick
  \/ \E q \in Requests : RequestStep(q) \/ \E r \in Routes : RequestRoute(q, r)

\* The watcher loop and every running request thread keep going; nobody has to
\* edit a file or to ask for a page.
Fairness == WF_vars(Tick) /\ \A q \in Requests : WF_vars(RequestStep(q))

Spec == Init /\ [][Next]_vars /\ Fairness
-----------------------------------------------------------------------------
(* Properties *)

TypeOK ==
  /\ src \in Trees /\ pending \subseteq Sources \X Kinds /\ known \subseteq Sources
  /\ observed \subseteq Routes \cup Pages /\ edges \in [Content -> SUBSET Pages]
  /\ host \in [snapshot : Trees, id : Nat, trace : SUBSET (Routes \cup Pages)]
  /\ token \in Nat /\ renderer \in Requests \cup {Nobody}
  /\ table \subseteq Routes \ Injected /\ stale \in StaleRoutes
  /\ exclusion \in {Watcher, Nobody}
  /\ disk \in [Routes -> Documents \cup {NoFile}] /\ cache \in [Routes -> Documents \cup {NoFile}]
  /\ failedPrunes \subseteq Routes
  /\ tick \in TickLocals /\ req \in [Requests -> RequestLocals]
  /\ budget \in [edits : Nat, faults : Nat]
  /\ dropped \in [sources : SUBSET Sources, vanished : SUBSET Routes]
  /\ unbundled \subseteq Sources /\ unwritten \subseteq Routes

\* Between ticks, a servable route that is not stale has on disk exactly what
\* the live host would render for it (the stale map's contract), except for
\* changes no tick has taken yet, changes whose own tick failed before its
\* bundle, and a document whose own write failed when it was not stale.
Unsettled == dropped.sources \cup {change[1] : change \in pending}

FreshMeansCurrent ==
  tick.pc = "idle" =>
    \A r \in (table \cup Injected) \ unwritten :
      ~IsStale(stale, r) /\ Own[r] \notin Unsettled /\ (r \in table \/ disk[r] # NoFile) =>
        \A c \in Inputs(r) \ Unsettled : disk[r] # NoFile /\ disk[r][c] = host.snapshot[c]

\* A change to any content a fresh document was rendered from makes the planner
\* select that document's page: by a recorded edge, or because the graph knows
\* no reader at all and falls back to every page.
PlannerReachesReaders ==
  \A r \in table : ~IsStale(stale, r) =>
    \A c \in Reads[r] \cap Content : PageOf[r] \in PagesFor(c)

\* A request whose claim passes the revalidation under the exclusion lock holds
\* bytes of the live host, unless discovery is between its host swap and its
\* table swap.
Revalidated(q) == /\ req[q].pc = "write" /\ exclusion = Nobody
                  /\ claim_is_current(stale, req[q].claim)

HoldsLiveBytes(q) == req[q].bytes = Render(req[q].route, host.snapshot)
SwappingInDiscovery == Discovering /\ tick.pc \in {"beginTrace", "swapTables"}

GuardedWriteIsLive ==
  \A q \in Requests : Revalidated(q) /\ ~SwappingInDiscovery => HoldsLiveBytes(q)

\* The dedup cache never suppresses a write the disk needs.
DedupMatchesDisk == \A r \in Routes : cache[r] # NoFile => disk[r] = cache[r]

\* Between ticks no vanished route has a document left, other than those queued
\* for another removal attempt and those whose removal was part of a tick that
\* failed, as long as the route is gone.
NoOrphan ==
  tick.pc = "idle" =>
    \A r \in Routes \ Injected :
      disk[r] # NoFile => r \in table \cup failedPrunes \cup dropped.vanished

\* No prune removes the document of a route that is in the live table.
NeverPrunesLive ==
  [][\A r \in table : disk[r] # NoFile => disk'[r] # NoFile]_vars

\* Every route a tick announces as stale resolves in the live route table.
AnnouncedRoutesResolve == tick.pc = "finish" => stale.tick_stale \subseteq table

\* Every tick ends, and every request that started to render is answered.
EveryTickEnds     == tick.pc # "idle" ~> tick.pc = "idle"
EveryRequestEnds  == \A q \in Requests : req[q].pc # "idle" ~> req[q].pc = "idle"

\* Once the developer stops typing the live host serves the source tree: also the
\* changes of a tick that failed, once a later tick for whatever change has
\* bundled, since a bundle reads everything.
EditsReachHost == <>[](\A c \in Sources \ unbundled : host.snapshot[c] = src[c])
=============================================================================
