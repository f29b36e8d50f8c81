----------------------------- MODULE Publication -----------------------------
(***************************************************************************)
(* How `zfb dev' publishes: the tick thread builds entries, refreshes the  *)
(* renderer and writes documents inside one transaction; the discovery     *)
(* hook, on the same thread, opens a transaction of its own before the     *)
(* exclusion lock; requests repair stale documents; and one publication    *)
(* hook turns their events into a state of the server, obligations and     *)
(* companion ledgers.                                                      *)
(*                                                                         *)
(*  exclusion      one apply of the tick, or one request's write and the   *)
(*                 hook call that follows it                               *)
(*  publock        the write lock of the server's state; the hook holds it *)
(*                 for the state's part of an event and releases it before *)
(*                 it touches a ledger                                     *)
(*                                                                         *)
(* An islands build is a token with a set of companion files; a client     *)
(* build is the set of its outputs.  A document's body is told apart by    *)
(* whether it has island markers.                                          *)
(***************************************************************************)
EXTENDS Sequences, PublicationState, Obligations

CONSTANTS Files,            \* companion files of islands builds
          Builds,           \* resolved identities of islands builds
          Names,            \* Names[b]: the companion files of build b
          IslandsUrl,       \* the URL of the stable islands entry
          Sites,            \* what the project may declare, see SiteType
          RetainedIslands, RetainedScripts,  \* constants of the ledgers
          Batches,          \* what a batch of the watcher may ask for, see BatchType
          MaxTicks,         \* bound: batches of the watcher
          MaxFailures,      \* bound: operations that fail
          OverlappingAbort  \* may discovery drop the candidates of a request's commit

SiteType == [islands : Builds \cup {None}, scripts : SUBSET ScriptFiles]

Plans ==
  [islands : BOOLEAN, scripts : BOOLEAN, pages : BOOLEAN, ssr : BOOLEAN, discover : BOOLEAN,
   fresh : BOOLEAN, eager : SUBSET Docs, gone : SUBSET Docs, boot : BOOLEAN]

BatchType ==
  {p \in Plans : /\ ~p.fresh /\ ~p.boot
                 /\ p.islands => p.pages
                 /\ p.pages => ~p.ssr
                 /\ p.eager # {} => p.pages
                 /\ p.gone # {} => p.pages \/ p.ssr \/ p.discover}

ASSUME PublicationAssumption ==
  /\ Names \in [Builds -> SUBSET Files] /\ Sites \subseteq SiteType
  /\ ScriptFiles \subseteq Urls /\ IslandsUrl \in Urls
  /\ Batches \subseteq BatchType
  /\ {RetainedIslands, RetainedScripts, MaxTicks, MaxFailures} \subseteq Nat
  /\ OverlappingAbort \in BOOLEAN

Islands == INSTANCE CompanionLedger WITH Tokens <- Builds, Nothing <- None
Scripts == INSTANCE CompanionLedger WITH Files <- ScriptFiles, Tokens <- Builds, Nothing <- None

(* RETAINED_ISLANDS_GENERATIONS is not zero. *)
ASSUME RetentionAssumption == RetainedIslands > 0
ASSUME NoneAssumption ==
  /\ None \notin AssetSlots \cup Scripts!Generations
  /\ \A names \in SUBSET Files : names # None

VARIABLES
  pub,        \* the server's publication state
  obl,        \* DocumentObligations
  gate,       \* DiscoveryPublicationState
  islands,    \* ledger of the islands companions
  scripts,    \* ledger of the client scripts
  disk,       \* companion files, the build of the islands entry, client scripts;
              \* phase is history: what became of that build's generation
  body,       \* the document on disk: absent, plain, or with island markers
  stale,      \* documents a request renders before it serves them
  host,       \* do the pages of the live host have island markers
  live,       \* documents of the route tables
  queue,      \* removals that failed and are tried again
  lost,       \* history: old documents that nothing marks stale
  site,       \* what the project declares now
  pc,         \* of the tick thread
  plan,       \* of the current batch
  txn,        \* DocumentPublicationTransaction of the current apply
  todo,       \* rendered documents that are not written yet
  req,        \* the request finalizer that holds the exclusion lock
  hook,       \* per thread: what is left of a hook call after the state's part
  exclusion,  \* holder of the exclusion lock
  publock,    \* holder of the state's write lock across steps
  used        \* counters of the bounds

vars == <<pub, obl, gate, islands, scripts, disk, body, stale, host, live, queue, lost, site,
          pc, plan, txn, todo, req, hook, exclusion, publock, used>>
server    == <<pub, obl, gate>>
ledgers   == <<islands, scripts>>
documents == <<body, stale, host, live, queue, lost>>
control   == <<plan, txn, todo>>
locks     == <<exclusion, publock>>

Threads  == {"tick", "request"}
Bodies   == {"absent", "plain", "islands"}
Disks    == [files : SUBSET Files, entry : Builds \cup {None}, scripts : SUBSET ScriptFiles,
             phase : {"staged", "live", "orphan"}]
Aborts   == "AbortBeforeDocumentWrite"
Fallbacks == {"none", Aborts, "LeaveEntriesPending", "LeavePending"}
Transactions ==
  [fallback : Fallbacks, relevant : BOOLEAN, completed : BOOLEAN, refreshed : BOOLEAN,
   owned : BOOLEAN, boundary : BOOLEAN, lazy : BOOLEAN, began : BOOLEAN, dropped : BOOLEAN]

NoPlan == [islands |-> FALSE, scripts |-> FALSE, pages |-> FALSE, ssr |-> FALSE, discover |-> FALSE,
           fresh |-> FALSE, eager |-> {}, gone |-> {}, boot |-> FALSE]
NoTxn  == [fallback |-> "none", relevant |-> FALSE, completed |-> FALSE, refreshed |-> FALSE,
           owned |-> FALSE, boundary |-> FALSE, lazy |-> FALSE, began |-> FALSE, dropped |-> FALSE]
Returned == [pc |-> "none", preserve |-> FALSE]

Markers(s) == IF s.islands = None THEN "plain" ELSE "islands"
Fails == used.failures < MaxFailures /\ used' = [used EXCEPT !.failures = @ + 1]
HookDone(t) == hook[t].pc = "none"
Bodied == {d \in Docs : body[d] # "absent"}

(* For the history of lost documents only: the newest declaration of the   *)
(* islands, and whether it leaves the pages of the live host without an    *)
(* entry, because their build failed, or the refresh that was to drop      *)
(* their markers did.                                                      *)
Declared(p) ==
  LET slot == IF p.staged_islands = None THEN p.islands ELSE p.staged_islands
  IN  slot.kind = "Published"
Undeclared == host = "islands" /\ ~Declared(pub)

(* Bodies of documents that vanished and that nobody will remove.          *)
Forgotten == (plan.gone \cap Bodied) \ (live \cup obl.failed)
-----------------------------------------------------------------------------
Init ==
  /\ pub = pending /\ obl = NoObligations /\ gate = NoGate
  /\ islands = Islands!NewIslandsLedger /\ scripts = Scripts!NewScriptLedger
  /\ disk = [files |-> {}, entry |-> None, scripts |-> {}, phase |-> "live"]
  /\ body = [d \in Docs |-> "absent"] /\ live \in {Docs, {}} /\ stale = live /\ queue = {} /\ lost = {}
  /\ site \in Sites /\ host = Markers(site)
  /\ pc = "scripts" /\ plan = [NoPlan EXCEPT !.boot = TRUE, !.islands = TRUE] /\ txn = NoTxn /\ todo = {}
  /\ req = "idle" /\ hook = [t \in Threads |-> Returned]
  /\ exclusion = "free" /\ publock = "free"
  /\ used = [ticks |-> 0, failures |-> 0]
-----------------------------------------------------------------------------
(* The publication hook: the state's part of an event *)

Documents(event, preserve) ==
  CASE event = "CommitPublished"   -> IF preserve THEN "ReadyOnRequest" ELSE "Published"
    [] event = "CommitNotExpected" -> "NotExpected"
    [] OTHER                       -> "ReadyOnRequest"

LeftPending(p, o, event) ==
  CASE has_document_failures(o) -> leave_document_update_pending(p)
    [] ~has_document_failures(o) /\ event \in Commits \ {"CommitEntriesOnly"} ->
         leave_entry_update_pending_after_document_boundary(p, Documents(event, retain_lazy_dependencies(o)))
    [] OTHER -> leave_entry_update_pending(p)

Committed(p, o, event) ==
  CASE event \in LazyRepairs         -> commit_lazy_repair(p)
    [] event = "CommitEntriesOnly"   -> commit_entry_update(p, Preserves(o, event))
    [] OTHER -> commit_document_update(resolve_document_uncertainty(p),
                  Documents(event, Preserves(o, event)), Preserves(o, event))

(* Does a commit event commit: no failure is outstanding, and an entries- *)
(* only commit meets no uncertain document write.                         *)
Succeeds(p, o, event) ==
  event \in Commits /\ ~has_eager_failures(o) /\ (event = "CommitEntriesOnly" => ~p.uncertain)

(* Mutant: only failed documents keep a commit from committing. *)
SettledDespiteEntries(p, o, event) ==
  CASE event \in Commits \cup {Aborts} /\ has_document_failures(o) -> LeftPending(p, o, event)
    [] event \in Commits /\ ~has_document_failures(o) -> Committed(p, o, event)
    [] event = Aborts /\ ~has_document_failures(o) -> abort_document_update_before_write(p)
    [] event = "LeaveEntriesPending"             -> leave_entry_update_pending(p)
    [] event = "LeavePending"                    -> leave_document_update_pending(p)

Settled(p, o, event) ==
  CASE event \in Commits \cup {Aborts} /\ has_eager_failures(o) -> LeftPending(p, o, event)
    [] event \in Commits /\ ~has_eager_failures(o) -> Committed(p, o, event)
    [] event = Aborts /\ ~has_eager_failures(o) -> abort_document_update_before_write(p)
    [] event = "LeaveEntriesPending"            -> leave_entry_update_pending(p)
    [] event = "LeavePending"                   -> leave_document_update_pending(p)

Obliged(o, event) ==
  IF event \in Commits /\ ~has_eager_failures(o) THEN AtCommit(o, event) ELSE o

AfterState(p, o, event) ==
  CASE Succeeds(p, o, event) -> [pc |-> "scripts", preserve |-> Preserves(o, event)]
    [] event = Aborts /\ ~has_eager_failures(o)
         /\ abort_document_update_before_write(p).documents # "Pending" ->
         [pc |-> "abort", preserve |-> FALSE]
    [] OTHER -> Returned

Emit(t, event, p, o) ==
  /\ publock \in {"free", t}
  /\ pub' = Settled(p, o, event) /\ obl' = Obliged(o, event)
  /\ hook' = [hook EXCEPT ![t] = AfterState(p, o, event)]

(* CommitLazyRepair, once it is known not to be deferred: a discovery that *)
(* raised its gate meanwhile inherits a transaction that is open again.    *)
PublishRepair(t) ==
  LET next == Settled(pub, obl, "CommitLazyRepair")
      done == Succeeds(pub, obl, "CommitLazyRepair")
  IN  /\ publock \in {"free", t}
      /\ pub' = IF done /\ gate.active THEN begin_document_update(next) ELSE next
      /\ gate' = IF done THEN finish_request_repair(gate) ELSE gate
      /\ obl' = Obliged(obl, "CommitLazyRepair")
      /\ hook' = [hook EXCEPT ![t] = AfterState(pub, obl, "CommitLazyRepair")]

(* The ledgers' part, after the state's lock is released *)

CommitScripts(t) ==
  /\ hook[t].pc = "scripts"
  /\ scripts' = Scripts!commit_scripts(scripts)
  /\ disk' = [disk EXCEPT !.scripts = @ \ Scripts!PrunedScripts(scripts)]
  /\ hook' = [hook EXCEPT ![t].pc = "islands"]
  /\ UNCHANGED <<server, islands, documents, site, pc, control, req, locks, used>>

(* The generation of the entry on disk was published; or it never was, no  *)
(* islands are left, and nothing is preserved for old bodies.              *)
PhaseAfter(preserve) ==
  CASE pub.islands.kind = "Published" -> "live"
    [] pub.islands.kind # "Published" /\ ~preserve /\ disk.phase = "staged" -> "orphan"
    [] OTHER -> disk.phase

CommitIslands(t) ==
  /\ hook[t].pc = "islands"
  /\ islands' = Islands!commit_islands(islands, hook[t].preserve)
  /\ disk' = [disk EXCEPT !.files = @ \ Islands!PrunedIslands(islands, hook[t].preserve),
                          !.phase = PhaseAfter(hook[t].preserve)]
  /\ hook' = [hook EXCEPT ![t] = Returned]
  /\ UNCHANGED <<server, scripts, documents, site, pc, control, req, locks, used>>

AbortLedgers ==
  /\ hook["tick"].pc = "abort"
  /\ OverlappingAbort \/ HookDone("request")
  /\ islands' = Islands!abort_islands(islands)
  /\ scripts' = Scripts!abort_scripts(scripts)
  /\ disk' = [disk EXCEPT !.files = @ \ Islands!AbortedIslands(islands),
                          !.scripts = @ \ Scripts!AbortedScripts(scripts)]
  /\ hook' = [hook EXCEPT !["tick"] = Returned]
  /\ UNCHANGED <<server, documents, site, pc, control, req, locks, used>>
-----------------------------------------------------------------------------
(* The tick thread: a batch, and discovery *)

AfterReload  == IF plan.pages THEN "render" ELSE "prune"
AfterIslands == CASE plan.boot -> "boot"
                  [] ~plan.boot /\ (plan.pages \/ plan.ssr) /\ ~plan.fresh -> "reload"
                  [] OTHER -> AfterReload
AfterScripts == IF plan.islands THEN "islands" ELSE AfterIslands
AfterEnter   == IF plan.scripts THEN "scripts" ELSE AfterScripts

StartTick(s, p) ==
  /\ pc = "idle" /\ used.ticks < MaxTicks
  /\ s.islands # site.islands => p.islands
  /\ s.scripts # site.scripts => p.scripts
  /\ used' = [used EXCEPT !.ticks = @ + 1]
  /\ site' = s /\ plan' = p /\ txn' = NoTxn
  /\ pc' = IF p.discover THEN "raise" ELSE "enter"
  /\ UNCHANGED <<server, ledgers, disk, documents, todo, req, hook, locks>>

RaiseGate ==
  /\ pc = "raise"
  /\ gate' = begin_discovery(gate)
  /\ txn' = [txn EXCEPT !.began = ~gate.pending]
  /\ pc' = IF gate.pending THEN "discover" ELSE "begin"
  /\ UNCHANGED <<pub, obl, ledgers, disk, documents, site, plan, todo, req, hook, locks, used>>

DiscoveryBeginsLedgers ==
  /\ pc = "begin"
  /\ islands' = Islands!begin(islands) /\ scripts' = Scripts!begin(scripts)
  /\ pc' = "open"
  /\ UNCHANGED <<server, disk, documents, site, control, req, hook, locks, used>>

DiscoveryBeginsState ==
  /\ pc = "open" /\ publock = "free"
  /\ pub' = begin_document_update(pub)
  /\ pc' = "discover"
  /\ UNCHANGED <<obl, gate, ledgers, disk, documents, site, control, req, hook, locks, used>>

(* A refresh of the renderer: the live host and the route tables move; or  *)
(* it is skipped, when the project's bundle is the one of the live host.   *)
Refresh(moved) ==
  /\ moved \/ (host = Markers(site) /\ live = Docs \ plan.gone)
  /\ host' = Markers(site) /\ live' = Docs \ plan.gone
  /\ stale' = stale \cap live'

Discover(moved) ==
  /\ pc = "discover" /\ Refresh(moved)
  /\ gate' = IF moved THEN note_boundary(gate) ELSE gate
  /\ plan' = [plan EXCEPT !.fresh = TRUE, !.gone = live \ live']
  /\ pc' = "enter"
  /\ UNCHANGED <<pub, obl, ledgers, disk, body, queue, lost, site, txn, todo, req, hook, locks, used>>

DiscoverFails ==
  /\ pc = "discover" /\ Fails
  /\ pc' = IF txn.began THEN "abort" ELSE "release"
  /\ UNCHANGED <<server, ledgers, disk, documents, site, control, req, hook, locks>>

DiscoveryAborts ==
  /\ pc = "abort"
  /\ Emit("tick", Aborts, pub, obl)
  /\ pc' = "aborted"
  /\ UNCHANGED <<gate, ledgers, disk, documents, site, control, req, locks, used>>

ReleaseGate ==
  /\ pc \in {"aborted", "release"} /\ HookDone("tick")
  /\ gate' = IF txn.began THEN abort_discovery(gate) ELSE terminal_attempted(gate)
  /\ pc' = "replay"
  /\ UNCHANGED <<pub, obl, ledgers, disk, documents, site, control, req, hook, locks, used>>

TakeRepair ==
  /\ pc = "replay"
  /\ gate' = take_lazy_repair(gate)
  /\ pc' = IF gate.lazy THEN "replay_commit" ELSE "close"
  /\ UNCHANGED <<pub, obl, ledgers, disk, documents, site, control, req, hook, locks, used>>

ReplayRepair ==
  /\ pc = "replay_commit"
  /\ PublishRepair("tick")
  /\ pc' = "close"
  /\ UNCHANGED <<ledgers, disk, documents, site, control, req, locks, used>>
-----------------------------------------------------------------------------
(* The tick thread: apply, under the exclusion lock *)

Enter ==
  LET relevant == plan.pages \/ plan.islands \/ plan.scripts \/ plan.ssr \/ plan.fresh
                    \/ plan.gone # {} \/ queue # {} \/ gate.pending
      begins   == relevant /\ ~gate.pending
  IN  /\ pc = "enter" /\ exclusion = "free" /\ publock = "free"
      /\ exclusion' = "tick"
      /\ txn' = [NoTxn EXCEPT
                   !.relevant = relevant, !.owned = gate.pending,
                   !.boundary = gate.boundary, !.lazy = gate.lazy,
                   !.fallback = CASE ~relevant -> "none"
                                  [] relevant /\ (gate.boundary \/ gate.lazy) -> "LeavePending"
                                  [] OTHER -> Aborts]
      /\ islands' = IF begins THEN Islands!begin(islands) ELSE islands
      /\ scripts' = IF begins THEN Scripts!begin(scripts) ELSE scripts
      /\ pub' = IF begins THEN begin_document_update(pub) ELSE pub
      /\ pc' = AfterEnter
      /\ UNCHANGED <<obl, gate, disk, documents, site, plan, todo, req, hook, publock, used>>

(* Mutant: a transaction does not learn that entry bytes have moved. *)
EntryUnnoticed == txn' = txn

EntryCompleted ==
  txn' = [txn EXCEPT !.fallback = IF @ = Aborts THEN "LeaveEntriesPending" ELSE @]
MutationStarted(t) ==
  [t EXCEPT !.fallback = IF @ \in {Aborts, "LeaveEntriesPending"} THEN "LeavePending" ELSE @]

(* At boot the builds run outside a transaction, and a failure is a warning. *)
EntrySucceeded(o, kind) == IF plan.boot THEN o ELSE record_entry_success(o, kind)
EntryFailed(o, kind)    == IF plan.boot THEN o ELSE record_entry_failure(o, kind)

(* The whole generation is on disk; outputs nobody protects are gone. *)
BuildScripts(bytes_changed) ==
  LET outputs == site.scripts
      kept    == (disk.scripts \cup outputs) \cap (Scripts!protected_filenames(scripts) \cup outputs)
      changed == kept # disk.scripts \/ (bytes_changed /\ outputs # {})
  IN  /\ pc = "scripts"
      /\ disk' = [disk EXCEPT !.scripts = kept]
      /\ obl' = EntrySucceeded(record_scripts_published(obl, outputs), "ClientScripts")
      /\ scripts' = Scripts!stage_generation(Scripts!track_candidate(scripts, outputs), outputs, changed)
      /\ pub' = stage_scripts(pub, outputs)
      /\ IF changed THEN EntryCompleted ELSE UNCHANGED txn
      /\ pc' = AfterScripts
      /\ UNCHANGED <<gate, islands, documents, site, plan, todo, req, hook, locks, used>>

(* A write fails; the outputs in unsafe cannot be rolled back either. *)
BuildScriptsFails(unsafe) ==
  /\ pc = "scripts" /\ Fails
  /\ unsafe \subseteq site.scripts
  /\ disk' = [disk EXCEPT !.scripts = @ \cup unsafe]
  /\ scripts' = Scripts!track_candidate(scripts, unsafe)
  /\ obl' = EntryFailed(record_rollback_failure(obl, unsafe), "ClientScripts")
  /\ pc' = IF plan.boot THEN AfterScripts ELSE "drop"
  /\ UNCHANGED <<pub, gate, islands, documents, site, control, req, hook, locks>>

NoIslandsLeft ==
  /\ pc = "islands" /\ site.islands = None
  /\ pub' = stage_islands(pub, {})
  /\ islands' = Islands!stage(islands, {})
  /\ obl' = EntrySucceeded(obl, "Islands")
  /\ pc' = AfterIslands
  /\ UNCHANGED <<gate, scripts, disk, documents, site, control, req, hook, locks, used>>

Reusable == disk.entry # None /\ Islands!can_reuse_build(islands, site.islands, disk.files)

ReuseIslands ==
  /\ pc = "islands" /\ site.islands # None /\ Reusable
  /\ obl' = EntrySucceeded(obl, "Islands")
  /\ pc' = AfterIslands
  /\ UNCHANGED <<pub, gate, ledgers, disk, documents, site, control, req, hook, locks, used>>

WriteCompanions ==
  /\ pc = "islands" /\ site.islands # None /\ ~Reusable
  /\ islands' = Islands!track_candidate(islands, Names[site.islands])
  /\ disk' = [disk EXCEPT !.files = @ \cup Names[site.islands]]
  /\ pc' = "entry"
  /\ UNCHANGED <<server, scripts, documents, site, control, req, hook, locks, used>>

WriteIslandsEntry ==
  /\ pc = "entry"
  /\ disk' = [disk EXCEPT !.entry = site.islands, !.phase = "staged"]
  /\ islands' = Islands!stage_build(islands, Names[site.islands], site.islands)
  /\ pub' = stage_islands(pub, {IslandsUrl})
  /\ obl' = EntrySucceeded(obl, "Islands")
  /\ EntryCompleted
  /\ pc' = AfterIslands
  /\ UNCHANGED <<gate, scripts, documents, site, plan, todo, req, hook, locks, used>>

(* The build fails before it writes, after some companions, or at the entry. *)
IslandsFail(written) ==
  /\ pc \in {"islands", "entry"} /\ Fails
  /\ written # {} => pc = "islands" /\ site.islands # None /\ ~Reusable
                       /\ written \subseteq Names[site.islands]
  /\ disk' = [disk EXCEPT !.files = @ \cup written]
  /\ islands' = Islands!invalidate_build_reuse(
                  IF written = {} THEN islands
                  ELSE Islands!track_candidate(islands, Names[site.islands]))
  /\ obl' = EntryFailed(obl, "Islands")
  /\ pc' = IF plan.boot THEN AfterIslands ELSE "drop"
  /\ UNCHANGED <<pub, gate, scripts, documents, site, control, req, hook, locks>>

Reload(moved) ==
  /\ pc = "reload" /\ Refresh(moved)
  /\ plan' = [plan EXCEPT !.gone = live \ live']
  /\ txn' = [txn EXCEPT !.refreshed = moved]
  /\ pc' = AfterReload
  /\ UNCHANGED <<server, ledgers, disk, body, queue, lost, site, todo, req, hook, locks, used>>

(* The reload fails, or the render callback as a whole. *)
RefreshOrRenderFails ==
  /\ pc \in {"reload", "render"} /\ Fails
  /\ txn' = IF pc = "render" THEN MutationStarted(txn) ELSE txn
  /\ lost' = lost \cup (Bodied \ stale)
  /\ pc' = "drop"
  /\ UNCHANGED <<server, ledgers, disk, body, stale, host, live, queue, site, plan, todo, req, hook, locks>>

(* lazy_render_tick: the eager documents are rendered, the others and those *)
(* whose render fails become stale.                                        *)
RenderPages(failing) ==
  LET eager == plan.eager \cap live
  IN  /\ pc = "render" /\ failing \subseteq eager
      /\ IF failing = {} THEN UNCHANGED used ELSE Fails
      /\ obl' = record_failure(resolve_documents(obl, eager \ failing), failing)
      /\ stale' = stale \cup (live \ eager) \cup failing
      /\ todo' = eager \ failing
      /\ lost' = lost \ ((live \ eager) \cup failing)
      /\ txn' = MutationStarted(txn)
      /\ pc' = "write"
      /\ UNCHANGED <<pub, gate, ledgers, disk, body, host, live, queue, site, plan, req, hook, locks>>

WriteDocument(d) ==
  /\ pc = "write" /\ d \in todo
  /\ body' = [body EXCEPT ![d] = host]
  /\ stale' = stale \ {d} /\ queue' = queue \ {d}
  /\ lost' = IF Undeclared THEN lost \cup {d} ELSE lost \ {d}
  /\ obl' = resolve_documents(obl, {d})
  /\ todo' = todo \ {d}
  /\ txn' = [txn EXCEPT !.completed = TRUE]
  /\ UNCHANGED <<pub, gate, ledgers, disk, host, live, site, pc, plan, req, hook, locks, used>>

WriteDocumentFails(d) ==
  /\ pc = "write" /\ d \in todo /\ Fails
  /\ obl' = start_document_write(obl, {d})
  /\ todo' = {}
  /\ lost' = lost \cup ((todo \ {d}) \cap (Bodied \ stale))
  /\ pc' = "drop"
  /\ UNCHANGED <<pub, gate, ledgers, disk, body, stale, host, live, queue, site, plan, txn, req, hook, locks>>

AllWritten ==
  /\ pc = "write" /\ todo = {}
  /\ pc' = "prune"
  /\ UNCHANGED <<server, ledgers, disk, documents, site, control, req, hook, locks, used>>

(* Vanished documents and removals that failed earlier.  A document that is *)
(* live again is kept and leaves the queue.                                *)
Prune(failing) ==
  LET kept   == queue \cap live
      doomed == (plan.gone \cup queue) \ live
  IN  /\ pc = "prune" /\ failing \subseteq doomed
      /\ IF failing = {} THEN UNCHANGED used ELSE Fails
      /\ body' = [d \in Docs |-> IF d \in doomed \ failing THEN "absent" ELSE body[d]]
      /\ queue' = (queue \ (kept \cup doomed)) \cup failing
      /\ lost' = lost \cup (kept \ stale)
      /\ obl' = start_document_write(resolve_documents(obl, kept \cup (doomed \ failing)), failing)
      /\ txn' = [txn EXCEPT !.completed = @ \/ kept # {} \/ doomed \ failing # {}]
      /\ pc' = "commit"
      /\ UNCHANGED <<pub, gate, ledgers, disk, stale, host, live, site, plan, todo, req, hook, locks>>

BoundaryEvent ==
  CASE txn.lazy                -> "CommitDiscoveryLazyRepair"
    [] ~txn.lazy /\ plan.pages -> "CommitPublished"
    [] ~txn.lazy /\ ~plan.pages /\ (txn.refreshed \/ txn.boundary \/ txn.completed) -> "CommitReadyOnRequest"
    [] OTHER                   -> "CommitEntriesOnly"

ExistingStale == stale \cap Bodied

Commit ==
  /\ pc = "commit"
  /\ IF txn.relevant
     THEN Emit("tick", BoundaryEvent, pub, record_lazy_outputs(obl, ExistingStale))
     ELSE UNCHANGED <<pub, obl, hook>>
  /\ txn' = [txn EXCEPT !.fallback = "none"]
  /\ pc' = "close"
  /\ UNCHANGED <<gate, ledgers, disk, documents, site, plan, todo, req, locks, used>>

Drop ==
  /\ pc = "drop"
  /\ Emit("tick", txn.fallback, pub, obl)
  /\ txn' = [txn EXCEPT !.fallback = "none", !.dropped = TRUE]
  /\ lost' = lost \cup Forgotten
  /\ pc' = "close"
  /\ UNCHANGED <<gate, ledgers, disk, body, stale, host, live, queue, site, plan, todo, req, locks, used>>

(* The end of apply, of a failed discovery, and of the boot. *)
Close ==
  /\ pc = "close" /\ HookDone("tick")
  /\ gate' = CASE ~txn.owned -> gate
               [] txn.owned /\ (txn.dropped \/ has_eager_failures(obl)) -> terminal_attempted(gate)
               [] OTHER -> NoGate
  /\ exclusion' = IF exclusion = "tick" THEN "free" ELSE exclusion
  /\ plan' = NoPlan /\ txn' = [NoTxn EXCEPT !.dropped = txn.dropped]
  /\ pc' = "idle"
  /\ UNCHANGED <<pub, obl, ledgers, disk, documents, site, todo, req, hook, publock, used>>

(* The boot task, on-demand mode: the documents are rendered by requests. *)
BootDocuments ==
  /\ pc = "boot"
  /\ Emit("tick", IF live = {} THEN "CommitNotExpected" ELSE "CommitReadyOnRequest",
          begin_document_update(pub), obl)
  /\ islands' = Islands!begin(islands) /\ scripts' = Scripts!begin(scripts)
  /\ pc' = "close"
  /\ UNCHANGED <<gate, disk, documents, site, control, req, locks, used>>

BootFails ==
  /\ pc = "boot" /\ Fails
  /\ Emit("tick", "LeavePending", pub, obl)
  /\ pc' = "close"
  /\ UNCHANGED <<gate, ledgers, disk, documents, site, control, req, locks>>
-----------------------------------------------------------------------------
(* A request for a stale document, from its guarded write on.  Its claim   *)
(* and its render are the subject of LazyDev.                              *)
RequestWrites(d, proven) ==
  LET drains == proven /\ Drains(obl, d)
  IN  /\ req = "idle" /\ exclusion = "free" /\ ~plan.boot
      /\ d \in stale \cup (live \ Bodied)
      /\ body' = [body EXCEPT ![d] = host]
      /\ queue' = queue \ {d}
      /\ stale' = IF proven THEN stale \ {d} ELSE stale
      /\ lost' = IF Undeclared /\ d \notin stale' THEN lost \cup {d} ELSE lost \ {d}
      /\ obl' = IF proven THEN resolve_lazy_request_path(obl, d) ELSE obl
      /\ exclusion' = IF drains THEN "request" ELSE exclusion
      /\ req' = IF drains THEN "check" ELSE req
      /\ UNCHANGED <<pub, gate, ledgers, disk, host, live, site, pc, control, hook, publock, used>>

RequestChecksGate ==
  /\ req = "check" /\ publock = "free"
  /\ gate' = defer_lazy_repair(gate)
  /\ publock' = IF gate.active THEN "free" ELSE "request"
  /\ req' = IF gate.active THEN "finish" ELSE "commit"
  /\ UNCHANGED <<pub, obl, ledgers, disk, documents, site, pc, control, hook, exclusion, used>>

RequestCommits ==
  /\ req = "commit"
  /\ PublishRepair("request")
  /\ publock' = "free"
  /\ req' = "finish"
  /\ UNCHANGED <<ledgers, disk, documents, site, pc, control, exclusion, used>>

RequestFinishes ==
  /\ req = "finish" /\ HookDone("request")
  /\ exclusion' = "free" /\ req' = "idle"
  /\ UNCHANGED <<server, ledgers, disk, documents, site, pc, control, hook, publock, used>>
-----------------------------------------------------------------------------
Discovery ==
  \/ RaiseGate \/ DiscoveryBeginsLedgers \/ DiscoveryBeginsState
  \/ \E moved \in BOOLEAN : Discover(moved)
  \/ DiscoverFails \/ DiscoveryAborts \/ ReleaseGate \/ TakeRepair \/ ReplayRepair
Entries ==
  \/ \E changed \in BOOLEAN : BuildScripts(changed)
  \/ \E unsafe \in SUBSET ScriptFiles : BuildScriptsFails(unsafe)
  \/ NoIslandsLeft \/ ReuseIslands \/ WriteCompanions \/ WriteIslandsEntry
  \/ \E written \in SUBSET Files : IslandsFail(written)
Pages ==
  \/ \E moved \in BOOLEAN : Reload(moved)
  \/ RefreshOrRenderFails
  \/ \E failing \in SUBSET Docs : RenderPages(failing) \/ Prune(failing)
  \/ \E d \in Docs : WriteDocument(d) \/ WriteDocumentFails(d)
  \/ AllWritten
TickThread ==
  \/ Discovery \/ Enter \/ Entries \/ Pages \/ Commit \/ Drop \/ Close
  \/ BootDocuments \/ BootFails
  \/ CommitScripts("tick") \/ CommitIslands("tick") \/ AbortLedgers
RequestThread ==
  \/ RequestChecksGate \/ RequestCommits \/ RequestFinishes
  \/ CommitScripts("request") \/ CommitIslands("request")

Next ==
  \/ \E s \in Sites, p \in Batches : StartTick(s, p)
  \/ \E d \in Docs, proven \in BOOLEAN : RequestWrites(d, proven)
  \/ TickThread
  \/ RequestThread

(* A thread that has begun its work carries it through; nobody is obliged *)
(* to edit or to open a page.                                             *)
Spec == Init /\ [][Next]_vars /\ WF_vars(TickThread) /\ WF_vars(RequestThread)
-----------------------------------------------------------------------------
TypeOK ==
  /\ pub \in PublicationStates /\ obl \in ObligationStates /\ gate \in GateStates
  /\ islands \in Islands!IslandsLedgers /\ scripts \in Scripts!ScriptLedgers
  /\ Len(scripts.retained) <= RetainedScripts
  /\ disk \in Disks
  /\ body \in [Docs -> Bodies] /\ stale \in SUBSET Docs /\ host \in Bodies
  /\ live \in SUBSET Docs /\ queue \in SUBSET Docs
  /\ lost \in SUBSET Docs /\ site \in SiteType
  /\ plan \in Plans /\ txn \in Transactions /\ todo \in SUBSET Docs
  /\ hook \in [Threads -> [pc : {"none", "scripts", "islands", "abort"}, preserve : BOOLEAN]]
  /\ used \in [ticks : 0..MaxTicks, failures : 0..MaxFailures]

(* A server that reports readiness owes nothing: no document failed to be  *)
(* rendered, written or removed, no entry build failed, no write is        *)
(* uncertain and no entry bytes wait for their documents.                  *)
ReadyMeansSettled ==
  is_ready(pub) => /\ ~has_eager_failures(obl)
                   /\ ~pub.uncertain /\ ~pub.entry_pending

(* When the response with a document names the islands entry, the entry is *)
(* on disk and so is every companion it imports, whatever commits, aborts  *)
(* and deletions came between.  Excepted is an entry whose build never     *)
(* committed before the last island went.                                  *)
ServedEntryResolves ==
  disk.phase # "orphan" =>
    \A d \in Bodied :
      islands_urls_for_response(pub, body[d] = "islands") # {} =>
        disk.entry # None /\ Names[disk.entry] \subseteq disk.files

(* A ready server serves the generation it published: the islands entry on *)
(* disk is the one whose companions the ledger keeps alive.                *)
ReadyIsOnDisk ==
  is_ready(pub) /\ pub.islands.kind = "Published" /\ HookDone("tick") /\ HookDone("request") =>
    disk.entry # None /\ Names[disk.entry] = islands.live

(* A client script that a response may name is on disk, while it is staged *)
(* and after it is published, whatever builds and deletions come between.  *)
NamedScriptsOnDisk ==
  /\ pub.scripts.urls \cup scripts.live \subseteq disk.scripts
  /\ pub.staged_scripts # None => pub.staged_scripts.urls \subseteq disk.scripts

(* A document with island markers keeps a URL for them once an entry was   *)
(* published, through the removal of the last island too.  A document that *)
(* was lost before the step is excepted.                                   *)
Offered(p)   == \E slot \in {p.islands, p.retained} : slot # None /\ slot.kind = "Published"
BodyKeepsItsIslands ==
  [][\A d \in Docs \ lost :
       body[d] = "islands" /\ body'[d] = "islands" /\ Offered(pub)
       => islands_urls_for_response(pub', TRUE) # {}]_vars

(* Requests defer their repair to discovery only for a while. *)
GateIsReleased == gate.active ~> ~gate.active

(* The repair that settles the last document is published by somebody: by  *)
(* the request, by the tick it was deferred to, or by a failed discovery.  *)
(* Only a new failure, or an apply that fails, may stand against it.       *)
RepairIsPublished ==
  req = "check" ~> \/ pub.documents # "Pending"
                   \/ has_eager_failures(obl)
                   \/ txn.dropped
=============================================================================
