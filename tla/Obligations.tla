------------------------------ MODULE Obligations ------------------------------
(***************************************************************************)
(* What stands between the dev session and a ready publication.            *)
(* DocumentObligations: documents whose render, write or removal failed,   *)
(* stale documents whose old body is still on disk, entry builds that      *)
(* failed.  DiscoveryPublicationState: the gate discovery holds while it   *)
(* owns a publication transaction.  One operator per method.               *)
(* A document belongs to one source, so failed_sources and failed_outputs  *)
(* are one set of documents here.                                          *)
(***************************************************************************)
CONSTANTS Docs,        \* output paths of documents
          ScriptFiles  \* outputs of the client-script build

EntryKinds == {"Islands", "ClientScripts"}

ObligationStates ==
  [failed : SUBSET Docs, lazy : SUBSET Docs, drained : BOOLEAN, blocked : BOOLEAN,
   unsafe : SUBSET ScriptFiles, entries : SUBSET EntryKinds]

NoObligations ==
  [failed |-> {}, lazy |-> {}, drained |-> FALSE, blocked |-> FALSE,
   unsafe |-> {}, entries |-> {}]

has_document_failures(o) == o.failed # {}
has_entry_failures(o)    == o.unsafe # {} \/ o.entries # {}
has_eager_failures(o)    == has_document_failures(o) \/ has_entry_failures(o)

start_document_write(o, ds) == [o EXCEPT !.failed = @ \cup ds]
record_failure(o, ds)       == [o EXCEPT !.failed = @ \cup ds]
record_lazy_outputs(o, ds)  == [o EXCEPT !.lazy = @ \cup ds]
resolve_documents(o, ds)    == [o EXCEPT !.failed = @ \ ds, !.lazy = @ \ ds]

record_entry_failure(o, kind) == [o EXCEPT !.entries = @ \cup {kind}]
record_entry_success(o, kind) == [o EXCEPT !.entries = @ \ {kind}]
record_rollback_failure(o, names) == [o EXCEPT !.unsafe = @ \cup names]
record_scripts_published(o, names) == [o EXCEPT !.unsafe = @ \ names]

(* The request that repairs d settles the last document, old bodies included. *)
Drains(o, d) == o.failed \cup o.lazy = {d}

resolve_lazy_request_path(o, d) ==
  IF Drains(o, d)
  THEN [resolve_documents(o, {d}) EXCEPT !.drained = TRUE, !.blocked = has_entry_failures(o)]
  ELSE resolve_documents(o, {d})

LazyRepairs == {"CommitLazyRepair", "CommitDiscoveryLazyRepair"}
Commits == {"CommitPublished", "CommitReadyOnRequest", "CommitNotExpected",
            "CommitEntriesOnly"} \cup LazyRepairs

IsRecovery(o, event) ==
  event \in LazyRepairs \/ (event = "CommitEntriesOnly" /\ o.blocked)

(* publication_retention and take_client_blocked_lazy_repair, at a commit *)
(* that nothing blocks.                                                    *)
Preserves(o, event) == o.lazy # {} \/ (IsRecovery(o, event) /\ o.drained)
AtCommit(o, event) ==
  [o EXCEPT !.blocked = @ /\ event \in LazyRepairs,
            !.drained = @ /\ (o.lazy # {} \/ IsRecovery(o, event))]

retain_lazy_dependencies(o) == o.lazy # {} \/ o.drained
-----------------------------------------------------------------------------
GateStates == [pending : BOOLEAN, active : BOOLEAN, boundary : BOOLEAN, lazy : BOOLEAN]

NoGate == [pending |-> FALSE, active |-> FALSE, boundary |-> FALSE, lazy |-> FALSE]

begin_discovery(g)  == [g EXCEPT !.pending = TRUE, !.active = TRUE]
(* Mutants: an aborted discovery keeps its gate, a deferred repair is lost. *)
AbortKeepsGate(g)   == [g EXCEPT !.pending = FALSE, !.boundary = FALSE]
RepairForgotten(g)  == g

abort_discovery(g)  == [g EXCEPT !.pending = FALSE, !.active = FALSE, !.boundary = FALSE]
note_boundary(g)    == [g EXCEPT !.boundary = TRUE]
terminal_attempted(g) == [g EXCEPT !.active = FALSE]
defer_lazy_repair(g)  == IF g.active THEN [g EXCEPT !.lazy = TRUE] ELSE g
take_lazy_repair(g)   == [g EXCEPT !.lazy = FALSE]
finish_request_repair(g) == IF g.active THEN [g EXCEPT !.lazy = TRUE] ELSE NoGate
=============================================================================
