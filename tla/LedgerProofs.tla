----------------------------- MODULE LedgerProofs -----------------------------
(***************************************************************************)
(* A response never names a client script that is not on disk.  The hook   *)
(* moves a generation in two steps, the server's state first and the       *)
(* ledger after it, and the builds and the prunes of the other threads     *)
(* come between.                                                           *)
(***************************************************************************)
EXTENDS PublicationProofs

(* Where a hook call may be under way, and what keeps a request's commit   *)
(* and an abort of the tick thread apart.                                  *)
Aborting == hook["tick"].pc = "abort"
HookOrder ==
  /\ hook["tick"].pc # "none" => pc \in {"close", "aborted"}
  /\ hook["request"].pc # "none" => req = "finish"
  /\ req = "commit" => publock = "request" /\ ~Aborting
  /\ Aborting => pc = "aborted" \/ exclusion = "tick"

(* Does a hook call still owe the ledger the generation the state has?     *)
Owing == \E t \in Threads : hook[t].pc = "scripts"

(* The ledger protects what the state names: a staged generation until the *)
(* commit or the abort of it reaches the ledger, then the live one.        *)
Follows ==
  /\ scripts.live \subseteq disk.scripts
  /\ scripts.staged # None =>
       scripts.staged.names \subseteq disk.scripts /\ scripts.staged.names \subseteq scripts.unresolved
  /\ pub.staged_scripts # None =>
       scripts.staged # None /\ pub.staged_scripts.urls = scripts.staged.names
  /\ Owing => /\ pub.staged_scripts = None
              /\ scripts.staged = None => pub.scripts.urls \subseteq scripts.live
              /\ scripts.staged # None => pub.scripts.urls = scripts.staged.names
  /\ ~Owing => pub.scripts.urls \subseteq scripts.live
  /\ Aborting => pub.staged_scripts = None
  /\ scripts.staged # None /\ pub.staged_scripts = None => Aborting \/ Owing

ScriptInv == Inv /\ HookOrder /\ Follows

-----------------------------------------------------------------------------
(* What an event of the hook does to the scripts of the state *)

Same(q, p)  == /\ q.scripts = p.scripts /\ q.staged_scripts = p.staged_scripts
               /\ q.islands = p.islands /\ q.staged_islands = p.staged_islands
               /\ q.retained = p.retained
Moved(q, p) == /\ q.staged_scripts = None /\ q.staged_islands = None
               /\ q.scripts = IF p.staged_scripts = None THEN p.scripts ELSE p.staged_scripts
               /\ q.islands = IF p.staged_islands = None THEN p.islands ELSE p.staged_islands
               /\ q.retained \in {None, p.retained, p.islands}
Rid(q, p)   == /\ q.scripts = p.scripts /\ q.staged_scripts = None
               /\ q.islands = p.islands /\ q.staged_islands = None
               /\ q.retained = p.retained

LEMMA BeginKeeps ==
  ASSUME NEW p \in PublicationStates
  PROVE  Same(begin_document_update(p), p)
BY DEF begin_document_update, PublicationStates, Same

LEMMA FallbackChoice ==
  ASSUME NEW p \in PublicationStates, NEW retain \in BOOLEAN
  PROVE  Fallback(p, retain) \in {None, p.retained, p.islands}
<1>1. CASE p.staged_islands = None
  BY <1>1 DEF Fallback
<1>2. CASE p.staged_islands # None
  BY <1>2 DEF Fallback
<1> QED BY <1>1, <1>2

LEMMA CommitPromotes ==
  ASSUME NEW p \in PublicationStates, NEW docs, NEW retain \in BOOLEAN, ~p.uncertain
  PROVE  Moved(commit_document_update(p, docs, retain), p)
<1>1. Fallback(p, retain) \in {None, p.retained, p.islands}
  BY FallbackChoice
<1> QED BY <1>1 DEF commit_document_update, Moved

LEMMA CommittedPromotes ==
  ASSUME NEW p \in PublicationStates, NEW o \in ObligationStates, NEW event,
         event = "CommitEntriesOnly" => ~p.uncertain
  PROVE  Moved(Committed(p, o, event), p)
<1> DEFINE r == resolve_document_uncertainty(p)
<1>1. r \in PublicationStates /\ ~r.uncertain /\ Same(r, p)
  BY DEF resolve_document_uncertainty, PublicationStates, Same
<1> HIDE DEF r
<1>r. ASSUME NEW docs, NEW retain \in BOOLEAN PROVE Moved(commit_document_update(r, docs, retain), p)
  <2>1. Moved(commit_document_update(r, docs, retain), r)
    BY <1>1, CommitPromotes
  <2> QED BY <1>1, <2>1 DEF Moved, Same
<1>2. CASE event \in LazyRepairs
  <2>1. Committed(p, o, event) = commit_document_update(r, "ReadyOnRequest", TRUE)
    BY <1>2 DEF Committed, commit_lazy_repair, LazyRepairs, r
  <2> QED BY <1>r, <2>1
<1>3. CASE event = "CommitEntriesOnly"
  <2> DEFINE docs == IF p.previous = "None" THEN p.documents ELSE p.previous
             retain == Preserves(o, event)
  <2>1. Committed(p, o, event) = commit_document_update(p, docs, retain) /\ ~p.uncertain
    BY <1>3 DEF Committed, commit_entry_update, LazyRepairs
  <2>2. retain \in BOOLEAN
    BY PreservesType
  <2> HIDE DEF docs, retain
  <2> QED BY <2>1, <2>2, CommitPromotes
<1>4. CASE event \notin LazyRepairs /\ event # "CommitEntriesOnly"
  <2> DEFINE retain == Preserves(o, event)
             docs == Documents(event, retain)
  <2>1. Committed(p, o, event) = commit_document_update(r, docs, retain) /\ retain \in BOOLEAN
    BY <1>4, PreservesType DEF Committed, r
  <2> HIDE DEF docs, retain
  <2> QED BY <1>r, <2>1
<1> QED BY <1>2, <1>3, <1>4

LEMMA UncertainCommitted ==
  ASSUME NEW p \in PublicationStates, NEW o, p.uncertain
  PROVE  Committed(p, o, "CommitEntriesOnly") = p
BY DEF Committed, LazyRepairs, commit_entry_update, commit_document_update

LEMMA PendingKeeps ==
  ASSUME NEW p \in PublicationStates, NEW o, NEW event
  PROVE  /\ Same(LeftPending(p, o, event), p)
         /\ Same(leave_entry_update_pending(p), p)
         /\ Same(leave_document_update_pending(p), p)
<1>1. \A docs : Same(leave_entry_update_pending_after_document_boundary(p, docs), p)
  BY DEF leave_entry_update_pending_after_document_boundary, PublicationStates, Same
<1>2. Same(leave_entry_update_pending(p), p) /\ Same(leave_document_update_pending(p), p)
  BY DEF leave_entry_update_pending, leave_document_update_pending, PublicationStates, Same
<1>3. has_document_failures(o) \in BOOLEAN
  BY DEF has_document_failures
<1>4. \/ LeftPending(p, o, event) = leave_document_update_pending(p)
      \/ LeftPending(p, o, event) = leave_entry_update_pending(p)
      \/ LeftPending(p, o, event)
           = leave_entry_update_pending_after_document_boundary(p, Documents(event, retain_lazy_dependencies(o)))
  BY <1>3 DEF LeftPending
<1> QED BY <1>1, <1>2, <1>4

LEMMA AbortDrops ==
  ASSUME NEW p \in PublicationStates
  PROVE  LET a == abort_document_update_before_write(p)
         IN  /\ a.documents = "Pending" => Same(a, p)
             /\ a.documents # "Pending" => Rid(a, p) /\ ~Unsettled(p)
<1> DEFINE a == abort_document_update_before_write(p)
<1> USE DEF PublicationStates, Same, Rid, Unsettled
<1>1. CASE p.uncertain \/ p.entry_pending
  <2>1. a = [p EXCEPT !.documents = "Pending"]
    BY <1>1 DEF abort_document_update_before_write
  <2> QED BY <2>1
<1>2. CASE ~p.uncertain /\ ~p.entry_pending /\ p.previous \in {"None", "Pending"}
  <2>1. a = [p EXCEPT !.documents = "Pending", !.previous = "None"]
    BY <1>2 DEF abort_document_update_before_write
  <2> QED BY <2>1
<1>3. CASE ~p.uncertain /\ ~p.entry_pending /\ p.previous \notin {"None", "Pending"}
  <2>1. a = [p EXCEPT !.documents = p.previous, !.previous = "None",
                          !.staged_islands = None, !.staged_scripts = None]
    BY <1>3 DEF abort_document_update_before_write
  <2> QED BY <1>3, <2>1
<1> QED BY <1>1, <1>2, <1>3

(* One hook call: nothing for the ledgers to do, a commit, or an abort. A  *)
(* call that is not for an abort leaves something unsettled or commits.    *)
Calls == [pc : {"none", "scripts", "abort"}, preserve : BOOLEAN]
Moves(t, p, aborts) ==
  \E h \in Calls :
    /\ hook' = [hook EXCEPT ![t] = h]
    /\ h.pc = "none" => /\ Same(pub', p) /\ pub'.documents = "Pending"
                        /\ ~aborts \/ Unsettled(p) => Unsettled(pub')
    /\ h.pc = "scripts" => Moved(pub', p)
    /\ h.pc = "abort" => t = "tick" /\ aborts /\ Rid(pub', p) /\ ~Unsettled(p)

LEMMA EmitMoves ==
  ASSUME NEW t \in Threads, NEW p \in PublicationStates, NEW o \in ObligationStates, Coherent(p),
         NEW event \in Events, Emit(t, event, p, o), t = "tick"
  PROVE  Moves(t, p, event = Aborts) /\ publock \in {"free", t}
<1> DEFINE h == AfterState(p, o, event)
<1>0. /\ hook' = [hook EXCEPT ![t] = h] /\ pub' = Settled(p, o, event) /\ publock \in {"free", t}
  BY DEF Emit
<1>a. /\ "LeavePending" \notin Commits \cup {Aborts} /\ "LeaveEntriesPending" \notin Commits \cup {Aborts}
      /\ Aborts \notin Commits
      /\ Events \subseteq Commits \cup {Aborts, "LeaveEntriesPending", "LeavePending"}
      /\ "LeavePending" # "LeaveEntriesPending"
  BY DEF Commits, LazyRepairs, Aborts, Events, Fallbacks
<1>b. Returned \in Calls /\ Returned.pc = "none"
  BY DEF Returned, Calls
<1>c. Preserves(o, event) \in BOOLEAN
  BY PreservesType
<1>1. CASE event \in Commits \cup {Aborts} /\ has_eager_failures(o)
  <2>1. pub' = LeftPending(p, o, event) /\ h = Returned
    BY <1>0, <1>1, <1>a DEF Settled, AfterState, Succeeds
  <2>2. Same(pub', p) /\ pub'.documents = "Pending" /\ Unsettled(pub')
    BY <2>1, PendingKeeps, LeftPendingType
  <2> QED BY <1>0, <1>b, <2>1, <2>2 DEF Moves
<1>2. CASE event \in Commits /\ ~has_eager_failures(o) /\ (event = "CommitEntriesOnly" => ~p.uncertain)
  <2>1. pub' = Committed(p, o, event) /\ h = [pc |-> "scripts", preserve |-> Preserves(o, event)]
    BY <1>0, <1>2, <1>a DEF Settled, AfterState, Succeeds
  <2>2. Moved(pub', p)
    BY <1>2, <2>1, CommittedPromotes
  <2>3. h \in Calls /\ h.pc = "scripts"
    BY <2>1, <1>c DEF Calls
  <2> HIDE DEF h
  <2> QED BY <1>0, <2>2, <2>3 DEF Moves
<1>3. CASE ~has_eager_failures(o) /\ event = "CommitEntriesOnly" /\ p.uncertain
  <2>0. "CommitEntriesOnly" \in Commits
    BY DEF Commits
  <2>1. pub' = p /\ h = Returned
    BY <1>0, <1>3, <1>a, <2>0, UncertainCommitted DEF Settled, AfterState, Succeeds
  <2>2. Same(pub', p) /\ Unsettled(pub') /\ pub'.documents = "Pending"
    BY <1>3, <2>1 DEF Same, Unsettled, Coherent
  <2> QED BY <1>0, <1>b, <2>1, <2>2 DEF Moves
<1>4. CASE event = Aborts /\ ~has_eager_failures(o)
  <2> DEFINE a == abort_document_update_before_write(p)
  <2>1. /\ pub' = a
        /\ a.documents # "Pending" => h = [pc |-> "abort", preserve |-> FALSE]
        /\ a.documents = "Pending" => h = Returned
    BY <1>0, <1>4, <1>a DEF Settled, AfterState, Succeeds
  <2>2. /\ a.documents = "Pending" => Same(a, p)
        /\ a.documents # "Pending" => Rid(a, p) /\ ~Unsettled(p)
        /\ Unsettled(p) => Unsettled(a)
    BY AbortDrops, AbortType
  <2> HIDE DEF a, h
  <2>3. CASE a.documents = "Pending"
    BY <1>0, <1>4, <1>b, <2>1, <2>2, <2>3 DEF Moves
  <2>4. CASE a.documents # "Pending"
    <3>1. h = [pc |-> "abort", preserve |-> FALSE]
      BY <2>1, <2>4
    <3>2. h \in Calls /\ h.pc = "abort"
      BY <3>1 DEF Calls
    <3> QED BY <1>0, <1>4, <2>1, <2>2, <2>4, <3>2 DEF Moves
  <2> QED BY <2>3, <2>4
<1>5. CASE event \in {"LeaveEntriesPending", "LeavePending"}
  <2>1. h = Returned /\ pub' \in {leave_entry_update_pending(p), leave_document_update_pending(p)}
    BY <1>0, <1>5, <1>a DEF Settled, AfterState, Succeeds
  <2>2. Same(pub', p) /\ pub'.documents = "Pending" /\ Unsettled(pub')
    <3>1. /\ leave_document_update_pending(p).documents = "Pending"
          /\ leave_document_update_pending(p).uncertain
          /\ leave_entry_update_pending(p).documents = "Pending"
          /\ leave_entry_update_pending(p).entry_pending
      BY PendingType DEF PublicationStates
    <3> QED BY <2>1, <3>1, PendingKeeps DEF Unsettled
  <2> QED BY <1>0, <1>b, <2>1, <2>2 DEF Moves
<1> QED BY <1>0, <1>1, <1>2, <1>3, <1>4, <1>5, <1>a

LEMMA RepairMoves ==
  ASSUME NEW t \in Threads, pub \in PublicationStates, obl \in ObligationStates, Coherent(pub),
         PublishRepair(t)
  PROVE  Moves(t, pub, FALSE) /\ publock \in {"free", t}
<1> DEFINE event == "CommitLazyRepair"
           next == Settled(pub, obl, event)
           h == AfterState(pub, obl, event)
<1>a. event \in Commits /\ event # "CommitEntriesOnly" /\ event # Aborts
  BY DEF Commits, LazyRepairs, Aborts
<1>0. /\ hook' = [hook EXCEPT ![t] = h] /\ publock \in {"free", t}
      /\ pub' = next \/ (Succeeds(pub, obl, event) /\ pub' = begin_document_update(next))
  BY DEF PublishRepair
<1>1. CASE has_eager_failures(obl)
  <2>1. pub' = LeftPending(pub, obl, event) /\ h = Returned
    BY <1>0, <1>1, <1>a DEF Settled, AfterState, Succeeds
  <2>2. Same(pub', pub) /\ pub'.documents = "Pending" /\ Unsettled(pub')
    BY <2>1, PendingKeeps, LeftPendingType
  <2>3. Returned \in Calls /\ Returned.pc = "none"
    BY DEF Returned, Calls
  <2> QED BY <1>0, <2>1, <2>2, <2>3 DEF Moves
<1>2. CASE ~has_eager_failures(obl)
  <2>1. next = Committed(pub, obl, event) /\ h = [pc |-> "scripts", preserve |-> Preserves(obl, event)]
    BY <1>2, <1>a DEF Settled, AfterState, Succeeds
  <2>2. Moved(next, pub) /\ next \in PublicationStates
    BY <2>1, <1>a, CommittedPromotes, CommittedType
  <2>4. h \in Calls /\ h.pc = "scripts"
    BY <2>1, PreservesType DEF Calls
  <2>7. Same(begin_document_update(next), next)
    BY <2>2, BeginKeeps
  <2> HIDE DEF next, h
  <2>8. Moved(pub', pub)
    BY <1>0, <2>2, <2>7 DEF Moved, Same
  <2> QED BY <1>0, <2>4, <2>8 DEF Moves
<1> QED BY <1>0, <1>1, <1>2

-----------------------------------------------------------------------------
(* The steps *)

(* The thread that calls the hook has no call under way, and no abort of   *)
(* the other one waits for its ledgers.                                    *)
LEMMA MoveStep ==
  ASSUME TypeOK, Follows, NEW t \in Threads, NEW p \in PublicationStates, NEW aborts, Moves(t, p, aborts),
         p.scripts = pub.scripts, p.staged_scripts = pub.staged_scripts,
         hook[t].pc = "none", ~Aborting,
         scripts'.live = scripts.live, scripts'.staged = scripts.staged,
         scripts'.unresolved = scripts.unresolved, disk'.scripts = disk.scripts
  PROVE  Follows'
<1>1. PICK h \in Calls :
        /\ hook' = [hook EXCEPT ![t] = h]
        /\ h.pc = "none" => Same(pub', p)
        /\ h.pc = "scripts" => Moved(pub', p)
        /\ h.pc = "abort" => t = "tick" /\ Rid(pub', p)
  BY DEF Moves
<1> USE DEF Calls
<1>2. /\ hook'[t] = h /\ \A u \in Threads \ {t} : hook'[u] = hook[u]
      /\ "tick" \in Threads
  BY <1>1 DEF TypeOK, Threads
<1>3. CASE h.pc = "none"
  <2>1. (Owing' <=> Owing) /\ ~Aborting'
    BY <1>2, <1>3 DEF Owing, Aborting
  <2>2. pub'.scripts = pub.scripts /\ pub'.staged_scripts = pub.staged_scripts
    BY <1>1, <1>3 DEF Same
  <2> QED BY <2>1, <2>2 DEF Follows
<1>4. CASE h.pc = "scripts"
  <2>1. Owing' /\ ~Aborting'
    BY <1>2, <1>4 DEF Owing, Aborting
  <2>2. /\ pub'.staged_scripts = None
        /\ pub'.scripts = IF pub.staged_scripts = None THEN pub.scripts ELSE pub.staged_scripts
    BY <1>1, <1>4 DEF Moved
  <2>3. CASE pub.staged_scripts = None
    BY <2>1, <2>2, <2>3 DEF Follows
  <2>4. CASE pub.staged_scripts # None
    BY <2>1, <2>2, <2>4 DEF Follows
  <2> QED BY <2>3, <2>4
<1>5. CASE h.pc = "abort"
  <2>1. (Owing' <=> Owing) /\ Aborting'
    BY <1>1, <1>2, <1>5 DEF Owing, Aborting
  <2>2. pub'.scripts = pub.scripts /\ pub'.staged_scripts = None
    BY <1>1, <1>5 DEF Rid
  <2> QED BY <2>1, <2>2 DEF Follows
<1> QED BY <1>3, <1>4, <1>5

(* A commit reaches the ledger: what leaves the disk is neither live nor   *)
(* retained afterwards.                                                    *)
LEMMA CommitStep ==
  ASSUME TypeOK, Follows, NEW t \in Threads, CommitScripts(t)
  PROVE  Follows' /\ (Aborting' <=> Aborting)
<1> DEFINE l == scripts
           n == Scripts!commit_scripts(l)
<1>0. /\ scripts' = n /\ disk'.scripts = disk.scripts \ Scripts!PrunedScripts(l)
      /\ pub' = pub /\ l \in Scripts!ScriptLedgers /\ Owing
  BY DEF CommitScripts, TypeOK, server, Owing
<1>1. /\ \A u \in Threads \ {t} : hook'[u] = hook[u]
      /\ hook'[t].pc = "islands" /\ hook[t].pc = "scripts"
  BY DEF CommitScripts, TypeOK
<1>2. (Aborting' <=> Aborting) /\ (Owing' => Owing)
  BY <1>0, <1>1 DEF Aborting, Owing, Threads
<1>3. CASE l.staged = None
  <2>1. n = l /\ Scripts!PrunedScripts(l) = {}
    BY <1>3 DEF Scripts!commit_scripts, Scripts!PrunedScripts
  <2> QED BY <1>0, <1>2, <1>3, <2>1 DEF Follows
<1>4. CASE l.staged # None
  <2>0. l.staged.changed \in BOOLEAN
    BY <1>0, <1>4 DEF Scripts!ScriptLedgers, Scripts!Generations
  <2>1. n.live = l.staged.names /\ n.staged = None
    <3>1. CASE ~l.staged.changed
      <4>1. n = [l EXCEPT !.live = l.staged.names, !.staged = None]
        BY <1>4, <3>1 DEF Scripts!commit_scripts
      <4> QED BY <1>0, <4>1 DEF Scripts!ScriptLedgers
    <3>2. CASE l.staged.changed
      <4> DEFINE a == Scripts!Aged(l)
      <4>1. a = [l EXCEPT !.live = l.staged.names, !.staged = None, !.retained = <<l.live>> \o l.retained]
        BY DEF Scripts!Aged
      <4>2. n = [a EXCEPT !.unresolved = {}, !.retained = Scripts!Youngest(a.retained, RetainedScripts)]
        BY <1>4, <3>2 DEF Scripts!commit_scripts
      <4> QED BY <1>0, <4>1, <4>2 DEF Scripts!ScriptLedgers
    <3> QED BY <2>0, <3>1, <3>2
  <2>2. Scripts!PrunedScripts(l) \cap n.live = {}
    BY DEF Scripts!PrunedScripts
  <2> HIDE DEF n, l
  <2> QED BY <1>0, <1>2, <1>4, <2>1, <2>2 DEF Follows, l
<1> QED BY <1>3, <1>4

(* A build deletes no output that the ledger protects. *)
LEMMA BuildStep ==
  ASSUME TypeOK, Follows, NEW changed \in BOOLEAN, BuildScripts(changed), ~Owing, ~Aborting,
         site.scripts \subseteq ScriptFiles
  PROVE  Follows'
<1> DEFINE outputs == site.scripts
           tracked == Scripts!track_candidate(scripts, outputs)
           kept == (disk.scripts \cup outputs) \cap (Scripts!protected_filenames(scripts) \cup outputs)
<1>0. scripts \in Scripts!ScriptLedgers /\ pub \in PublicationStates
  BY DEF TypeOK
<1>1. tracked = [scripts EXCEPT !.unresolved = scripts.unresolved \cup outputs]
  BY DEF Scripts!track_candidate
<1>2. PICK b \in BOOLEAN : scripts' = Scripts!stage_generation(tracked, outputs, b)
  BY DEF BuildScripts
<1>3. PICK c : scripts' = [tracked EXCEPT !.staged = [names |-> outputs, changed |-> c]]
  BY <1>2 DEF Scripts!stage_generation
<1>4. /\ scripts'.live = scripts.live /\ scripts'.staged.names = outputs
      /\ scripts'.unresolved = scripts.unresolved \cup outputs
      /\ scripts'.staged = [names |-> outputs, changed |-> c]
  BY <1>0, <1>1, <1>3 DEF Scripts!ScriptLedgers
<1>5. scripts'.staged # None
  <2>1. scripts'.staged \in Scripts!Generations
    BY <1>0, <1>1, <1>2 DEF Scripts!stage_generation, Scripts!Generations, Scripts!ScriptLedgers
  <2> QED BY <2>1, NoneAssumption
<1>6. disk'.scripts = kept
  BY DEF BuildScripts, TypeOK
<1>7. scripts.live \subseteq kept /\ outputs \subseteq kept
  BY DEF Follows, Scripts!protected_filenames
<1>8. /\ pub'.staged_scripts = slot_from_urls(outputs) /\ pub'.scripts = pub.scripts
      /\ slot_from_urls(outputs).urls = outputs
      /\ pub'.staged_scripts # None
  BY <1>0, SlotType, PublicationAssumption, NoneAssumption DEF BuildScripts, stage_scripts, slot_from_urls, PublicationStates
<1>9. ~Owing' /\ ~Aborting'
  BY DEF BuildScripts, Owing, Aborting
<1> HIDE DEF kept, outputs
<1> QED BY <1>4, <1>5, <1>6, <1>7, <1>8, <1>9 DEF Follows

(* An abort: everything it deletes is neither live nor retained, and no    *)
(* commit of a request is under way whose generation it could drop.        *)
LEMMA AbortStep ==
  ASSUME TypeOK, Follows, AbortLedgers, ~OverlappingAbort
  PROVE  Follows'
<1> DEFINE l == scripts
           n == Scripts!abort_scripts(l)
<1>0. /\ scripts' = n /\ disk'.scripts = disk.scripts \ Scripts!AbortedScripts(l)
      /\ pub' = pub /\ l \in Scripts!ScriptLedgers /\ Aborting /\ hook["request"].pc = "none"
  BY DEF AbortLedgers, TypeOK, server, Aborting, HookDone
<1>1. hook'["tick"].pc = "none" /\ hook'["request"].pc = "none"
  BY <1>0 DEF AbortLedgers, TypeOK, Threads, Returned
<1>2. ~Owing' /\ ~Aborting' /\ ~Owing
  BY <1>0, <1>1 DEF Owing, Aborting, Threads
<1>3. n.live = l.live /\ n.staged = None /\ Scripts!AbortedScripts(l) \cap l.live = {}
  BY <1>0 DEF Scripts!abort_scripts, Scripts!AbortedScripts, Scripts!ScriptLedgers
<1> HIDE DEF n
<1> QED BY <1>0, <1>2, <1>3 DEF Follows

-----------------------------------------------------------------------------
(* The step of the invariant *)

(* Neither the state's scripts nor the ledger moves; files may be added. *)
Calm ==
  /\ UNCHANGED hook
  /\ pub'.scripts = pub.scripts /\ pub'.staged_scripts = pub.staged_scripts
  /\ scripts'.live = scripts.live /\ scripts'.staged = scripts.staged
  /\ scripts.unresolved \subseteq scripts'.unresolved /\ disk.scripts \subseteq disk'.scripts

LEMMA CalmStep == Follows /\ Calm => Follows'
<1> SUFFICES ASSUME Follows, Calm PROVE Follows'
  OBVIOUS
<1>1. (Owing' <=> Owing) /\ (Aborting' <=> Aborting)
  BY DEF Calm, Owing, Aborting
<1> QED BY <1>1 DEF Follows, Calm

LEMMA LedgerFrames ==
  ASSUME TypeOK
  PROVE  /\ Scripts!begin(scripts).live = scripts.live
         /\ Scripts!begin(scripts).staged = scripts.staged
         /\ Scripts!begin(scripts).unresolved = scripts.unresolved
         /\ \A names : LET t == Scripts!track_candidate(scripts, names)
                       IN  /\ t.live = scripts.live /\ t.staged = scripts.staged
                           /\ scripts.unresolved \subseteq t.unresolved
BY DEF TypeOK, Scripts!ScriptLedgers, Scripts!begin, Scripts!track_candidate

LEMMA ScriptStep == ScriptInv /\ [Next]_vars /\ ~OverlappingAbort => (HookOrder /\ Follows)'
<1> SUFFICES ASSUME Types, Coherent(pub), Order, Gates, Owed, HookOrder, Follows, [Next]_vars,
                    ~OverlappingAbort
             PROVE  HookOrder' /\ Follows'
  BY DEF ScriptInv, Inv
<1>0. /\ TypeOK /\ pub \in PublicationStates /\ obl \in ObligationStates /\ pc \in Places
      /\ disk \in Disks
      /\ hook \in [Threads -> [pc : {"none", "scripts", "islands", "abort"}, preserve : BOOLEAN]]
      /\ "tick" \in Threads /\ "request" \in Threads
  BY DEF Types, TypeOK, Threads
<1> USE DEF HookOrder, Aborting, control, locks, server, ledgers, documents
<1>1. ASSUME NEW s \in Sites, NEW p \in Batches, StartTick(s, p) PROVE HookOrder' /\ Follows'
  <2>1. Calm
    BY <1>1, <1>0 DEF StartTick, Calm
  <2>2. HookOrder'
    BY <1>1, <1>0 DEF StartTick, HookDone, Order, Gates, Applying, Discovering
  <2> QED BY <2>1, <2>2, CalmStep
<1>2. ASSUME NEW d \in Docs, NEW proven \in BOOLEAN, RequestWrites(d, proven) PROVE HookOrder' /\ Follows'
  <2>1. Calm
    BY <1>2, <1>0 DEF RequestWrites, Calm
  <2>2. HookOrder'
    BY <1>2, <1>0 DEF RequestWrites, HookDone, Order, Gates, Applying, Discovering
  <2> QED BY <2>1, <2>2, CalmStep
<1>3. ASSUME RaiseGate PROVE HookOrder' /\ Follows'
  <2>1. Calm
    BY <1>3, <1>0 DEF RaiseGate, Calm
  <2>2. HookOrder'
    BY <1>3, <1>0 DEF RaiseGate, HookDone, Order, Gates, Applying, Discovering
  <2> QED BY <2>1, <2>2, CalmStep
<1>4. ASSUME DiscoveryBeginsLedgers PROVE HookOrder' /\ Follows'
  <2>1. Calm
    BY <1>4, <1>0, LedgerFrames DEF DiscoveryBeginsLedgers, Calm
  <2>2. HookOrder'
    BY <1>4, <1>0 DEF DiscoveryBeginsLedgers, HookDone, Order, Gates, Applying, Discovering
  <2> QED BY <2>1, <2>2, CalmStep
<1>5. ASSUME DiscoveryBeginsState PROVE HookOrder' /\ Follows'
  <2>1. Calm
    BY <1>5, <1>0, BeginKeeps DEF DiscoveryBeginsState, Calm, Same
  <2>2. HookOrder'
    BY <1>5, <1>0 DEF DiscoveryBeginsState, HookDone, Order, Gates, Applying, Discovering
  <2> QED BY <2>1, <2>2, CalmStep
<1>6. ASSUME NEW moved \in BOOLEAN, Discover(moved) PROVE HookOrder' /\ Follows'
  <2>1. Calm
    BY <1>6, <1>0 DEF Discover, Calm
  <2>2. HookOrder'
    BY <1>6, <1>0 DEF Discover, HookDone, Order, Gates, Applying, Discovering
  <2> QED BY <2>1, <2>2, CalmStep
<1>7. ASSUME DiscoverFails PROVE HookOrder' /\ Follows'
  <2>1. Calm
    BY <1>7, <1>0 DEF DiscoverFails, Calm
  <2>2. HookOrder'
    BY <1>7, <1>0 DEF DiscoverFails, HookDone, Order, Gates, Applying, Discovering
  <2> QED BY <2>1, <2>2, CalmStep
<1>8. ASSUME DiscoveryAborts PROVE HookOrder' /\ Follows'
  <2>1. Emit("tick", Aborts, pub, obl) /\ pc = "abort" /\ pc' = "aborted"
        /\ UNCHANGED <<req, exclusion, publock, scripts, disk>>
    BY <1>8 DEF DiscoveryAborts
  <2>2. Aborts \in Events
    BY DEF Events, Fallbacks, Aborts
  <2>3. Moves("tick", pub, TRUE) /\ publock \in {"free", "tick"}
    BY <1>0, <2>1, <2>2, EmitMoves
  <2>4. Follows'
    BY <1>0, <2>1, <2>3, MoveStep
  <2>5. hook'["request"] = hook["request"]
    BY <1>0, <2>3 DEF Moves
  <2> QED BY <2>1, <2>3, <2>4, <2>5
<1>9. ASSUME ReleaseGate PROVE HookOrder' /\ Follows'
  <2>1. Calm
    BY <1>9, <1>0 DEF ReleaseGate, Calm
  <2>2. HookOrder'
    BY <1>9, <1>0 DEF ReleaseGate, HookDone, Order, Gates, Applying, Discovering
  <2> QED BY <2>1, <2>2, CalmStep
<1>10. ASSUME TakeRepair PROVE HookOrder' /\ Follows'
  <2>1. Calm
    BY <1>10, <1>0 DEF TakeRepair, Calm
  <2>2. HookOrder'
    BY <1>10, <1>0 DEF TakeRepair, HookDone, Order, Gates, Applying, Discovering
  <2> QED BY <2>1, <2>2, CalmStep
<1>11. ASSUME ReplayRepair PROVE HookOrder' /\ Follows'
  <2>1. PublishRepair("tick") /\ pc = "replay_commit" /\ pc' = "close"
        /\ UNCHANGED <<req, exclusion, publock, scripts, disk>>
    BY <1>11 DEF ReplayRepair
  <2>2. Moves("tick", pub, FALSE) /\ publock \in {"free", "tick"}
    BY <1>0, <2>1, RepairMoves
  <2>3. Follows'
    BY <1>0, <2>1, <2>2, MoveStep
  <2>4. hook'["request"] = hook["request"] /\ ~Aborting'
    BY <1>0, <2>1, <2>2 DEF Moves, Calls
  <2> QED BY <2>1, <2>2, <2>3, <2>4
<1>12. ASSUME Enter PROVE HookOrder' /\ Follows'
  <2>1. Calm
    BY <1>12, <1>0, LedgerFrames, BeginKeeps DEF Enter, Calm, Same
  <2>2. HookOrder'
    BY <1>12, <1>0 DEF Enter, HookDone, Order, Gates, Applying, Discovering, AfterEnter, AfterScripts, AfterIslands, AfterReload
  <2> QED BY <2>1, <2>2, CalmStep
<1>13. ASSUME NEW changed \in BOOLEAN, BuildScripts(changed) PROVE HookOrder' /\ Follows'
  <2>1. pc = "scripts" /\ UNCHANGED <<hook, req, exclusion, publock>>
    BY <1>13 DEF BuildScripts
  <2>2. req = "idle" /\ hook["tick"].pc = "none" /\ hook["request"].pc = "none"
    BY <2>1 DEF Order, Applying
  <2>3. ~Owing /\ site.scripts \subseteq ScriptFiles
    BY <1>0, <2>2 DEF Owing, Threads, TypeOK, SiteType
  <2>4. Follows'
    BY <1>13, <1>0, <2>2, <2>3, BuildStep
  <2> QED BY <2>1, <2>2, <2>4
<1>14. ASSUME NEW unsafe \in SUBSET ScriptFiles, BuildScriptsFails(unsafe) PROVE HookOrder' /\ Follows'
  <2>1. Calm
    BY <1>14, <1>0, LedgerFrames DEF BuildScriptsFails, Calm
  <2>2. HookOrder'
    BY <1>14, <1>0 DEF BuildScriptsFails, HookDone, Order, Gates, Applying, Discovering
  <2> QED BY <2>1, <2>2, CalmStep
<1>15. ASSUME NoIslandsLeft PROVE HookOrder' /\ Follows'
  <2>1. Calm
    BY <1>15, <1>0 DEF NoIslandsLeft, stage_islands, PublicationStates, Calm
  <2>2. HookOrder'
    BY <1>15, <1>0 DEF NoIslandsLeft, HookDone, Order, Gates, Applying, Discovering
  <2> QED BY <2>1, <2>2, CalmStep
<1>16. ASSUME ReuseIslands PROVE HookOrder' /\ Follows'
  <2>1. Calm
    BY <1>16, <1>0 DEF ReuseIslands, Calm
  <2>2. HookOrder'
    BY <1>16, <1>0 DEF ReuseIslands, HookDone, Order, Gates, Applying, Discovering
  <2> QED BY <2>1, <2>2, CalmStep
<1>17. ASSUME WriteCompanions PROVE HookOrder' /\ Follows'
  <2>1. Calm
    BY <1>17, <1>0 DEF WriteCompanions, Calm
  <2>2. HookOrder'
    BY <1>17, <1>0 DEF WriteCompanions, HookDone, Order, Gates, Applying, Discovering
  <2> QED BY <2>1, <2>2, CalmStep
<1>18. ASSUME WriteIslandsEntry PROVE HookOrder' /\ Follows'
  <2>1. Calm
    BY <1>18, <1>0 DEF WriteIslandsEntry, stage_islands, PublicationStates, Calm
  <2>2. HookOrder'
    BY <1>18, <1>0 DEF WriteIslandsEntry, HookDone, Order, Gates, Applying, Discovering
  <2> QED BY <2>1, <2>2, CalmStep
<1>19. ASSUME NEW written \in SUBSET Files, IslandsFail(written) PROVE HookOrder' /\ Follows'
  <2>1. Calm
    BY <1>19, <1>0 DEF IslandsFail, Calm
  <2>2. HookOrder'
    BY <1>19, <1>0 DEF IslandsFail, HookDone, Order, Gates, Applying, Discovering
  <2> QED BY <2>1, <2>2, CalmStep
<1>20. ASSUME NEW moved \in BOOLEAN, Reload(moved) PROVE HookOrder' /\ Follows'
  <2>1. Calm
    BY <1>20, <1>0 DEF Reload, Calm
  <2>2. HookOrder'
    BY <1>20, <1>0 DEF Reload, HookDone, Order, Gates, Applying, Discovering
  <2> QED BY <2>1, <2>2, CalmStep
<1>21. ASSUME RefreshOrRenderFails PROVE HookOrder' /\ Follows'
  <2>1. Calm
    BY <1>21, <1>0 DEF RefreshOrRenderFails, Calm
  <2>2. HookOrder'
    BY <1>21, <1>0 DEF RefreshOrRenderFails, HookDone, Order, Gates, Applying, Discovering
  <2> QED BY <2>1, <2>2, CalmStep
<1>22. ASSUME NEW failing \in SUBSET Docs, RenderPages(failing) PROVE HookOrder' /\ Follows'
  <2>1. Calm
    BY <1>22, <1>0 DEF RenderPages, Calm
  <2>2. HookOrder'
    BY <1>22, <1>0 DEF RenderPages, HookDone, Order, Gates, Applying, Discovering
  <2> QED BY <2>1, <2>2, CalmStep
<1>23. ASSUME NEW failing \in SUBSET Docs, Prune(failing) PROVE HookOrder' /\ Follows'
  <2>1. Calm
    BY <1>23, <1>0 DEF Prune, Calm
  <2>2. HookOrder'
    BY <1>23, <1>0 DEF Prune, HookDone, Order, Gates, Applying, Discovering
  <2> QED BY <2>1, <2>2, CalmStep
<1>24. ASSUME NEW d \in Docs, WriteDocument(d) PROVE HookOrder' /\ Follows'
  <2>1. Calm
    BY <1>24, <1>0 DEF WriteDocument, Calm
  <2>2. HookOrder'
    BY <1>24, <1>0 DEF WriteDocument, HookDone, Order, Gates, Applying, Discovering
  <2> QED BY <2>1, <2>2, CalmStep
<1>25. ASSUME NEW d \in Docs, WriteDocumentFails(d) PROVE HookOrder' /\ Follows'
  <2>1. Calm
    BY <1>25, <1>0 DEF WriteDocumentFails, Calm
  <2>2. HookOrder'
    BY <1>25, <1>0 DEF WriteDocumentFails, HookDone, Order, Gates, Applying, Discovering
  <2> QED BY <2>1, <2>2, CalmStep
<1>26. ASSUME AllWritten PROVE HookOrder' /\ Follows'
  <2>1. Calm
    BY <1>26, <1>0 DEF AllWritten, Calm
  <2>2. HookOrder'
    BY <1>26, <1>0 DEF AllWritten, HookDone, Order, Gates, Applying, Discovering
  <2> QED BY <2>1, <2>2, CalmStep
<1>27. ASSUME Commit PROVE HookOrder' /\ Follows'
  <2>1. pc = "commit" /\ pc' = "close" /\ UNCHANGED <<req, exclusion, publock, scripts, disk>>
    BY <1>27 DEF Commit
  <2>2. exclusion = "tick"
    BY <2>1 DEF Order, Applying
  <2>3. CASE ~txn.relevant
    <3>1. Calm
      BY <1>27, <2>3 DEF Commit, Calm
    <3> QED BY <2>1, <3>1, CalmStep DEF Calm
  <2>4. CASE txn.relevant
    <3> DEFINE o == record_lazy_outputs(obl, ExistingStale)
    <3>1. Emit("tick", BoundaryEvent, pub, o)
      BY <1>27, <2>4 DEF Commit
    <3>2. BoundaryEvent \in Events
      BY DEF BoundaryEvent, Events, Commits, LazyRepairs
    <3>3. o \in ObligationStates
      BY <1>0 DEF record_lazy_outputs, ObligationStates, ExistingStale, TypeOK
    <3> HIDE DEF o
    <3>4. Moves("tick", pub, BoundaryEvent = Aborts)
      BY <1>0, <3>1, <3>2, <3>3, EmitMoves
    <3>5. Follows'
      BY <1>0, <2>1, <3>4, MoveStep
    <3>6. hook'["request"] = hook["request"]
      BY <1>0, <3>4 DEF Moves
    <3> QED BY <2>1, <2>2, <3>5, <3>6 DEF Order
  <2> QED BY <2>3, <2>4
<1>28. ASSUME Drop PROVE HookOrder' /\ Follows'
  <2>1. pc = "drop" /\ pc' = "close" /\ UNCHANGED <<req, exclusion, publock, scripts, disk>>
        /\ Emit("tick", txn.fallback, pub, obl)
    BY <1>28 DEF Drop
  <2>2. exclusion = "tick" /\ ~plan.boot /\ txn.relevant
    BY <2>1 DEF Order, Owed, Applying
  <2>3. txn.fallback \in Events
    BY <1>0, <2>1, <2>2 DEF Owed, Events, Fallbacks, TypeOK, Transactions, Applying
  <2>4. Moves("tick", pub, txn.fallback = Aborts)
    BY <1>0, <2>1, <2>3, EmitMoves
  <2>5. Follows'
    BY <1>0, <2>1, <2>4, MoveStep
  <2>6. hook'["request"] = hook["request"]
    BY <1>0, <2>4 DEF Moves
  <2> QED BY <2>1, <2>2, <2>5, <2>6 DEF Order
<1>29. ASSUME Close PROVE HookOrder' /\ Follows'
  <2>1. Calm
    BY <1>29, <1>0 DEF Close, Calm
  <2>2. HookOrder'
    BY <1>29, <1>0 DEF Close, HookDone, Order, Gates, Applying, Discovering
  <2> QED BY <2>1, <2>2, CalmStep
<1>30. ASSUME BootDocuments PROVE HookOrder' /\ Follows'
  <2> DEFINE event == IF live = {} THEN "CommitNotExpected" ELSE "CommitReadyOnRequest"
             p == begin_document_update(pub)
  <2>1. pc = "boot" /\ pc' = "close" /\ UNCHANGED <<req, exclusion, publock, disk>>
        /\ Emit("tick", event, p, obl) /\ scripts' = Scripts!begin(scripts)
    BY <1>30 DEF BootDocuments
  <2>2. event \in Events /\ event # Aborts
    BY DEF Events, Commits, Aborts
  <2>3. p \in PublicationStates /\ Coherent(p)
        /\ p.scripts = pub.scripts /\ p.staged_scripts = pub.staged_scripts
    BY <1>0, BeginType, BeginKeeps DEF Same
  <2>4. req = "idle"
    BY <2>1 DEF Order
  <2> HIDE DEF event, p
  <2>5. Moves("tick", p, FALSE)
    BY <1>0, <2>1, <2>2, <2>3, EmitMoves
  <2>6. Follows'
    BY <1>0, <2>1, <2>3, <2>5, LedgerFrames, MoveStep
  <2>7. hook'["request"] = hook["request"] /\ ~Aborting'
    BY <1>0, <2>1, <2>5 DEF Moves, Calls
  <2> QED BY <2>1, <2>4, <2>6, <2>7
<1>31. ASSUME BootFails PROVE HookOrder' /\ Follows'
  <2>1. pc = "boot" /\ pc' = "close" /\ UNCHANGED <<req, exclusion, publock, scripts, disk>>
        /\ Emit("tick", "LeavePending", pub, obl)
    BY <1>31 DEF BootFails
  <2>2. "LeavePending" \in Events /\ "LeavePending" # Aborts
    BY DEF Events, Fallbacks, Aborts
  <2>3. Moves("tick", pub, FALSE)
    BY <1>0, <2>1, <2>2, EmitMoves
  <2>4. Follows'
    BY <1>0, <2>1, <2>3, MoveStep
  <2>5. hook'["request"] = hook["request"] /\ ~Aborting'
    BY <1>0, <2>1, <2>3 DEF Moves, Calls
  <2> QED BY <2>1, <2>4, <2>5
<1>32. ASSUME NEW t \in Threads, CommitScripts(t) PROVE HookOrder' /\ Follows'
  <2>1. hook[t].pc = "scripts" /\ UNCHANGED <<pc, req, exclusion, publock>>
        /\ \A u \in Threads \ {t} : hook'[u] = hook[u]
    BY <1>32, <1>0 DEF CommitScripts
  <2>2. Follows' /\ (Aborting' <=> Aborting)
    BY <1>32, <1>0, CommitStep
  <2> QED BY <1>0, <2>1, <2>2 DEF Threads
<1>33. ASSUME NEW t \in Threads, CommitIslands(t) PROVE HookOrder' /\ Follows'
  <2>1. hook[t].pc = "islands" /\ UNCHANGED <<pc, req, exclusion, publock, pub, scripts>>
        /\ disk'.scripts = disk.scripts /\ hook'[t].pc = "none"
        /\ \A u \in Threads \ {t} : hook'[u] = hook[u]
    BY <1>33, <1>0 DEF CommitIslands, Returned
  <2>2. (Owing' <=> Owing) /\ (Aborting' <=> Aborting)
    BY <1>0, <2>1 DEF Owing
  <2>3. Follows'
    BY <2>1, <2>2 DEF Follows
  <2> QED BY <1>0, <2>1, <2>2, <2>3 DEF Threads
<1>34. ASSUME AbortLedgers PROVE HookOrder' /\ Follows'
  <2>1. UNCHANGED <<pc, req, exclusion, publock>> /\ hook'["tick"].pc = "none"
        /\ hook'["request"] = hook["request"]
    BY <1>34, <1>0 DEF AbortLedgers, Returned
  <2>2. Follows'
    BY <1>34, <1>0, AbortStep
  <2> QED BY <2>1, <2>2
<1>35. ASSUME RequestChecksGate PROVE HookOrder' /\ Follows'
  <2>1. Calm
    BY <1>35, <1>0 DEF RequestChecksGate, Calm
  <2>2. HookOrder'
    BY <1>35, <1>0 DEF RequestChecksGate, HookDone, Order, Gates, Applying, Discovering
  <2> QED BY <2>1, <2>2, CalmStep
<1>36. ASSUME RequestCommits PROVE HookOrder' /\ Follows'
  <2>1. req = "commit" /\ req' = "finish" /\ PublishRepair("request")
        /\ UNCHANGED <<pc, exclusion, scripts, disk>>
    BY <1>36 DEF RequestCommits
  <2>2. Moves("request", pub, FALSE) /\ ~Aborting
    BY <1>0, <2>1, RepairMoves
  <2>3. Follows'
    BY <1>0, <2>1, <2>2, MoveStep
  <2>4. hook'["tick"] = hook["tick"]
    BY <1>0, <2>2 DEF Moves
  <2> QED BY <2>1, <2>3, <2>4
<1>37. ASSUME RequestFinishes PROVE HookOrder' /\ Follows'
  <2>1. Calm
    BY <1>37, <1>0 DEF RequestFinishes, Calm
  <2>2. HookOrder'
    BY <1>37, <1>0 DEF RequestFinishes, HookDone, Order, Gates, Applying, Discovering
  <2> QED BY <2>1, <2>2, CalmStep
<1>38. CASE UNCHANGED vars
  <2>1. Calm /\ UNCHANGED <<hook, pc, req, exclusion, publock>>
    BY <1>38 DEF vars, Calm
  <2> QED BY <2>1, CalmStep
<1> HIDE DEF HookOrder, Aborting, control, locks, server, ledgers, documents
<1>d. CASE Discovery
  BY <1>d, <1>3, <1>4, <1>5, <1>6, <1>7, <1>8, <1>9, <1>10, <1>11 DEF Discovery
<1>e. CASE Entries
  BY <1>e, <1>13, <1>14, <1>15, <1>16, <1>17, <1>18, <1>19 DEF Entries
<1>p. CASE Pages
  BY <1>p, <1>20, <1>21, <1>22, <1>23, <1>24, <1>25, <1>26 DEF Pages
<1>k. CASE TickThread
  BY <1>k, <1>0, <1>d, <1>e, <1>p, <1>12, <1>27, <1>28, <1>29, <1>30, <1>31, <1>32, <1>33, <1>34 DEF TickThread
<1>r. CASE RequestThread
  BY <1>r, <1>0, <1>35, <1>36, <1>37, <1>32, <1>33 DEF RequestThread
<1> QED BY <1>1, <1>2, <1>k, <1>r, <1>38 DEF Next

LEMMA ScriptInit == Init => HookOrder /\ Follows
<1> SUFFICES ASSUME Init PROVE HookOrder /\ Follows
  OBVIOUS
<1>1. ~Owing /\ ~Aborting
  BY DEF Init, Owing, Aborting, Returned, Threads
<1>2. HookOrder
  BY <1>1 DEF Init, HookOrder, Returned, Threads
<1>3. Follows
  BY <1>1 DEF Init, Follows, Scripts!NewScriptLedger, pending, PendingSlot
<1> QED BY <1>2, <1>3

(* A client script that a response may name is on disk, while it is staged *)
(* and after it is published: ClientScriptCompanionLedger protects what    *)
(* DevPublicationState names, although every commit and every abort        *)
(* reaches the two one after the other.                                    *)
THEOREM ScriptsAreOnDisk == ~OverlappingAbort /\ Spec => []NamedScriptsOnDisk
<1> SUFFICES ASSUME ~OverlappingAbort PROVE Spec => []NamedScriptsOnDisk
  OBVIOUS
<1>1. Init => ScriptInv
  BY InitInv, ScriptInit DEF ScriptInv
<1>2. ScriptInv /\ [Next]_vars => ScriptInv'
  <2>1. Inv /\ [Next]_vars => Inv'
    <3> SUFFICES ASSUME Inv, [Next]_vars PROVE Inv'
      OBVIOUS
    <3> QED BY TypesStep, OrderStep, GatesStep, OwedStep DEF Inv
  <2> QED BY <2>1, ScriptStep DEF ScriptInv
<1>3. ScriptInv => NamedScriptsOnDisk
  BY DEF ScriptInv, Follows, NamedScriptsOnDisk
<1> QED BY <1>1, <1>2, <1>3, PTL DEF Spec

-----------------------------------------------------------------------------
(* The islands.  A build overwrites the one entry before its generation    *)
(* commits, so the invariant follows the generation of the entry on disk.  *)

Issued(slot) == slot # None /\ slot.kind = "Published"
Uses         == Names[disk.entry]
Due          == \E t \in Threads : hook[t].pc \in {"scripts", "islands"}
Latest       == Issued(pub.islands) => disk.entry # None /\ Uses = islands.live

(* The companions of the entry are on disk.  While its generation is not   *)
(* committed they are candidates; afterwards they are live, or the first   *)
(* of the retained generations once no islands are left.                   *)
Guarded ==
  /\ disk.phase = "staged" => disk.entry # None /\ Uses \subseteq disk.files \cap islands.unresolved
  /\ disk.phase = "live" /\ disk.entry # None =>
       /\ Uses \subseteq disk.files
       /\ \/ Uses = islands.live
          \/ islands.live = {} /\ islands.retained # <<>> /\ islands.retained[1] = Uses
  /\ disk.phase # "staged" /\ islands.staged # None => islands.staged = {}
  /\ pc = "entry" => Names[site.islands] \subseteq disk.files \cap islands.unresolved

(* What a slot says of the generation that the ledger has staged. *)
Stages(slot) ==
  /\ islands.staged # None
  /\ Issued(slot) => disk.phase = "staged" /\ islands.staged = Uses
  /\ ~Issued(slot) => islands.staged = {}

(* The state and the ledger name the same generations; between the two     *)
(* halves of a commit the ledger is one behind.                            *)
Tracks ==
  /\ \A slot \in {pub.islands, pub.staged_islands, pub.retained} : Issued(slot) => disk.entry # None
  /\ disk.phase = "orphan" => ~Issued(pub.islands)
  /\ pub.staged_islands # None => Stages(pub.staged_islands)
  /\ Aborting \/ Due => pub.staged_islands = None
  /\ islands.staged # None /\ pub.staged_islands = None => Aborting \/ Due
  /\ Due => IF islands.staged # None THEN Stages(pub.islands)
            ELSE Latest /\ (Issued(pub.islands) => disk.phase = "live")
  /\ ~Due => /\ disk.phase # "staged" => Latest
             /\ disk.phase = "staged" /\ pub.staged_islands = None => ~Issued(pub.islands)

(* An abort finds no entry of its own transaction: such an entry changed   *)
(* the fallback, or left something unsettled, and then nothing is aborted. *)
Dirty == pc \in Applying /\ (plan.boot \/ (txn.relevant /\ txn.fallback # Aborts))
Based == Uses \subseteq islands.baseline
Menaced == disk.phase = "staged" /\ (Issued(pub.islands) \/ Issued(pub.staged_islands))
Risks ==
  /\ pub.staged_islands # None => pub.documents = "Pending"
  /\ Menaced => Unsettled(pub) \/ Dirty \/ Due \/ pc = "boot"
  /\ disk.phase = "staged" =>
       /\ Aborting => Based
       /\ txn.began /\ pc \in {"open", "discover", "abort"} => Based
       /\ pc = "enter" /\ gate.pending => Based \/ Unsettled(pub) \/ gate.lazy
       /\ pc \in Applying /\ txn.fallback = Aborts => Based \/ Unsettled(pub)

IslandsInv == ScriptInv /\ Guarded /\ Tracks /\ Risks

-----------------------------------------------------------------------------
(* Steps of the islands *)

(* Neither the state's islands nor the ledger's generations move. *)
Quiet ==
  /\ UNCHANGED hook
  /\ pub'.islands = pub.islands /\ pub'.staged_islands = pub.staged_islands /\ pub'.retained = pub.retained
  /\ islands'.live = islands.live /\ islands'.staged = islands.staged /\ islands'.retained = islands.retained
  /\ islands.unresolved \subseteq islands'.unresolved
  /\ disk.files \subseteq disk'.files /\ disk'.entry = disk.entry /\ disk'.phase = disk.phase
  /\ pc' = "entry" => \/ pc = "entry" /\ site' = site
                      \/ Names[site'.islands] \subseteq disk'.files \cap islands'.unresolved

LEMMA QuietStep == Guarded /\ Tracks /\ Quiet => Guarded' /\ Tracks'
<1> SUFFICES ASSUME Guarded, Tracks, Quiet PROVE Guarded' /\ Tracks'
  OBVIOUS
<1>1. (Due' <=> Due) /\ (Aborting' <=> Aborting) /\ Uses' = Uses
  BY DEF Quiet, Due, Aborting, Uses
<1>2. Guarded'
  BY <1>1 DEF Guarded, Quiet
<1>3. Tracks'
  BY <1>1 DEF Tracks, Quiet, Latest, Stages, Issued
<1> QED BY <1>2, <1>3

(* A hook call on the state. *)
LEMMA MoveIslands ==
  ASSUME TypeOK, Guarded, Tracks, NEW t \in Threads, NEW p \in PublicationStates, NEW aborts,
         Moves(t, p, aborts), Same(p, pub), hook[t].pc = "none", ~Aborting,
         islands'.live = islands.live, islands'.staged = islands.staged,
         islands'.retained = islands.retained, islands'.unresolved = islands.unresolved,
         disk' = disk, pc' # "entry",
         aborts /\ ~Unsettled(p) /\ disk.phase = "staged" /\ Issued(pub.islands) => Due
  PROVE  Guarded' /\ Tracks'
<1>1. PICK h \in Calls :
        /\ hook' = [hook EXCEPT ![t] = h]
        /\ h.pc = "none" => Same(pub', p)
        /\ h.pc = "scripts" => Moved(pub', p)
        /\ h.pc = "abort" => t = "tick" /\ aborts /\ Rid(pub', p) /\ ~Unsettled(p)
  BY DEF Moves
<1>2. /\ hook'[t] = h /\ \A u \in Threads \ {t} : hook'[u] = hook[u]
      /\ "tick" \in Threads
  BY <1>1 DEF TypeOK, Threads
<1>3. Guarded'
  BY DEF Guarded, Uses
<1>4. Uses' = Uses /\ disk' = disk
  BY DEF Uses
<1>5. CASE h.pc = "none"
  <2>1. (Due' <=> Due) /\ ~Aborting'
    BY <1>2, <1>5 DEF Due, Aborting
  <2>2. pub'.islands = pub.islands /\ pub'.staged_islands = pub.staged_islands /\ pub'.retained = pub.retained
    BY <1>1, <1>5 DEF Same
  <2>3. Tracks'
    BY <1>4, <2>1, <2>2 DEF Tracks, Latest, Stages, Issued
  <2> QED BY <1>3, <2>3
<1>6. CASE h.pc = "scripts"
  <2>1. Due' /\ ~Aborting'
    BY <1>2, <1>6 DEF Due, Aborting
  <2>2. /\ pub'.staged_islands = None /\ pub'.retained \in {None, pub.retained, pub.islands}
        /\ pub'.islands = IF pub.staged_islands = None THEN pub.islands ELSE pub.staged_islands
    BY <1>1, <1>6 DEF Moved, Same
  <2>3. CASE pub.staged_islands # None
    <3>1. pub'.islands = pub.staged_islands /\ Stages(pub.staged_islands)
      BY <2>2, <2>3 DEF Tracks
    <3>2. islands'.staged # None /\ Stages(pub.islands)'
      BY <1>4, <3>1 DEF Stages, Issued
    <3>3. Tracks'
      BY <1>4, <2>1, <2>2, <3>1, <3>2 DEF Tracks, Issued, Stages
    <3> QED BY <1>3, <3>3
  <2>4. CASE pub.staged_islands = None
    <3>1. pub'.islands = pub.islands
      BY <2>2, <2>4
    <3>2. IF islands.staged # None THEN Stages(pub.islands)
          ELSE Latest /\ (Issued(pub.islands) => disk.phase = "live")
      <4>1. CASE Due
        BY <4>1 DEF Tracks
      <4>2. CASE ~Due
        <5>1. disk.phase \in {"staged", "live", "orphan"}
          BY DEF TypeOK, Disks
        <5> QED BY <2>4, <4>2, <5>1 DEF Tracks, Latest
      <4> QED BY <4>1, <4>2
    <3>3. Tracks'
      BY <1>4, <2>1, <2>2, <3>1, <3>2 DEF Tracks, Issued, Stages, Latest
    <3> QED BY <1>3, <3>3
  <2> QED BY <2>3, <2>4
<1>7. CASE h.pc = "abort"
  <2>1. (Due' <=> Due) /\ Aborting'
    BY <1>1, <1>2, <1>7 DEF Due, Aborting
  <2>2. /\ pub'.staged_islands = None /\ pub'.islands = pub.islands /\ pub'.retained = pub.retained
        /\ disk.phase = "staged" /\ Issued(pub.islands) => Due
    BY <1>1, <1>7 DEF Rid, Same
  <2>3. Tracks'
    BY <1>4, <2>1, <2>2 DEF Tracks, Issued, Stages, Latest
  <2> QED BY <1>3, <2>3
<1> QED BY <1>5, <1>6, <1>7 DEF Calls

(* A commit keeps the youngest retained generation, and deletes nothing    *)
(* that is live or retained after it.                                      *)
LEMMA PromotedGenerations ==
  ASSUME NEW l \in Islands!IslandsLedgers
  PROVE  LET n == Islands!Promoted(l)
         IN  /\ n \in Islands!IslandsLedgers /\ n.staged = None /\ n.unresolved = l.unresolved
             /\ n.baseline = l.baseline
             /\ l.staged = None => n = l
             /\ l.staged # None => n.live = l.staged
             /\ l.staged # None /\ l.live # {} /\ l.live # l.staged =>
                  n.retained # <<>> /\ n.retained[1] = l.live
             /\ l.live = {} \/ l.live = l.staged => n.retained = l.retained
<1> DEFINE n == Islands!Promoted(l)
<1>0. /\ l.live \in SUBSET Files /\ l.retained \in Seq(SUBSET Files)
      /\ l.staged \in (SUBSET Files) \cup {None} /\ l.staged_token \in Builds \cup {None}
  BY DEF Islands!IslandsLedgers
<1>1. CASE l.staged = None
  <2>1. n = l
    BY <1>1 DEF Islands!Promoted
  <2>2. l.live # l.staged
    BY <1>0, <1>1, NoneAssumption
  <2> QED BY <1>1, <2>1, <2>2
<1>2. CASE l.staged # None
  <2> DEFINE r == IF l.live # {} /\ l.live # l.staged THEN <<l.live>> \o l.retained ELSE l.retained
  <2>1. r \in Seq(SUBSET Files)
    BY <1>0, PushType
  <2>2. l.live # {} /\ l.live # l.staged => r # <<>> /\ r[1] = l.live
    <3>1. <<l.live>> \in Seq(SUBSET Files) /\ Len(<<l.live>>) = 1 /\ <<l.live>>[1] = l.live
      BY <1>0
    <3>2. (<<l.live>> \o l.retained)[1] = l.live /\ Len(<<l.live>> \o l.retained) = 1 + Len(l.retained)
      BY <1>0, <3>1, ConcatProperties
    <3>3. <<l.live>> \o l.retained # <<>>
      BY <1>0, <3>2, LenProperties
    <3> QED BY <3>2, <3>3
  <2>3. n = [l EXCEPT !.live = l.staged, !.staged = None, !.token = l.staged_token,
                      !.staged_token = None, !.retained = r]
    BY <1>2 DEF Islands!Promoted
  <2> HIDE DEF n
  <2>4. l.live = {} \/ l.live = l.staged => r = l.retained
    OBVIOUS
  <2> HIDE DEF r
  <2>5. n \in Islands!IslandsLedgers /\ n.live = l.staged /\ n.staged = None /\ n.retained = r
        /\ n.unresolved = l.unresolved /\ n.baseline = l.baseline
    BY <1>0, <1>2, <2>1, <2>3 DEF Islands!IslandsLedgers
  <2> QED BY <1>2, <2>2, <2>4, <2>5 DEF n
<1> QED BY <1>1, <1>2

LEMMA KeptGenerations ==
  ASSUME NEW l \in Islands!IslandsLedgers, NEW preserve \in BOOLEAN
  PROVE  LET n == Islands!Promoted(l)
             k == Islands!commit_islands(l, preserve)
             gone == Islands!PrunedIslands(l, preserve)
         IN  /\ k.live = n.live /\ k.staged = None /\ k.baseline = l.baseline
             /\ gone \cap k.live = {}
             /\ preserve => gone = {} /\ l.unresolved \subseteq k.unresolved
             /\ n.retained # <<>> => /\ k.retained # <<>> /\ k.retained[1] = n.retained[1]
                                     /\ gone \cap k.retained[1] = {}
<1> DEFINE n == Islands!Promoted(l)
           k == Islands!commit_islands(l, preserve)
           gone == Islands!PrunedIslands(l, preserve)
<1>0. /\ n \in Islands!IslandsLedgers /\ n.staged = None
      /\ n.unresolved = l.unresolved /\ n.baseline = l.baseline
  BY PromotedGenerations
<1>1. n.retained \in Seq(SUBSET Files)
  BY <1>0 DEF Islands!IslandsLedgers
<1>2. gone \cap (k.live \cup Islands!Retained(k)) = {} /\ (preserve => gone = {})
  <2>1. CASE preserve
    BY <2>1 DEF Islands!PrunedIslands
  <2>2. CASE ~preserve
    BY <2>2 DEF Islands!PrunedIslands
  <2> QED BY <2>1, <2>2
<1> HIDE DEF gone
<1>3. CASE preserve
  <2>1. k = [n EXCEPT !.unresolved = n.unresolved \cup n.live \cup Islands!Retained(n)]
    BY <1>3 DEF Islands!commit_islands
  <2> HIDE DEF n, k
  <2>2. k.live = n.live /\ k.staged = None /\ k.retained = n.retained /\ l.unresolved \subseteq k.unresolved
        /\ k.baseline = l.baseline
    BY <1>0, <2>1 DEF Islands!IslandsLedgers
  <2> QED BY <1>2, <1>3, <2>2 DEF n, k, gone
<1>4. CASE ~preserve
  <2> DEFINE m == IF Len(n.retained) < RetainedIslands THEN Len(n.retained) ELSE RetainedIslands
             s == SubSeq(n.retained, 1, m)
  <2>1. k = [n EXCEPT !.unresolved = {}, !.retained = s]
    BY <1>4 DEF Islands!commit_islands, Islands!Youngest
  <2>2. k.live = n.live /\ k.staged = None /\ k.retained = s /\ k.baseline = l.baseline
    <3> HIDE DEF n, k, s
    <3> QED BY <1>0, <2>1 DEF Islands!IslandsLedgers
  <2>3. n.retained # <<>> => s # <<>> /\ s[1] = n.retained[1] /\ 1 \in DOMAIN s
    <3> SUFFICES ASSUME n.retained # <<>> PROVE s # <<>> /\ s[1] = n.retained[1] /\ 1 \in DOMAIN s
      OBVIOUS
    <3> HIDE DEF n
    <3>1. Len(n.retained) \in Nat \ {0} /\ RetainedIslands \in Nat \ {0}
      BY <1>1, EmptySeq, LenProperties, PublicationAssumption, RetentionAssumption
    <3>2. m \in 1..Len(n.retained)
      BY <3>1
    <3> HIDE DEF m
    <3>3. \A i \in 1..m : n.retained[i] \in SUBSET Files
      BY <1>1, <3>1, <3>2, ElementOfSeq
    <3>4. s \in Seq(SUBSET Files) /\ Len(s) = (IF 1 <= m THEN m - 1 + 1 ELSE 0)
          /\ \A i \in 1..(m - 1 + 1) : s[i] = n.retained[1 + i - 1]
      BY <3>1, <3>2, <3>3, SubSeqProperties
    <3>5. Len(s) = m /\ s[1] = n.retained[1] /\ m >= 1
      BY <3>1, <3>2, <3>4
    <3> HIDE DEF s
    <3> QED BY <3>1, <3>2, <3>4, <3>5, LenProperties
  <2> HIDE DEF n, k, s
  <2>4. n.retained # <<>> => k.retained # <<>> /\ k.retained[1] = n.retained[1]
                             /\ k.retained[1] \subseteq Islands!Retained(k)
    BY <2>2, <2>3 DEF Islands!Retained
  <2> QED BY <1>2, <1>4, <2>2, <2>4 DEF n, k, gone
<1> QED BY <1>3, <1>4

(* The second half of a commit.  No islands are left: the generation that  *)
(* was live becomes the first of the retained ones.                        *)
LEMMA CommitIslandsStep ==
  ASSUME TypeOK, Guarded, Tracks, NEW t \in Threads, CommitIslands(t), pc # "entry"
  PROVE  Guarded' /\ Tracks'
<1> DEFINE l == islands
           preserve == hook[t].preserve
           n == Islands!Promoted(l)
           k == Islands!commit_islands(l, preserve)
           gone == Islands!PrunedIslands(l, preserve)
<1>0. /\ islands' = k /\ UNCHANGED <<pub, pc, site>> /\ disk'.files = disk.files \ gone
      /\ disk'.entry = disk.entry /\ disk'.phase = PhaseAfter(preserve)
      /\ l \in Islands!IslandsLedgers /\ preserve \in BOOLEAN /\ pub \in PublicationStates
      /\ disk.phase \in {"staged", "live", "orphan"}
  BY DEF CommitIslands, TypeOK, server, Disks
<1>1. /\ \A u \in Threads \ {t} : hook'[u] = hook[u]
      /\ hook'[t].pc = "none" /\ hook[t].pc = "islands"
  BY DEF CommitIslands, TypeOK, Returned
<1>2. Due /\ (Aborting' <=> Aborting) /\ Uses' = Uses
  BY <1>0, <1>1 DEF Due, Aborting, Uses, Threads
<1>3. /\ n.staged = None /\ (l.staged = None => n = l) /\ (l.staged # None => n.live = l.staged)
      /\ l.staged # None /\ l.live # {} /\ l.live # l.staged => n.retained # <<>> /\ n.retained[1] = l.live
      /\ l.live = {} \/ l.live = l.staged => n.retained = l.retained
  BY <1>0, PromotedGenerations
<1>4. /\ k.live = n.live /\ k.staged = None /\ gone \cap k.live = {}
      /\ preserve => gone = {} /\ l.unresolved \subseteq k.unresolved
      /\ n.retained # <<>> => k.retained # <<>> /\ k.retained[1] = n.retained[1] /\ gone \cap k.retained[1] = {}
  BY <1>0, KeptGenerations
<1> HIDE DEF n, k, gone, preserve
<1>5. /\ \A slot \in {pub.islands, pub.staged_islands, pub.retained} : Issued(slot) => disk.entry # None
      /\ pub.staged_islands = None /\ (disk.phase = "orphan" => ~Issued(pub.islands))
      /\ IF l.staged # None THEN Stages(pub.islands)
         ELSE Latest /\ (Issued(pub.islands) => disk.phase = "live")
  BY <1>2 DEF Tracks
<1>6. CASE Issued(pub.islands)
  <2>1. disk'.phase = "live"
    BY <1>0, <1>6 DEF PhaseAfter, Issued
  <2>2. disk.entry # None /\ k.live = Uses /\ Uses \subseteq disk.files
    <3>1. CASE l.staged # None
      <4>1. disk.phase = "staged" /\ l.staged = Uses
        BY <1>5, <1>6, <3>1 DEF Stages
      <4> QED BY <1>3, <1>4, <3>1, <4>1 DEF Guarded
    <3>2. CASE l.staged = None
      <4>1. disk.phase = "live" /\ disk.entry # None /\ l.live = Uses
        BY <1>5, <1>6, <3>2 DEF Latest
      <4> QED BY <1>3, <1>4, <3>2, <4>1 DEF Guarded
    <3> QED BY <3>1, <3>2
  <2>3. Guarded'
    BY <1>0, <1>2, <1>4, <2>1, <2>2 DEF Guarded
  <2>4. Latest' /\ Issued(pub'.islands)
    BY <1>0, <1>2, <1>6, <2>2 DEF Latest
  <2>5. Tracks'
    BY <1>0, <1>2, <1>4, <1>5, <2>1, <2>2, <2>4 DEF Tracks, Issued
  <2> QED BY <2>3, <2>5
<1>7. CASE ~Issued(pub.islands)
  <2>1. pub.islands.kind # "Published"
    <3>1. pub.islands \in AssetSlots
      BY <1>0 DEF PublicationStates
    <3> QED BY <1>7, <3>1, NoneAssumption DEF Issued
  <2>2. disk'.phase = IF disk.phase = "staged" /\ ~preserve THEN "orphan" ELSE disk.phase
    BY <1>0, <2>1 DEF PhaseAfter
  <2>3. l.staged # None => l.staged = {}
    BY <1>5, <1>7 DEF Stages
  <2>4. ASSUME disk.phase = "live", disk.entry # None
        PROVE  /\ Uses \subseteq disk'.files
               /\ Uses = k.live \/ (k.live = {} /\ k.retained # <<>> /\ k.retained[1] = Uses)
    <3>1. /\ Uses \subseteq disk.files
          /\ Uses = l.live \/ (l.live = {} /\ l.retained # <<>> /\ l.retained[1] = Uses)
      BY <2>4 DEF Guarded
    <3>2. Uses = n.live \/ (n.live = {} /\ n.retained # <<>> /\ n.retained[1] = Uses)
      <4>1. CASE l.staged = None
        BY <1>3, <3>1, <4>1
      <4>2. CASE l.staged # None
        BY <1>3, <2>3, <3>1, <4>2
      <4> QED BY <4>1, <4>2
    <3> QED BY <1>0, <1>4, <3>1, <3>2
  <2>5. Guarded'
    <3>1. disk'.phase = "staged" => disk'.entry # None /\ Uses' \subseteq disk'.files \cap islands'.unresolved
      BY <1>0, <1>2, <1>4, <2>2 DEF Guarded
    <3>2. disk'.phase = "live" => disk.phase = "live"
      BY <1>0, <2>2
    <3> QED BY <1>0, <1>2, <1>4, <2>4, <3>1, <3>2 DEF Guarded
  <2>6. Tracks'
    BY <1>0, <1>2, <1>4, <1>5, <1>7, <2>1 DEF Tracks, Latest, Issued, Stages
  <2> QED BY <2>5, <2>6
<1> QED BY <1>6, <1>7

(* The second half of an abort: the candidates of the transaction go, and  *)
(* an entry that is still staged is older than it.                         *)
LEMMA AbortIslandsStep ==
  ASSUME TypeOK, Guarded, Tracks, AbortLedgers, HookDone("request"), pc # "entry",
         disk.phase = "staged" => Based
  PROVE  Guarded' /\ Tracks'
<1> DEFINE l == islands
           a == Islands!abort_islands(l)
           gone == Islands!AbortedIslands(l)
<1>0. /\ islands' = a /\ UNCHANGED <<pub, pc, site>> /\ disk'.files = disk.files \ gone
      /\ disk'.entry = disk.entry /\ disk'.phase = disk.phase
      /\ l \in Islands!IslandsLedgers /\ disk.phase \in {"staged", "live", "orphan"}
  BY DEF AbortLedgers, TypeOK, server, Disks
<1>1. /\ hook'["request"] = hook["request"] /\ hook'["tick"].pc = "none"
      /\ hook["tick"].pc = "abort" /\ hook["request"].pc = "none"
  BY DEF AbortLedgers, TypeOK, Returned, Threads, HookDone
<1>2. ~Due /\ ~Due' /\ Aborting /\ ~Aborting' /\ Uses' = Uses
  BY <1>0, <1>1 DEF Due, Aborting, Uses, Threads
<1>3. /\ a.live = l.live /\ a.staged = None /\ a.retained = l.retained /\ a.unresolved = l.baseline
  BY <1>0 DEF Islands!abort_islands, Islands!IslandsLedgers
<1>4. gone \cap (l.baseline \cup l.live \cup Islands!Retained(l)) = {}
  BY DEF Islands!AbortedIslands
<1>5. l.retained # <<>> => l.retained[1] \subseteq Islands!Retained(l)
  <2> SUFFICES ASSUME l.retained # <<>> PROVE 1 \in DOMAIN l.retained
    BY DEF Islands!Retained
  <2>1. l.retained \in Seq(SUBSET Files)
    BY <1>0 DEF Islands!IslandsLedgers
  <2>2. Len(l.retained) \in Nat \ {0} /\ DOMAIN l.retained = 1 .. Len(l.retained)
    BY <2>1, EmptySeq, LenProperties
  <2> QED BY <2>2
<1> HIDE DEF a, gone
<1>6. Guarded'
  <2>1. disk.phase = "staged" => Uses \subseteq disk'.files \cap a.unresolved
    BY <1>0, <1>3, <1>4 DEF Guarded, Based
  <2>2. disk.phase = "live" /\ disk.entry # None => Uses \subseteq disk'.files
    BY <1>0, <1>4, <1>5 DEF Guarded
  <2> QED BY <1>0, <1>2, <1>3, <2>1, <2>2 DEF Guarded
<1>7. Tracks'
  BY <1>0, <1>2, <1>3 DEF Tracks, Latest, Issued
<1> QED BY <1>6, <1>7

(* The builds of an apply: no hook call is under way. *)
LEMMA NoCalls ==
  ASSUME Order, HookOrder, pc \in Applying \cup {"boot"}
  PROVE  /\ ~Due /\ ~Aborting /\ hook["tick"].pc = "none" /\ hook["request"].pc = "none"
         /\ req = "idle"
<1>1. req = "idle"
  BY DEF Order, Applying
<1>2. hook["tick"].pc = "none" /\ hook["request"].pc = "none"
  BY <1>1 DEF HookOrder, Applying
<1> QED BY <1>1, <1>2 DEF Due, Aborting, Threads

LEMMA NoIslandsStep ==
  ASSUME TypeOK, Guarded, Tracks, NoIslandsLeft, ~Due, ~Aborting
  PROVE  Guarded' /\ Tracks'
<1>0. /\ islands \in Islands!IslandsLedgers /\ pub \in PublicationStates
      /\ pub' = stage_islands(pub, {}) /\ islands' = Islands!stage(islands, {})
      /\ UNCHANGED <<disk, hook>> /\ pc' # "entry"
  BY DEF NoIslandsLeft, TypeOK, AfterIslands, AfterReload
<1>1. /\ islands'.live = islands.live /\ islands'.staged = {} /\ islands'.retained = islands.retained
      /\ islands'.unresolved = islands.unresolved /\ {} # None
  BY <1>0, NoneAssumption DEF Islands!stage, Islands!IslandsLedgers
<1>2. /\ pub'.islands = pub.islands /\ pub'.retained = pub.retained
      /\ pub'.staged_islands # None /\ ~Issued(pub'.staged_islands)
  BY <1>0, SlotType, NoneAssumption DEF stage_islands, PublicationStates, slot_from_urls, Issued
<1>3. ~Due' /\ ~Aborting' /\ Uses' = Uses
  BY <1>0 DEF Due, Aborting, Uses
<1>4. Guarded'
  BY <1>0, <1>1, <1>3 DEF Guarded
<1>5. Tracks'
  BY <1>0, <1>1, <1>2, <1>3 DEF Tracks, Latest, Stages, Issued
<1> QED BY <1>4, <1>5

LEMMA EntryStep ==
  ASSUME TypeOK, Guarded, Tracks, WriteIslandsEntry, ~Due, ~Aborting, site.islands # None
  PROVE  Guarded' /\ Tracks' /\ Issued(pub'.staged_islands)
<1>0. /\ islands \in Islands!IslandsLedgers /\ pub \in PublicationStates /\ site.islands \in Builds
      /\ pub' = stage_islands(pub, {IslandsUrl})
      /\ islands' = Islands!stage_build(islands, Names[site.islands], site.islands)
      /\ disk'.entry = site.islands /\ disk'.phase = "staged" /\ disk'.files = disk.files
      /\ UNCHANGED hook /\ pc = "entry" /\ pc' # "entry"
  BY DEF WriteIslandsEntry, TypeOK, AfterIslands, AfterReload, SiteType, Disks
<1>1. /\ islands'.staged = Names[site.islands] /\ islands'.unresolved = islands.unresolved
      /\ islands'.staged # None
  BY <1>0, NoneAssumption, PublicationAssumption DEF Islands!stage_build, Islands!IslandsLedgers
<1>2. Issued(pub'.staged_islands)
  <2>1. slot_from_urls({IslandsUrl}) \in AssetSlots /\ slot_from_urls({IslandsUrl}).kind = "Published"
    BY SlotType, PublicationAssumption DEF slot_from_urls
  <2>2. pub'.staged_islands = slot_from_urls({IslandsUrl})
    BY <1>0 DEF stage_islands, PublicationStates
  <2> QED BY <2>1, <2>2, NoneAssumption DEF Issued
<1>3. ~Due' /\ ~Aborting' /\ Uses' = Names[site.islands]
  BY <1>0 DEF Due, Aborting, Uses
<1>4. Guarded'
  BY <1>0, <1>1, <1>3 DEF Guarded
<1>5. Tracks'
  <2>1. Stages(pub.staged_islands)'
    BY <1>0, <1>1, <1>2, <1>3 DEF Stages, Issued
  <2>2. disk'.entry # None /\ pub'.staged_islands # None
    BY <1>0, <1>2 DEF Issued
  <2> QED BY <1>0, <1>3, <2>1, <2>2 DEF Tracks
<1> QED BY <1>2, <1>4, <1>5

(* What a ledger operation leaves alone. *)
LEMMA IslandFrames ==
  ASSUME TypeOK
  PROVE  /\ Islands!begin(islands).live = islands.live
         /\ Islands!begin(islands).staged = islands.staged
         /\ Islands!begin(islands).retained = islands.retained
         /\ Islands!begin(islands).unresolved = islands.unresolved
         /\ Islands!begin(islands).baseline = islands.unresolved
         /\ \A names : LET l == Islands!track_candidate(islands, names)
                       IN  /\ l.live = islands.live /\ l.staged = islands.staged
                           /\ l.retained = islands.retained /\ l.baseline = islands.baseline
                           /\ l.unresolved = islands.unresolved \cup names
         /\ \A l \in {islands} \cup {Islands!track_candidate(islands, names) : names \in SUBSET Files} :
              LET i == Islands!invalidate_build_reuse(l)
              IN  /\ i.live = islands.live /\ i.staged = islands.staged
                  /\ i.retained = islands.retained /\ i.baseline = islands.baseline
                  /\ islands.unresolved \subseteq i.unresolved
BY DEF TypeOK, Islands!IslandsLedgers, Islands!begin, Islands!track_candidate, Islands!invalidate_build_reuse

LEMMA IslandStep ==
  ASSUME Inv, HookOrder, Guarded, Tracks, Risks, [Next]_vars, ~OverlappingAbort
  PROVE  Guarded' /\ Tracks'
<1>0. /\ TypeOK /\ pub \in PublicationStates /\ obl \in ObligationStates /\ pc \in Places /\ Coherent(pub)
      /\ islands \in Islands!IslandsLedgers /\ disk \in Disks /\ Order /\ Gates /\ Owed
      /\ "tick" \in Threads /\ "request" \in Threads
  BY DEF Inv, Types, TypeOK, Threads
<1>e. pc = "entry" => ~Due /\ ~Aborting
  BY <1>0, NoCalls DEF Applying
<1>s. Same(pub, pub)
  BY DEF Same
<1> USE DEF Quiet, control, locks, server, ledgers, documents
<1>1. ASSUME NEW s \in Sites, NEW p \in Batches, StartTick(s, p) PROVE Guarded' /\ Tracks'
  BY <1>1, <1>0, QuietStep DEF StartTick
<1>2. ASSUME NEW d \in Docs, NEW proven \in BOOLEAN, RequestWrites(d, proven) PROVE Guarded' /\ Tracks'
  BY <1>2, <1>0, QuietStep DEF RequestWrites
<1>3. ASSUME RaiseGate PROVE Guarded' /\ Tracks'
  BY <1>3, <1>0, QuietStep DEF RaiseGate
<1>4. ASSUME DiscoveryBeginsLedgers PROVE Guarded' /\ Tracks'
  BY <1>4, <1>0, QuietStep, IslandFrames DEF DiscoveryBeginsLedgers
<1>5. ASSUME DiscoveryBeginsState PROVE Guarded' /\ Tracks'
  BY <1>5, <1>0, QuietStep, BeginKeeps DEF DiscoveryBeginsState, Same
<1>6. ASSUME NEW moved \in BOOLEAN, Discover(moved) PROVE Guarded' /\ Tracks'
  BY <1>6, <1>0, QuietStep DEF Discover
<1>7. ASSUME DiscoverFails PROVE Guarded' /\ Tracks'
  BY <1>7, <1>0, QuietStep DEF DiscoverFails
<1>8. ASSUME DiscoveryAborts PROVE Guarded' /\ Tracks'
  <2>1. Emit("tick", Aborts, pub, obl) /\ pc = "abort" /\ pc' = "aborted" /\ UNCHANGED <<islands, disk, site>>
    BY <1>8 DEF DiscoveryAborts
  <2>2. Aborts \in Events
    BY DEF Events, Fallbacks, Aborts
  <2>3. Moves("tick", pub, TRUE)
    BY <1>0, <2>1, <2>2, EmitMoves
  <2>4. hook["tick"].pc = "none" /\ ~Aborting
    BY <2>1 DEF HookOrder, Aborting
  <2>5. Menaced => Unsettled(pub) \/ Due
    BY <2>1 DEF Risks, Dirty, Applying
  <2> QED BY <1>0, <1>s, <2>1, <2>3, <2>4, <2>5, MoveIslands DEF Menaced
<1>9. ASSUME ReleaseGate PROVE Guarded' /\ Tracks'
  BY <1>9, <1>0, QuietStep DEF ReleaseGate
<1>10. ASSUME TakeRepair PROVE Guarded' /\ Tracks'
  BY <1>10, <1>0, QuietStep DEF TakeRepair
<1>11. ASSUME ReplayRepair PROVE Guarded' /\ Tracks'
  <2>1. PublishRepair("tick") /\ pc = "replay_commit" /\ pc' = "close" /\ UNCHANGED <<islands, disk, site>>
    BY <1>11 DEF ReplayRepair
  <2>2. Moves("tick", pub, FALSE)
    BY <1>0, <2>1, RepairMoves
  <2>3. hook["tick"].pc = "none" /\ ~Aborting
    BY <2>1 DEF HookOrder, Aborting
  <2> QED BY <1>0, <1>s, <2>1, <2>2, <2>3, MoveIslands
<1>12. ASSUME Enter PROVE Guarded' /\ Tracks'
  BY <1>12, <1>0, QuietStep, IslandFrames, BeginKeeps DEF Enter, AfterEnter, AfterScripts, AfterIslands, AfterReload, Same
<1>13. ASSUME NEW changed \in BOOLEAN, BuildScripts(changed) PROVE Guarded' /\ Tracks'
  BY <1>13, <1>0, QuietStep DEF BuildScripts, stage_scripts, PublicationStates, Disks, AfterScripts, AfterIslands, AfterReload
<1>14. ASSUME NEW unsafe \in SUBSET ScriptFiles, BuildScriptsFails(unsafe) PROVE Guarded' /\ Tracks'
  BY <1>14, <1>0, QuietStep DEF BuildScriptsFails, Disks, AfterScripts, AfterIslands, AfterReload
<1>15. ASSUME NoIslandsLeft PROVE Guarded' /\ Tracks'
  <2>1. pc = "islands"
    BY <1>15 DEF NoIslandsLeft
  <2>2. ~Due /\ ~Aborting
    BY <1>0, <2>1, NoCalls DEF Applying
  <2> QED BY <1>0, <1>15, <2>2, NoIslandsStep
<1>16. ASSUME ReuseIslands PROVE Guarded' /\ Tracks'
  BY <1>16, <1>0, QuietStep DEF ReuseIslands, AfterIslands, AfterReload
<1>17. ASSUME WriteCompanions PROVE Guarded' /\ Tracks'
  <2>1. Names[site.islands] \subseteq disk'.files \cap islands'.unresolved
    BY <1>17, <1>0, IslandFrames DEF WriteCompanions, Disks
  <2> QED BY <1>17, <1>0, <2>1, IslandFrames, QuietStep DEF WriteCompanions, Disks
<1>18. ASSUME WriteIslandsEntry PROVE Guarded' /\ Tracks'
  <2>1. pc = "entry" /\ site.islands # None
    BY <1>18, <1>0 DEF WriteIslandsEntry, Order
  <2> QED BY <1>0, <1>e, <1>18, <2>1, EntryStep
<1>19. ASSUME NEW written \in SUBSET Files, IslandsFail(written) PROVE Guarded' /\ Tracks'
  <2>1. Names[site.islands] \in SUBSET Files \/ site.islands = None
    BY <1>0, PublicationAssumption DEF TypeOK, SiteType
  <2>2. written # {} => site.islands # None
    BY <1>19 DEF IslandsFail
  <2>3. PICK l \in {islands} \cup {Islands!track_candidate(islands, names) : names \in SUBSET Files} :
          islands' = Islands!invalidate_build_reuse(l)
    BY <1>19, <2>1, <2>2 DEF IslandsFail
  <2>4. /\ islands'.live = islands.live /\ islands'.staged = islands.staged
        /\ islands'.retained = islands.retained /\ islands.unresolved \subseteq islands'.unresolved
    BY <1>0, <2>3, IslandFrames
  <2> QED BY <1>19, <1>0, <2>4, QuietStep DEF IslandsFail, Disks, AfterIslands, AfterReload
<1>20. ASSUME NEW moved \in BOOLEAN, Reload(moved) PROVE Guarded' /\ Tracks'
  BY <1>20, <1>0, QuietStep DEF Reload, AfterReload
<1>21. ASSUME RefreshOrRenderFails PROVE Guarded' /\ Tracks'
  BY <1>21, <1>0, QuietStep DEF RefreshOrRenderFails
<1>22. ASSUME NEW failing \in SUBSET Docs, RenderPages(failing) PROVE Guarded' /\ Tracks'
  BY <1>22, <1>0, QuietStep DEF RenderPages
<1>23. ASSUME NEW failing \in SUBSET Docs, Prune(failing) PROVE Guarded' /\ Tracks'
  BY <1>23, <1>0, QuietStep DEF Prune
<1>24. ASSUME NEW d \in Docs, WriteDocument(d) PROVE Guarded' /\ Tracks'
  BY <1>24, <1>0, QuietStep DEF WriteDocument
<1>25. ASSUME NEW d \in Docs, WriteDocumentFails(d) PROVE Guarded' /\ Tracks'
  BY <1>25, <1>0, QuietStep DEF WriteDocumentFails
<1>26. ASSUME AllWritten PROVE Guarded' /\ Tracks'
  BY <1>26, <1>0, QuietStep DEF AllWritten
<1>27. ASSUME Commit PROVE Guarded' /\ Tracks'
  <2>1. pc = "commit" /\ pc' = "close" /\ UNCHANGED <<islands, disk, site>>
    BY <1>27 DEF Commit
  <2>2. CASE ~txn.relevant
    BY <1>27, <2>1, <2>2, QuietStep DEF Commit
  <2>3. CASE txn.relevant
    <3> DEFINE o == record_lazy_outputs(obl, ExistingStale)
    <3>1. Emit("tick", BoundaryEvent, pub, o)
      BY <1>27, <2>3 DEF Commit
    <3>2. BoundaryEvent \in Events /\ BoundaryEvent # Aborts
      BY DEF BoundaryEvent, Events, Commits, LazyRepairs, Aborts
    <3>3. o \in ObligationStates
      BY <1>0 DEF record_lazy_outputs, ObligationStates, ExistingStale, TypeOK
    <3> HIDE DEF o
    <3>4. Moves("tick", pub, FALSE)
      BY <1>0, <3>1, <3>2, <3>3, EmitMoves
    <3>5. hook["tick"].pc = "none" /\ ~Aborting
      BY <1>0, <2>1, NoCalls DEF Applying
    <3> QED BY <1>0, <1>s, <2>1, <3>4, <3>5, MoveIslands
  <2> QED BY <2>2, <2>3
<1>28. ASSUME Drop PROVE Guarded' /\ Tracks'
  <2>1. pc = "drop" /\ pc' = "close" /\ UNCHANGED <<islands, disk, site>> /\ Emit("tick", txn.fallback, pub, obl)
    BY <1>28 DEF Drop
  <2>2. ~plan.boot /\ txn.relevant
    BY <1>0, <2>1 DEF Order, Owed, Applying
  <2>3. txn.fallback \in Events
    BY <1>0, <2>1, <2>2 DEF Owed, Events, Fallbacks, TypeOK, Transactions, Applying
  <2>4. Moves("tick", pub, txn.fallback = Aborts)
    BY <1>0, <2>1, <2>3, EmitMoves
  <2>5. hook["tick"].pc = "none" /\ ~Aborting
    BY <1>0, <2>1, NoCalls DEF Applying
  <2>6. txn.fallback = Aborts => (Menaced => Unsettled(pub) \/ Due)
    BY <2>1, <2>2 DEF Risks, Dirty
  <2> QED BY <1>0, <1>s, <2>1, <2>4, <2>5, <2>6, MoveIslands DEF Menaced
<1>29. ASSUME Close PROVE Guarded' /\ Tracks'
  BY <1>29, <1>0, QuietStep DEF Close
<1>30. ASSUME BootDocuments PROVE Guarded' /\ Tracks'
  <2> DEFINE event == IF live = {} THEN "CommitNotExpected" ELSE "CommitReadyOnRequest"
             p == begin_document_update(pub)
  <2>1. pc = "boot" /\ pc' = "close" /\ UNCHANGED <<disk, site>>
        /\ Emit("tick", event, p, obl) /\ islands' = Islands!begin(islands)
    BY <1>30 DEF BootDocuments
  <2>2. event \in Events /\ event # Aborts
    BY DEF Events, Commits, Aborts
  <2>3. p \in PublicationStates /\ Coherent(p) /\ Same(p, pub)
    BY <1>0, BeginType, BeginKeeps
  <2> HIDE DEF event, p
  <2>4. Moves("tick", p, FALSE)
    BY <1>0, <2>1, <2>2, <2>3, EmitMoves
  <2>5. hook["tick"].pc = "none" /\ ~Aborting
    BY <1>0, <2>1, NoCalls
  <2> QED BY <1>0, <2>1, <2>3, <2>4, <2>5, IslandFrames, MoveIslands
<1>31. ASSUME BootFails PROVE Guarded' /\ Tracks'
  <2>1. pc = "boot" /\ pc' = "close" /\ UNCHANGED <<islands, disk, site>> /\ Emit("tick", "LeavePending", pub, obl)
    BY <1>31 DEF BootFails
  <2>2. "LeavePending" \in Events /\ "LeavePending" # Aborts
    BY DEF Events, Fallbacks, Aborts
  <2>3. Moves("tick", pub, FALSE)
    BY <1>0, <2>1, <2>2, EmitMoves
  <2>4. hook["tick"].pc = "none" /\ ~Aborting
    BY <1>0, <2>1, NoCalls
  <2> QED BY <1>0, <1>s, <2>1, <2>3, <2>4, MoveIslands
<1>32. ASSUME NEW t \in Threads, CommitScripts(t) PROVE Guarded' /\ Tracks'
  <2>1. /\ \A u \in Threads \ {t} : hook'[u] = hook[u]
        /\ hook'[t].pc = "islands" /\ hook[t].pc = "scripts"
        /\ UNCHANGED <<pub, islands, site, pc>> /\ disk'.files = disk.files
        /\ disk'.entry = disk.entry /\ disk'.phase = disk.phase
    BY <1>32, <1>0 DEF CommitScripts, TypeOK, Disks
  <2>2. Due /\ Due' /\ (Aborting' <=> Aborting) /\ Uses' = Uses
    BY <1>0, <2>1 DEF Due, Aborting, Uses, Threads
  <2>3. Guarded'
    BY <2>1, <2>2 DEF Guarded
  <2>4. Tracks'
    BY <2>1, <2>2 DEF Tracks, Latest, Stages, Issued
  <2> QED BY <2>3, <2>4
<1>33. ASSUME NEW t \in Threads, CommitIslands(t) PROVE Guarded' /\ Tracks'
  <2>1. Due
    BY <1>33 DEF CommitIslands, Due
  <2> QED BY <1>0, <1>e, <1>33, <2>1, CommitIslandsStep
<1>34. ASSUME AbortLedgers PROVE Guarded' /\ Tracks'
  <2>1. Aborting /\ HookDone("request")
    BY <1>34 DEF AbortLedgers, Aborting
  <2>2. disk.phase = "staged" => Based
    BY <2>1 DEF Risks
  <2> QED BY <1>0, <1>e, <1>34, <2>1, <2>2, AbortIslandsStep
<1>35. ASSUME RequestChecksGate PROVE Guarded' /\ Tracks'
  BY <1>35, <1>0, QuietStep DEF RequestChecksGate
<1>36. ASSUME RequestCommits PROVE Guarded' /\ Tracks'
  <2>1. req = "commit" /\ PublishRepair("request") /\ UNCHANGED <<pc, islands, disk, site>>
    BY <1>36 DEF RequestCommits
  <2>2. Moves("request", pub, FALSE)
    BY <1>0, <2>1, RepairMoves
  <2>3. hook["request"].pc = "none" /\ ~Aborting /\ pc # "entry"
    BY <1>0, <2>1 DEF HookOrder, Order, Applying
  <2> QED BY <1>0, <1>s, <2>1, <2>2, <2>3, MoveIslands
<1>37. ASSUME RequestFinishes PROVE Guarded' /\ Tracks'
  BY <1>37, <1>0, QuietStep DEF RequestFinishes
<1>38. CASE UNCHANGED vars
  BY <1>38, QuietStep DEF vars
<1> HIDE DEF Quiet, control, locks, server, ledgers, documents
<1>d. CASE Discovery
  BY <1>d, <1>3, <1>4, <1>5, <1>6, <1>7, <1>8, <1>9, <1>10, <1>11 DEF Discovery
<1>n. CASE Entries
  BY <1>n, <1>13, <1>14, <1>15, <1>16, <1>17, <1>18, <1>19 DEF Entries
<1>p. CASE Pages
  BY <1>p, <1>20, <1>21, <1>22, <1>23, <1>24, <1>25, <1>26 DEF Pages
<1>k. CASE TickThread
  BY <1>k, <1>0, <1>d, <1>n, <1>p, <1>12, <1>27, <1>28, <1>29, <1>30, <1>31, <1>32, <1>33, <1>34 DEF TickThread
<1>r. CASE RequestThread
  BY <1>r, <1>0, <1>35, <1>36, <1>37, <1>32, <1>33 DEF RequestThread
<1> QED BY <1>1, <1>2, <1>k, <1>r, <1>38 DEF Next

(* The part of the state that the risks are about stands still. *)
Still ==
  /\ UNCHANGED hook
  /\ pub'.islands = pub.islands /\ pub'.staged_islands = pub.staged_islands
  /\ pub.documents = "Pending" => pub'.documents = "Pending"
  /\ Unsettled(pub') <=> Unsettled(pub)
  /\ disk'.entry = disk.entry /\ disk'.phase = disk.phase
  /\ islands'.baseline \in {islands.baseline, islands.unresolved}

LEMMA StillStep ==
  ASSUME Still, Risks, Guarded
  PROVE  /\ pub'.staged_islands # None => pub'.documents = "Pending"
         /\ Menaced' <=> Menaced
         /\ Unsettled(pub)' <=> Unsettled(pub)
         /\ Due' <=> Due
         /\ Aborting' <=> Aborting
         /\ disk'.phase = disk.phase
         /\ disk.phase = "staged" /\ Based => Based'
         /\ disk.phase = "staged" /\ islands'.baseline = islands.unresolved => Based'
<1>1. Unsettled(pub)' <=> Unsettled(pub')
  BY DEF Unsettled
<1>2. Menaced' <=> Menaced
  BY DEF Still, Menaced, Issued
<1>3. (Due' <=> Due) /\ (Aborting' <=> Aborting)
  BY DEF Still, Due, Aborting
<1>4. /\ disk.phase = "staged" /\ Based => Based'
      /\ disk.phase = "staged" /\ islands'.baseline = islands.unresolved => Based'
  BY DEF Still, Based, Uses, Guarded
<1> QED BY <1>1, <1>2, <1>3, <1>4 DEF Still, Risks

(* A hook call.  The state is settled afterwards only where a commit or an *)
(* abort has begun, and an abort begins with a settled state.              *)
LEMMA MoveRisks ==
  ASSUME TypeOK, Guarded, Risks, NEW t \in Threads, NEW p \in PublicationStates, NEW aborts \in BOOLEAN,
         Moves(t, p, aborts), Same(p, pub), Unsettled(p) <=> Unsettled(pub), hook[t].pc = "none",
         aborts => (Menaced => Unsettled(pub) \/ Due),
         islands'.baseline \in {islands.baseline, islands.unresolved}, disk' = disk
  PROVE  /\ pub'.staged_islands # None => pub'.documents = "Pending"
         /\ Menaced' => Unsettled(pub)' \/ Due'
         /\ Aborting' => Aborting \/ (aborts /\ ~Unsettled(pub))
         /\ disk.phase = "staged" /\ Based => Based'
         /\ ~aborts => Unsettled(pub)' \/ hook'[t].pc = "scripts"
<1>1. PICK h \in Calls :
        /\ hook' = [hook EXCEPT ![t] = h]
        /\ h.pc = "none" => /\ Same(pub', p) /\ pub'.documents = "Pending"
                            /\ ~aborts \/ Unsettled(p) => Unsettled(pub')
        /\ h.pc = "scripts" => Moved(pub', p)
        /\ h.pc = "abort" => t = "tick" /\ aborts /\ Rid(pub', p) /\ ~Unsettled(p)
  BY DEF Moves
<1>2. /\ hook'[t] = h /\ \A u \in Threads \ {t} : hook'[u] = hook[u]
      /\ "tick" \in Threads
  BY <1>1 DEF TypeOK, Threads
<1>3. (Unsettled(pub)' <=> Unsettled(pub')) /\ disk'.phase = disk.phase
  BY DEF Unsettled
<1>4. disk.phase = "staged" /\ Based => Based'
  BY DEF Based, Uses, Guarded
<1>5. CASE h.pc = "none"
  <2>1. (Due' <=> Due) /\ (Aborting' => Aborting)
    BY <1>2, <1>5 DEF Due, Aborting
  <2>2. pub'.islands = pub.islands /\ pub'.staged_islands = pub.staged_islands
    BY <1>1, <1>5 DEF Same
  <2>3. Menaced' => Menaced
    BY <2>2 DEF Menaced, Issued
  <2> QED BY <1>1, <1>3, <1>4, <1>5, <2>1, <2>3
<1>6. CASE h.pc = "scripts"
  <2>1. Due' /\ (Aborting' => Aborting)
    BY <1>2, <1>6 DEF Due, Aborting
  <2>2. pub'.staged_islands = None
    BY <1>1, <1>6 DEF Moved
  <2> QED BY <1>2, <1>4, <1>6, <2>1, <2>2
<1>7. CASE h.pc = "abort"
  <2>1. Due' <=> Due
    BY <1>2, <1>7 DEF Due
  <2>2. pub'.staged_islands = None /\ pub'.islands = pub.islands
    BY <1>1, <1>7 DEF Rid, Same
  <2>3. Menaced' => Menaced
    BY <2>2 DEF Menaced, Issued
  <2> QED BY <1>1, <1>4, <1>7, <2>1, <2>2, <2>3
<1> QED BY <1>5, <1>6, <1>7 DEF Calls

LEMMA RiskStep ==
  ASSUME Inv, HookOrder, Guarded, Tracks, Risks, [Next]_vars
  PROVE  Risks'
<1>0. /\ TypeOK /\ pub \in PublicationStates /\ obl \in ObligationStates /\ pc \in Places /\ Coherent(pub)
      /\ islands \in Islands!IslandsLedgers /\ disk \in Disks /\ Order /\ Gates /\ Owed
      /\ "tick" \in Threads /\ "request" \in Threads
      /\ plan \in Plans /\ txn \in Transactions /\ gate \in GateStates
  BY DEF Inv, Types, TypeOK, Threads
<1>s. Same(pub, pub)
  BY DEF Same
<1>h. hook["tick"].pc # "none" => pc \in {"close", "aborted"}
  BY DEF HookOrder
<1> USE DEF Applying, Discovering, control, locks, server, ledgers, documents
<1>1. ASSUME NEW s \in Sites, NEW p \in Batches, StartTick(s, p) PROVE Risks'
  <2>1. Still
    BY <1>1, <1>0 DEF StartTick, Still
  <2>2. pc = "idle" /\ pc' \in {"raise", "enter"} /\ UNCHANGED gate
    BY <1>1, <1>0 DEF StartTick
  <2> QED BY <1>0, <1>h, <2>1, <2>2, StillStep DEF Risks, Dirty, Gates, Owed, Boundary
<1>2. ASSUME NEW d \in Docs, NEW proven \in BOOLEAN, RequestWrites(d, proven) PROVE Risks'
  <2>1. Still
    BY <1>2, <1>0 DEF RequestWrites, Still
  <2>2. UNCHANGED <<pc, plan, txn, gate>>
    BY <1>2, <1>0 DEF RequestWrites
  <2> QED BY <1>0, <1>h, <2>1, <2>2, StillStep DEF Risks, Dirty, Gates, Owed, Boundary
<1>3. ASSUME RaiseGate PROVE Risks'
  <2>1. Still
    BY <1>3, <1>0 DEF RaiseGate, Still
  <2>2. pc = "raise" /\ pc' \in {"begin", "discover"} /\ (pc' = "discover" => ~txn'.began)
    BY <1>3, <1>0 DEF RaiseGate, Transactions
  <2> QED BY <1>0, <1>h, <2>1, <2>2, StillStep DEF Risks, Dirty, Gates, Owed, Boundary
<1>4. ASSUME DiscoveryBeginsLedgers PROVE Risks'
  <2>1. Still
    BY <1>4, <1>0, IslandFrames DEF DiscoveryBeginsLedgers, Still
  <2>2. pc = "begin" /\ pc' = "open" /\ islands'.baseline = islands.unresolved
    BY <1>4, <1>0, IslandFrames DEF DiscoveryBeginsLedgers
  <2> QED BY <1>h, <2>1, <2>2, StillStep DEF Risks, Dirty
<1>5. ASSUME DiscoveryBeginsState PROVE Risks'
  <2>1. Still
    BY <1>5, <1>0, BeginType, BeginKeeps DEF DiscoveryBeginsState, Still, Same
  <2>2. pc = "open" /\ pc' = "discover" /\ UNCHANGED <<gate, txn>>
    BY <1>5, <1>0 DEF DiscoveryBeginsState
  <2> QED BY <1>0, <1>h, <2>1, <2>2, StillStep DEF Risks, Dirty, Gates, Owed, Boundary
<1>6. ASSUME NEW moved \in BOOLEAN, Discover(moved) PROVE Risks'
  <2>1. Still
    BY <1>6, <1>0 DEF Discover, Still
  <2>2. pc = "discover" /\ pc' = "enter" /\ gate'.lazy = gate.lazy /\ UNCHANGED txn
    BY <1>6, <1>0 DEF Discover, note_boundary, GateStates
  <2> QED BY <1>0, <1>h, <2>1, <2>2, StillStep DEF Risks, Dirty, Gates, Owed, Boundary
<1>7. ASSUME DiscoverFails PROVE Risks'
  <2>1. Still
    BY <1>7, <1>0 DEF DiscoverFails, Still
  <2>2. pc = "discover" /\ pc' \in {"abort", "release"} /\ UNCHANGED txn
    BY <1>7, <1>0 DEF DiscoverFails
  <2> QED BY <1>0, <1>h, <2>1, <2>2, StillStep DEF Risks, Dirty, Gates, Owed, Boundary
<1>8. ASSUME DiscoveryAborts PROVE Risks'
  <2>1. Emit("tick", Aborts, pub, obl) /\ pc = "abort" /\ pc' = "aborted" /\ UNCHANGED <<islands, disk>>
    BY <1>8 DEF DiscoveryAborts
  <2>2. Aborts \in Events
    BY DEF Events, Fallbacks, Aborts
  <2>3. Moves("tick", pub, TRUE)
    BY <1>0, <2>1, <2>2, EmitMoves
  <2>4. hook["tick"].pc = "none" /\ ~Aborting /\ txn.began
    BY <1>0, <1>h, <2>1 DEF Aborting, Gates
  <2>5. Menaced => Unsettled(pub) \/ Due
    BY <2>1 DEF Risks, Dirty
  <2>6. /\ pub'.staged_islands # None => pub'.documents = "Pending"
        /\ Menaced' => Unsettled(pub)' \/ Due'
        /\ disk.phase = "staged" /\ Based => Based'
    BY <1>0, <1>s, <2>1, <2>3, <2>4, <2>5, MoveRisks
  <2>7. disk.phase = "staged" => Based
    BY <2>1, <2>4 DEF Risks
  <2> QED BY <2>1, <2>6, <2>7 DEF Risks
<1>9. ASSUME ReleaseGate PROVE Risks'
  <2>1. Still
    BY <1>9, <1>0 DEF ReleaseGate, Still
  <2>2. pc \in {"aborted", "release"} /\ pc' = "replay" /\ hook["tick"].pc = "none"
    BY <1>9, <1>0 DEF ReleaseGate, HookDone
  <2> QED BY <1>0, <1>h, <2>1, <2>2, StillStep DEF Risks, Dirty, Gates, Owed, Boundary
<1>10. ASSUME TakeRepair PROVE Risks'
  <2>1. Still
    BY <1>10, <1>0 DEF TakeRepair, Still
  <2>2. pc = "replay" /\ pc' \in {"replay_commit", "close"}
    BY <1>10, <1>0 DEF TakeRepair
  <2> QED BY <1>0, <1>h, <2>1, <2>2, StillStep DEF Risks, Dirty, Gates, Owed, Boundary
<1>11. ASSUME ReplayRepair PROVE Risks'
  <2>1. PublishRepair("tick") /\ pc = "replay_commit" /\ pc' = "close" /\ UNCHANGED <<islands, disk>>
    BY <1>11 DEF ReplayRepair
  <2>2. Moves("tick", pub, FALSE)
    BY <1>0, <2>1, RepairMoves
  <2>3. hook["tick"].pc = "none" /\ ~Aborting
    BY <1>h, <2>1 DEF Aborting
  <2>8. /\ pub'.staged_islands # None => pub'.documents = "Pending"
        /\ Menaced' => Unsettled(pub)' \/ Due'
        /\ ~Aborting'
    BY <1>0, <1>s, <2>1, <2>2, <2>3, MoveRisks
  <2> QED BY <2>1, <2>8 DEF Risks
<1>12. ASSUME Enter PROVE Risks'
  <2>1. Still
    BY <1>12, <1>0, BeginType, BeginKeeps, IslandFrames DEF Enter, Still, Same
  <2>2. pc = "enter" /\ pc' \in {"scripts", "islands", "reload", "render", "prune"} /\ ~plan.boot
    BY <1>12, <1>0 DEF Enter, Order, AfterEnter, AfterScripts, AfterIslands, AfterReload
  <2>3. txn'.fallback = Aborts => \/ islands'.baseline = islands.unresolved
                                  \/ gate.pending /\ ~gate.lazy /\ islands' = islands
    BY <1>12, <1>0, IslandFrames DEF Enter, NoTxn, Aborts
  <2>4. Menaced => Unsettled(pub) \/ Due
    BY <2>2 DEF Risks, Dirty
  <2>5. ~Aborting
    BY <1>h, <2>2 DEF Aborting
  <2> QED BY <2>1, <2>2, <2>3, <2>4, <2>5, StillStep DEF Risks
<1>13. ASSUME NEW changed \in BOOLEAN, BuildScripts(changed) PROVE Risks'
  <2>1. Still
    BY <1>13, <1>0 DEF BuildScripts, Still, stage_scripts, PublicationStates, Disks, Unsettled
  <2>2. /\ pc \in Applying /\ pc' \in Applying \cup {"boot"} /\ plan'.boot = plan.boot
        /\ txn'.relevant = txn.relevant /\ (txn'.fallback = Aborts => txn.fallback = Aborts)
    BY <1>13, <1>0, EntryKeeps DEF BuildScripts, AfterScripts, AfterIslands, AfterReload
  <2> QED BY <1>h, <2>1, <2>2, StillStep DEF Risks, Dirty, Aborting
<1>14. ASSUME NEW unsafe \in SUBSET ScriptFiles, BuildScriptsFails(unsafe) PROVE Risks'
  <2>1. Still
    BY <1>14, <1>0 DEF BuildScriptsFails, Still, Disks
  <2>2. /\ pc \in Applying /\ pc' \in Applying \cup {"boot"} /\ plan'.boot = plan.boot
        /\ txn'.relevant = txn.relevant /\ (txn'.fallback = Aborts => txn.fallback = Aborts)
    BY <1>14, <1>0 DEF BuildScriptsFails, AfterScripts, AfterIslands, AfterReload
  <2> QED BY <1>h, <2>1, <2>2, StillStep DEF Risks, Dirty, Aborting
<1>15. ASSUME NoIslandsLeft PROVE Risks'
  <2>1. /\ pc = "islands" /\ pc' \in Applying \cup {"boot"} /\ UNCHANGED <<plan, txn, hook, disk>>
        /\ pub' = stage_islands(pub, {}) /\ islands' = Islands!stage(islands, {})
    BY <1>15, <1>0 DEF NoIslandsLeft, AfterIslands, AfterReload
  <2>2. /\ pub'.documents = pub.documents /\ (Unsettled(pub)' <=> Unsettled(pub))
        /\ pub'.islands = pub.islands /\ ~Issued(pub'.staged_islands)
    BY <1>0, <2>1 DEF stage_islands, PublicationStates, Unsettled, slot_from_urls, Issued
  <2>3. pub.documents = "Pending"
    BY <1>0, <2>1 DEF Owed
  <2>4. islands'.baseline = islands.baseline
    BY <1>0, <2>1 DEF Islands!stage, Islands!IslandsLedgers
  <2>5. (Based' <=> Based) /\ (Due' <=> Due) /\ (Aborting' <=> Aborting)
    BY <2>1, <2>4 DEF Based, Uses, Due, Aborting
  <2>6. Menaced' => Menaced
    BY <2>1, <2>2 DEF Menaced, Issued
  <2> QED BY <1>h, <2>1, <2>2, <2>3, <2>5, <2>6 DEF Risks, Dirty
<1>16. ASSUME ReuseIslands PROVE Risks'
  <2>1. Still
    BY <1>16, <1>0 DEF ReuseIslands, Still
  <2>2. /\ pc \in Applying /\ pc' \in Applying \cup {"boot"} /\ plan'.boot = plan.boot
        /\ txn'.relevant = txn.relevant /\ (txn'.fallback = Aborts => txn.fallback = Aborts)
    BY <1>16, <1>0 DEF ReuseIslands, AfterScripts, AfterIslands, AfterReload
  <2> QED BY <1>h, <2>1, <2>2, StillStep DEF Risks, Dirty, Aborting
<1>17. ASSUME WriteCompanions PROVE Risks'
  <2>1. Still
    BY <1>17, <1>0, IslandFrames DEF WriteCompanions, Still, Disks
  <2>2. /\ pc \in Applying /\ pc' \in Applying \cup {"boot"} /\ plan'.boot = plan.boot
        /\ txn'.relevant = txn.relevant /\ (txn'.fallback = Aborts => txn.fallback = Aborts)
    BY <1>17, <1>0 DEF WriteCompanions
  <2> QED BY <1>h, <2>1, <2>2, StillStep DEF Risks, Dirty, Aborting
<1>18. ASSUME WriteIslandsEntry PROVE Risks'
  <2>1. /\ pc = "entry" /\ pc' \in Applying \cup {"boot"} /\ (pc' = "boot" <=> plan.boot)
        /\ UNCHANGED <<plan, hook>> /\ EntryCompleted /\ pub' = stage_islands(pub, {IslandsUrl})
    BY <1>18, <1>0 DEF WriteIslandsEntry, AfterIslands, AfterReload
  <2>2. pub'.documents = pub.documents /\ pub.documents = "Pending"
    BY <1>0, <2>1 DEF stage_islands, PublicationStates, Owed
  <2>3. ~plan.boot => txn.relevant /\ txn'.relevant
    BY <1>0, <2>1, EntryKeeps DEF Owed
  <2>4. txn'.fallback # Aborts
    BY <1>0, <2>1, EntryKeeps
  <2>5. ~Aborting'
    BY <1>h, <2>1 DEF Aborting
  <2> QED BY <2>1, <2>2, <2>3, <2>4, <2>5 DEF Risks, Dirty
<1>19. ASSUME NEW written \in SUBSET Files, IslandsFail(written) PROVE Risks'
  <2>1. Names[site.islands] \in SUBSET Files \/ site.islands = None
    BY <1>0, PublicationAssumption DEF TypeOK, SiteType
  <2>2. written # {} => site.islands # None
    BY <1>19 DEF IslandsFail
  <2>3. PICK l \in {islands} \cup {Islands!track_candidate(islands, names) : names \in SUBSET Files} :
          islands' = Islands!invalidate_build_reuse(l)
    BY <1>19, <2>1, <2>2 DEF IslandsFail
  <2>4. islands'.baseline = islands.baseline
    BY <1>0, <2>3, IslandFrames
  <2>5. Still
    BY <1>19, <1>0, <2>4 DEF IslandsFail, Still, Disks
  <2>6. /\ pc \in Applying /\ pc' \in Applying \cup {"boot"} /\ UNCHANGED <<plan, txn>>
    BY <1>19, <1>0 DEF IslandsFail, AfterIslands, AfterReload
  <2> QED BY <1>h, <2>5, <2>6, StillStep DEF Risks, Dirty, Aborting
<1>20. ASSUME NEW moved \in BOOLEAN, Reload(moved) PROVE Risks'
  <2>1. Still
    BY <1>20, <1>0 DEF Reload, Still
  <2>2. /\ pc \in Applying /\ pc' \in Applying \cup {"boot"} /\ plan'.boot = plan.boot
        /\ txn'.relevant = txn.relevant /\ (txn'.fallback = Aborts => txn.fallback = Aborts)
    BY <1>20, <1>0 DEF Reload, AfterReload, Plans, Transactions
  <2> QED BY <1>h, <2>1, <2>2, StillStep DEF Risks, Dirty, Aborting
<1>21. ASSUME RefreshOrRenderFails PROVE Risks'
  <2>1. Still
    BY <1>21, <1>0 DEF RefreshOrRenderFails, Still
  <2>2. /\ pc \in Applying /\ pc' \in Applying \cup {"boot"} /\ plan'.boot = plan.boot
        /\ txn'.relevant = txn.relevant /\ (txn'.fallback = Aborts => txn.fallback = Aborts)
    BY <1>21, <1>0 DEF RefreshOrRenderFails, MutationStarted, Transactions, Aborts
  <2> QED BY <1>h, <2>1, <2>2, StillStep DEF Risks, Dirty, Aborting
<1>22. ASSUME NEW failing \in SUBSET Docs, RenderPages(failing) PROVE Risks'
  <2>1. Still
    BY <1>22, <1>0 DEF RenderPages, Still
  <2>2. /\ pc \in Applying /\ pc' \in Applying \cup {"boot"} /\ plan'.boot = plan.boot
        /\ txn'.relevant = txn.relevant /\ (txn'.fallback = Aborts => txn.fallback = Aborts)
    BY <1>22, <1>0 DEF RenderPages, MutationStarted, Transactions, Aborts
  <2> QED BY <1>h, <2>1, <2>2, StillStep DEF Risks, Dirty, Aborting
<1>23. ASSUME NEW failing \in SUBSET Docs, Prune(failing) PROVE Risks'
  <2>1. Still
    BY <1>23, <1>0 DEF Prune, Still
  <2>2. /\ pc \in Applying /\ pc' \in Applying \cup {"boot"} /\ plan'.boot = plan.boot
        /\ txn'.relevant = txn.relevant /\ (txn'.fallback = Aborts => txn.fallback = Aborts)
    BY <1>23, <1>0 DEF Prune, Transactions
  <2> QED BY <1>h, <2>1, <2>2, StillStep DEF Risks, Dirty, Aborting
<1>24. ASSUME NEW d \in Docs, WriteDocument(d) PROVE Risks'
  <2>1. Still
    BY <1>24, <1>0 DEF WriteDocument, Still
  <2>2. /\ pc \in Applying /\ pc' \in Applying \cup {"boot"} /\ plan'.boot = plan.boot
        /\ txn'.relevant = txn.relevant /\ (txn'.fallback = Aborts => txn.fallback = Aborts)
    BY <1>24, <1>0 DEF WriteDocument, Transactions
  <2> QED BY <1>h, <2>1, <2>2, StillStep DEF Risks, Dirty, Aborting
<1>25. ASSUME NEW d \in Docs, WriteDocumentFails(d) PROVE Risks'
  <2>1. Still
    BY <1>25, <1>0 DEF WriteDocumentFails, Still
  <2>2. /\ pc \in Applying /\ pc' \in Applying \cup {"boot"} /\ plan'.boot = plan.boot
        /\ txn'.relevant = txn.relevant /\ (txn'.fallback = Aborts => txn.fallback = Aborts)
    BY <1>25, <1>0 DEF WriteDocumentFails
  <2> QED BY <1>h, <2>1, <2>2, StillStep DEF Risks, Dirty, Aborting
<1>26. ASSUME AllWritten PROVE Risks'
  <2>1. Still
    BY <1>26, <1>0 DEF AllWritten, Still
  <2>2. /\ pc \in Applying /\ pc' \in Applying \cup {"boot"} /\ plan'.boot = plan.boot
        /\ txn'.relevant = txn.relevant /\ (txn'.fallback = Aborts => txn.fallback = Aborts)
    BY <1>26, <1>0 DEF AllWritten
  <2> QED BY <1>h, <2>1, <2>2, StillStep DEF Risks, Dirty, Aborting
<1>27. ASSUME Commit PROVE Risks'
  <2>1. pc = "commit" /\ pc' = "close" /\ UNCHANGED <<islands, disk, plan>>
    BY <1>27 DEF Commit
  <2>2. ~plan.boot
    BY <1>0, <2>1 DEF Order
  <2>3. CASE ~txn.relevant
    <3>1. Still
      BY <1>27, <2>3 DEF Commit, Still
    <3> QED BY <1>h, <2>1, <2>2, <2>3, <3>1, StillStep DEF Risks, Dirty, Aborting
  <2>4. CASE txn.relevant
    <3> DEFINE o == record_lazy_outputs(obl, ExistingStale)
    <3>1. Emit("tick", BoundaryEvent, pub, o)
      BY <1>27, <2>4 DEF Commit
    <3>2. BoundaryEvent \in Events /\ BoundaryEvent # Aborts
      BY DEF BoundaryEvent, Events, Commits, LazyRepairs, Aborts
    <3>3. o \in ObligationStates
      BY <1>0 DEF record_lazy_outputs, ObligationStates, ExistingStale, TypeOK
    <3> HIDE DEF o
    <3>4. Moves("tick", pub, FALSE)
      BY <1>0, <3>1, <3>2, <3>3, EmitMoves
    <3>5. hook["tick"].pc = "none" /\ ~Aborting
      BY <1>h, <2>1 DEF Aborting
    <3>6. /\ pub'.staged_islands # None => pub'.documents = "Pending"
          /\ Menaced' => Unsettled(pub)' \/ Due'
          /\ ~Aborting'
      BY <1>0, <1>s, <2>1, <3>4, <3>5, MoveRisks
    <3> QED BY <2>1, <3>6 DEF Risks
  <2> QED BY <2>3, <2>4
<1>28. ASSUME Drop PROVE Risks'
  <2>1. pc = "drop" /\ pc' = "close" /\ UNCHANGED <<islands, disk>> /\ Emit("tick", txn.fallback, pub, obl)
    BY <1>28 DEF Drop
  <2>2. ~plan.boot /\ txn.relevant
    BY <1>0, <2>1 DEF Order, Owed
  <2>3. txn.fallback \in Events
    BY <1>0, <2>1, <2>2 DEF Owed, Events, Fallbacks, Transactions
  <2>4. Moves("tick", pub, txn.fallback = Aborts)
    BY <1>0, <2>1, <2>3, EmitMoves
  <2>5. hook["tick"].pc = "none" /\ ~Aborting
    BY <1>h, <2>1 DEF Aborting
  <2>6. txn.fallback = Aborts => (Menaced => Unsettled(pub) \/ Due)
    BY <2>1, <2>2 DEF Risks, Dirty
  <2>7. /\ pub'.staged_islands # None => pub'.documents = "Pending"
        /\ Menaced' => Unsettled(pub)' \/ Due'
        /\ Aborting' => txn.fallback = Aborts /\ ~Unsettled(pub)
        /\ disk.phase = "staged" /\ Based => Based'
    BY <1>0, <1>s, <2>1, <2>4, <2>5, <2>6, MoveRisks
  <2>8. disk.phase = "staged" /\ Aborting' => Based
    BY <2>1, <2>7 DEF Risks
  <2> QED BY <2>1, <2>7, <2>8 DEF Risks
<1>29. ASSUME Close PROVE Risks'
  <2>1. Still
    BY <1>29, <1>0 DEF Close, Still
  <2>2. pc = "close" /\ pc' = "idle" /\ hook["tick"].pc = "none"
    BY <1>29, <1>0 DEF Close, HookDone
  <2> QED BY <1>0, <1>h, <2>1, <2>2, StillStep DEF Risks, Dirty, Gates, Owed, Boundary
<1>30. ASSUME BootDocuments PROVE Risks'
  <2> DEFINE event == IF live = {} THEN "CommitNotExpected" ELSE "CommitReadyOnRequest"
             p == begin_document_update(pub)
  <2>1. pc = "boot" /\ pc' = "close" /\ UNCHANGED <<disk>>
        /\ Emit("tick", event, p, obl) /\ islands' = Islands!begin(islands)
    BY <1>30 DEF BootDocuments
  <2>2. event \in Events /\ event # Aborts
    BY DEF Events, Commits, Aborts
  <2>3. p \in PublicationStates /\ Coherent(p) /\ Same(p, pub) /\ (Unsettled(p) <=> Unsettled(pub))
    BY <1>0, BeginType, BeginKeeps
  <2> HIDE DEF event, p
  <2>4. Moves("tick", p, FALSE)
    BY <1>0, <2>1, <2>2, <2>3, EmitMoves
  <2>5. hook["tick"].pc = "none" /\ ~Aborting
    BY <1>h, <2>1 DEF Aborting
  <2>8. /\ pub'.staged_islands # None => pub'.documents = "Pending"
        /\ Menaced' => Unsettled(pub)' \/ Due'
        /\ ~Aborting'
    BY <1>0, <2>1, <2>3, <2>4, <2>5, IslandFrames, MoveRisks
  <2> QED BY <2>1, <2>8 DEF Risks
<1>31. ASSUME BootFails PROVE Risks'
  <2>1. pc = "boot" /\ pc' = "close" /\ UNCHANGED <<islands, disk>> /\ Emit("tick", "LeavePending", pub, obl)
    BY <1>31 DEF BootFails
  <2>2. "LeavePending" \in Events /\ "LeavePending" # Aborts
    BY DEF Events, Fallbacks, Aborts
  <2>3. Moves("tick", pub, FALSE)
    BY <1>0, <2>1, <2>2, EmitMoves
  <2>4. hook["tick"].pc = "none" /\ ~Aborting
    BY <1>h, <2>1 DEF Aborting
  <2>8. /\ pub'.staged_islands # None => pub'.documents = "Pending"
        /\ Menaced' => Unsettled(pub)' \/ Due'
        /\ ~Aborting'
    BY <1>0, <1>s, <2>1, <2>3, <2>4, MoveRisks
  <2> QED BY <2>1, <2>8 DEF Risks
<1>32. ASSUME NEW t \in Threads, CommitScripts(t) PROVE Risks'
  <2>1. /\ \A u \in Threads \ {t} : hook'[u] = hook[u]
        /\ hook'[t].pc = "islands" /\ hook[t].pc = "scripts"
        /\ UNCHANGED <<pub, islands, pc, plan, txn, gate>>
        /\ disk'.entry = disk.entry /\ disk'.phase = disk.phase
    BY <1>32, <1>0 DEF CommitScripts, TypeOK, Disks
  <2>2. Due' /\ (Aborting' <=> Aborting) /\ (Based' <=> Based) /\ (Unsettled(pub)' <=> Unsettled(pub))
    BY <1>0, <2>1 DEF Due, Aborting, Based, Uses, Threads, Unsettled
  <2> QED BY <2>1, <2>2 DEF Risks
<1>33. ASSUME NEW t \in Threads, CommitIslands(t) PROVE Risks'
  <2>1. /\ \A u \in Threads \ {t} : hook'[u] = hook[u]
        /\ hook'[t].pc = "none" /\ hook[t].pc = "islands" /\ hook[t].preserve \in BOOLEAN
        /\ UNCHANGED <<pub, pc, plan, txn, gate>>
        /\ islands' = Islands!commit_islands(islands, hook[t].preserve)
        /\ disk'.entry = disk.entry /\ disk'.phase = PhaseAfter(hook[t].preserve)
    BY <1>33, <1>0 DEF CommitIslands, TypeOK, Disks, Returned
  <2>2. pub.staged_islands = None
    BY <2>1 DEF Tracks, Due
  <2>3. disk'.phase = "staged" => disk.phase = "staged" /\ ~Issued(pub.islands)
    BY <1>0, <2>1 DEF PhaseAfter, Issued
  <2>4. islands'.baseline = islands.baseline
    BY <1>0, <2>1, KeptGenerations
  <2>5. (Aborting' <=> Aborting) /\ (Based' <=> Based) /\ (Unsettled(pub)' <=> Unsettled(pub))
    BY <1>0, <2>1, <2>4 DEF Aborting, Based, Uses, Threads, Unsettled
  <2>6. ~Menaced'
    BY <2>1, <2>2, <2>3 DEF Menaced, Issued
  <2> QED BY <2>1, <2>2, <2>3, <2>5, <2>6 DEF Risks
<1>34. ASSUME AbortLedgers PROVE Risks'
  <2>1. /\ hook["tick"].pc = "abort" /\ hook'["tick"].pc = "none" /\ hook'["request"] = hook["request"]
        /\ UNCHANGED <<pub, pc, plan, txn, gate>> /\ islands' = Islands!abort_islands(islands)
        /\ disk'.entry = disk.entry /\ disk'.phase = disk.phase
    BY <1>34, <1>0 DEF AbortLedgers, TypeOK, Disks, Returned
  <2>2. islands'.baseline = islands.baseline
    BY <1>0, <2>1 DEF Islands!abort_islands, Islands!IslandsLedgers
  <2>3. (Due' <=> Due) /\ ~Aborting' /\ (Based' <=> Based) /\ (Unsettled(pub)' <=> Unsettled(pub))
    BY <1>0, <2>1, <2>2 DEF Due, Aborting, Based, Uses, Threads, Unsettled
  <2>4. Menaced' <=> Menaced
    BY <2>1 DEF Menaced, Issued
  <2> QED BY <2>1, <2>3, <2>4 DEF Risks, Dirty
<1>35. ASSUME RequestChecksGate PROVE Risks'
  <2>1. Still
    BY <1>35, <1>0 DEF RequestChecksGate, Still
  <2>2. /\ UNCHANGED <<pc, plan, txn>>
        /\ gate'.pending = gate.pending /\ (gate.lazy => gate'.lazy)
    BY <1>35, <1>0 DEF RequestChecksGate, defer_lazy_repair, GateStates
  <2> QED BY <1>0, <1>h, <2>1, <2>2, StillStep DEF Risks, Dirty, Gates, Owed, Boundary
<1>36. ASSUME RequestCommits PROVE Risks'
  <2>1. req = "commit" /\ PublishRepair("request") /\ UNCHANGED <<pc, plan, txn, islands, disk>>
    BY <1>36 DEF RequestCommits
  <2>2. Moves("request", pub, FALSE)
    BY <1>0, <2>1, RepairMoves
  <2>3. hook["request"].pc = "none" /\ ~Aborting /\ pc \notin Applying
    BY <1>0, <2>1 DEF HookOrder, Order
  <2>4. /\ pub'.staged_islands # None => pub'.documents = "Pending"
        /\ Menaced' => Unsettled(pub)' \/ Due'
        /\ ~Aborting'
        /\ disk.phase = "staged" /\ Based => Based'
    BY <1>0, <1>s, <2>1, <2>2, <2>3, MoveRisks
  <2>5. gate'.pending => Unsettled(pub)' \/ gate'.lazy
    BY <1>0, <2>1, RepairStep DEF TypeOK, Hooks, GateStates, NoGate
  <2> QED BY <2>1, <2>3, <2>4, <2>5 DEF Risks
<1>37. ASSUME RequestFinishes PROVE Risks'
  <2>1. Still
    BY <1>37, <1>0 DEF RequestFinishes, Still
  <2>2. UNCHANGED <<pc, plan, txn, gate>>
    BY <1>37, <1>0 DEF RequestFinishes
  <2> QED BY <1>0, <1>h, <2>1, <2>2, StillStep DEF Risks, Dirty, Gates, Owed, Boundary
<1>38. CASE UNCHANGED vars
  <2>1. Still /\ UNCHANGED <<pc, plan, txn, gate>>
    BY <1>38 DEF vars, Still
  <2> QED BY <2>1, StillStep DEF Risks, Dirty
<1> HIDE DEF control, locks, server, ledgers, documents
<1>d. CASE Discovery
  BY <1>d, <1>3, <1>4, <1>5, <1>6, <1>7, <1>8, <1>9, <1>10, <1>11 DEF Discovery
<1>n. CASE Entries
  BY <1>n, <1>13, <1>14, <1>15, <1>16, <1>17, <1>18, <1>19 DEF Entries
<1>p. CASE Pages
  BY <1>p, <1>20, <1>21, <1>22, <1>23, <1>24, <1>25, <1>26 DEF Pages
<1>k. CASE TickThread
  BY <1>k, <1>0, <1>d, <1>n, <1>p, <1>12, <1>27, <1>28, <1>29, <1>30, <1>31, <1>32, <1>33, <1>34 DEF TickThread
<1>r. CASE RequestThread
  BY <1>r, <1>0, <1>35, <1>36, <1>37, <1>32, <1>33 DEF RequestThread
<1> QED BY <1>1, <1>2, <1>k, <1>r, <1>38 DEF Next

LEMMA IslandInit == Init => Guarded /\ Tracks /\ Risks
<1> SUFFICES ASSUME Init PROVE Guarded /\ Tracks /\ Risks
  OBVIOUS
<1>1. ~Due /\ ~Aborting
  BY DEF Init, Due, Aborting, Returned, Threads
<1>2. /\ pub.islands = PendingSlot /\ pub.staged_islands = None /\ pub.retained = None
      /\ disk.entry = None /\ disk.phase = "live" /\ islands.staged = None /\ pc = "scripts"
  BY DEF Init, pending, Islands!NewIslandsLedger
<1>3. ~Issued(pub.islands) /\ ~Issued(pub.staged_islands) /\ ~Issued(pub.retained)
  BY <1>2 DEF Issued, PendingSlot
<1>4. Guarded
  BY <1>2 DEF Guarded
<1>5. Tracks
  BY <1>1, <1>2, <1>3 DEF Tracks, Latest
<1>6. Risks
  BY <1>2, <1>3 DEF Risks, Menaced
<1> QED BY <1>4, <1>5, <1>6

(* The invariant of the islands holds in every state, unless discovery may *)
(* drop the candidates of a commit that a request has under way.           *)
LEMMA IslandsAlways == ~OverlappingAbort /\ Spec => []IslandsInv
<1> SUFFICES ASSUME ~OverlappingAbort PROVE Spec => []IslandsInv
  OBVIOUS
<1>1. Init => IslandsInv
  BY InitInv, ScriptInit, IslandInit DEF IslandsInv, ScriptInv
<1>2. IslandsInv /\ [Next]_vars => IslandsInv'
  <2> SUFFICES ASSUME IslandsInv, [Next]_vars PROVE IslandsInv'
    OBVIOUS
  <2>1. Inv /\ HookOrder /\ Follows /\ Guarded /\ Tracks /\ Risks
    BY DEF IslandsInv, ScriptInv
  <2>2. Inv'
    BY <2>1, TypesStep, OrderStep, GatesStep, OwedStep DEF Inv
  <2>3. (HookOrder /\ Follows)'
    BY ScriptStep DEF IslandsInv
  <2>4. Guarded' /\ Tracks' /\ Risks'
    BY <2>1, IslandStep, RiskStep
  <2> QED BY <2>2, <2>3, <2>4 DEF IslandsInv, ScriptInv
<1> QED BY <1>1, <1>2, PTL DEF Spec

(* Whenever the response with a document names the islands entry, the      *)
(* entry and every companion it imports are on disk: at no point between   *)
(* the writes of a build, the event of the hook and the two ledgers'       *)
(* deletions does IslandsCompanionLedger let go of a file that the entry   *)
(* on disk imports, while DevPublicationState still offers the entry.      *)
THEOREM EntryResolves == ~OverlappingAbort /\ Spec => []ServedEntryResolves
<1>1. IslandsInv => ServedEntryResolves
  <2> SUFFICES ASSUME IslandsInv, disk.phase # "orphan", NEW d \in Bodied,
                      islands_urls_for_response(pub, body[d] = "islands") # {}
               PROVE  disk.entry # None /\ Names[disk.entry] \subseteq disk.files
    BY DEF ServedEntryResolves
  <2>1. Guarded /\ Tracks /\ disk.phase \in {"staged", "live"}
    BY DEF IslandsInv, ScriptInv, Inv, Types, TypeOK, Disks
  <2>2. \E slot \in {pub.islands, pub.staged_islands, pub.retained} : Issued(slot)
    <3> DEFINE choices == <<pub.staged_islands, pub.islands, pub.retained>>
    <3>1. PICK i \in 1..3 : choices[i] # None /\ choices[i].kind = "Published"
      BY DEF islands_urls_for_response
    <3>2. choices[i] \in {pub.islands, pub.staged_islands, pub.retained}
      OBVIOUS
    <3> HIDE DEF choices
    <3> QED BY <3>1, <3>2 DEF Issued
  <2>3. disk.entry # None
    BY <2>1, <2>2 DEF Tracks
  <2> QED BY <2>1, <2>3 DEF Guarded, Uses
<1> QED BY <1>1, IslandsAlways, PTL

(* A server that reports readiness, once its hook calls have returned, has *)
(* on disk the entry of the very generation whose companions the ledger    *)
(* keeps alive: a build that overwrote the entry and was then abandoned    *)
(* leaves the server pending, and an abort never finds such an entry.      *)
THEOREM ReadyEntryIsLive == ~OverlappingAbort /\ Spec => []ReadyIsOnDisk
<1>1. IslandsInv => ReadyIsOnDisk
  <2> SUFFICES ASSUME IslandsInv, is_ready(pub), pub.islands.kind = "Published",
                      HookDone("tick"), HookDone("request")
               PROVE  disk.entry # None /\ Names[disk.entry] = islands.live
    BY DEF ReadyIsOnDisk
  <2>1. Tracks /\ Risks /\ pub.islands \in AssetSlots
    BY DEF IslandsInv, ScriptInv, Inv, Types, TypeOK, PublicationStates
  <2>2. ~Due
    BY DEF Due, HookDone, Threads
  <2>3. pub.staged_islands = None
    BY <2>1 DEF Risks, is_ready
  <2>4. Issued(pub.islands)
    BY <2>1, NoneAssumption DEF Issued
  <2> QED BY <2>1, <2>2, <2>3, <2>4 DEF Tracks, Latest, Uses
<1> QED BY <1>1, IslandsAlways, PTL

-----------------------------------------------------------------------------
(* What a commit does to the islands URLs.  Only one that drops the older  *)
(* declaration can take a document's URL away, and only if the newest      *)
(* declaration has no islands.                                             *)
Named(p) == \E slot \in {p.staged_islands, p.islands, p.retained} : Issued(slot)
Slots    == \A slot \in {pub.staged_islands, pub.islands, pub.retained} : Issued(slot) => slot.urls # {}

LEMMA CommitOffers ==
  ASSUME NEW p \in PublicationStates, Offered(p), NEW docs, NEW retain \in BOOLEAN, retain \/ Declared(p)
  PROVE  Named(commit_document_update(p, docs, retain))
<1> DEFINE c == commit_document_update(p, docs, retain)
<1>0. p.islands # None /\ p.islands \in AssetSlots
  BY NoneAssumption DEF PublicationStates
<1>1. Issued(p.islands) \/ Issued(p.retained)
  BY DEF Offered, Issued
<1>2. CASE p.uncertain
  BY <1>1, <1>2 DEF commit_document_update, Named
<1>3. CASE ~p.uncertain
  <2>1. /\ c.islands = IF p.staged_islands = None THEN p.islands ELSE p.staged_islands
        /\ c.retained = Fallback(p, retain)
    BY <1>3 DEF commit_document_update
  <2>2. Declared(p) => Issued(c.islands)
    BY <1>0, <2>1 DEF Declared, Issued
  <2>3. CASE Declared(p)
    BY <2>2, <2>3 DEF Named
  <2>4. CASE ~Declared(p) /\ retain
    <3>1. CASE p.staged_islands = None
      <4>1. c.islands = p.islands /\ c.retained = p.retained
        BY <2>1, <2>4, <3>1 DEF Fallback
      <4> QED BY <1>1, <4>1 DEF Named
    <3>2. CASE p.staged_islands # None
      <4>1. c.retained = IF p.retained # None /\ p.retained.kind = "Published" THEN p.retained ELSE p.islands
        BY <2>1, <2>4, <3>2 DEF Fallback
      <4>2. Issued(c.retained)
        BY <1>1, <4>1 DEF Issued
      <4> QED BY <4>2 DEF Named
    <3> QED BY <3>1, <3>2
  <2> QED BY <2>3, <2>4
<1> QED BY <1>2, <1>3

LEMMA SettledOffers ==
  ASSUME NEW p \in PublicationStates, NEW o \in ObligationStates, NEW event \in Events, Offered(p),
         Declared(p) \/ has_eager_failures(o) \/ event \in LazyRepairs \/ Preserves(o, event) \/ event \notin Commits
  PROVE  Named(Settled(p, o, event))
<1>a. /\ "LeavePending" \notin Commits \cup {Aborts} /\ "LeaveEntriesPending" \notin Commits \cup {Aborts}
      /\ Aborts \notin Commits /\ "LeavePending" # "LeaveEntriesPending"
      /\ Events \subseteq Commits \cup {Aborts, "LeaveEntriesPending", "LeavePending"}
  BY DEF Commits, LazyRepairs, Aborts, Events, Fallbacks
<1>b. \A q : Same(q, p) \/ Rid(q, p) => Named(q)
  BY DEF Same, Rid, Named, Offered, Issued
<1>1. CASE event \in Commits \cup {Aborts} /\ has_eager_failures(o)
  <2>1. Settled(p, o, event) = LeftPending(p, o, event)
    BY <1>1, <1>a DEF Settled
  <2> QED BY <1>b, <2>1, PendingKeeps
<1>2. CASE event \in Commits /\ ~has_eager_failures(o)
  <2> DEFINE r == resolve_document_uncertainty(p)
  <2>1. Settled(p, o, event) = Committed(p, o, event)
    BY <1>2, <1>a DEF Settled
  <2>2. r \in PublicationStates /\ Offered(r) /\ (Declared(p) => Declared(r))
    BY DEF resolve_document_uncertainty, PublicationStates, Offered, Declared
  <2>3. Preserves(o, event) \in BOOLEAN
    BY PreservesType
  <2> HIDE DEF r
  <2>4. CASE event \in LazyRepairs
    <3>1. Committed(p, o, event) = commit_document_update(r, "ReadyOnRequest", TRUE)
      BY <2>4 DEF Committed, commit_lazy_repair, LazyRepairs, r
    <3> QED BY <2>1, <2>2, <3>1, CommitOffers
  <2>5. CASE event = "CommitEntriesOnly"
    <3> DEFINE docs == IF p.previous = "None" THEN p.documents ELSE p.previous
    <3>1. Committed(p, o, event) = commit_document_update(p, docs, Preserves(o, event))
      BY <2>5 DEF Committed, commit_entry_update, LazyRepairs
    <3>2. event \notin LazyRepairs
      BY <2>5 DEF LazyRepairs
    <3> HIDE DEF docs
    <3> QED BY <1>2, <2>1, <2>3, <3>1, <3>2, CommitOffers
  <2>6. CASE event \notin LazyRepairs /\ event # "CommitEntriesOnly"
    <3> DEFINE docs == Documents(event, Preserves(o, event))
    <3>1. Committed(p, o, event) = commit_document_update(r, docs, Preserves(o, event))
      BY <2>6 DEF Committed, r
    <3> HIDE DEF docs
    <3> QED BY <1>2, <2>1, <2>2, <2>3, <2>6, <3>1, CommitOffers
  <2> QED BY <2>4, <2>5, <2>6
<1>3. CASE event = Aborts /\ ~has_eager_failures(o)
  <2>1. Settled(p, o, event) = abort_document_update_before_write(p)
    BY <1>3, <1>a DEF Settled
  <2> QED BY <1>b, <2>1, AbortDrops
<1>4. CASE event \in {"LeaveEntriesPending", "LeavePending"}
  <2>1. Settled(p, o, event) \in {leave_entry_update_pending(p), leave_document_update_pending(p)}
    BY <1>4, <1>a DEF Settled
  <2> QED BY <1>b, <2>1, PendingKeeps
<1> QED BY <1>1, <1>2, <1>3, <1>4, <1>a

(* A hook call moves slots and makes none.                                 *)
LEMMA MoveSlots ==
  ASSUME pub \in PublicationStates, Slots, NEW t \in Threads, NEW p, Same(p, pub), NEW aborts, Moves(t, p, aborts)
  PROVE  /\ Slots'
         /\ (aborts /\ ~Unsettled(p) => ~Issued(pub.staged_islands)) /\ Declared(pub) => Declared(pub')
<1>1. Same(pub', p) \/ Moved(pub', p) \/ (Rid(pub', p) /\ aborts /\ ~Unsettled(p))
  BY DEF Moves, Calls
<1>2. ~Issued(None) /\ pub.islands # None
  BY NoneAssumption DEF Issued, PublicationStates
<1>3. CASE Same(pub', p)
  BY <1>3 DEF Same, Slots, Declared
<1>4. CASE Moved(pub', p)
  <2>1. /\ pub'.staged_islands = None /\ pub'.retained \in {None, pub.retained, pub.islands}
        /\ pub'.islands = IF pub.staged_islands = None THEN pub.islands ELSE pub.staged_islands
    BY <1>4 DEF Moved, Same
  <2>2. Slots'
    BY <1>2, <2>1 DEF Slots
  <2> QED BY <2>1, <2>2 DEF Declared
<1>5. CASE Rid(pub', p) /\ aborts /\ ~Unsettled(p)
  <2>1. pub'.staged_islands = None /\ pub'.islands = pub.islands /\ pub'.retained = pub.retained
    BY <1>5 DEF Rid, Same
  <2>2. Slots'
    BY <1>2, <2>1 DEF Slots
  <2>3. ~Issued(pub.staged_islands) /\ Declared(pub) => pub.staged_islands = None
    BY DEF Issued, Declared
  <2> QED BY <1>5, <2>1, <2>2, <2>3 DEF Declared
<1> QED BY <1>1, <1>3, <1>4, <1>5

(* Where a document may still lose its URL: the boot, which has no bodies, *)
(* and the commit of an apply that found no old body to keep it for.       *)
Losing ==
  \/ pc = "boot"
  \/ pc = "commit" /\ ~Declared(pub) /\ obl.failed = {} /\ ExistingStale = {}
KeptSlots ==
  /\ pub'.islands = pub.islands /\ pub'.staged_islands = pub.staged_islands
  /\ pub'.retained = pub.retained

LEMMA KeptUrls ==
  ASSUME KeptSlots, Slots
  PROVE  Slots' /\ (Offered(pub) => Named(pub')) /\ (Declared(pub') <=> Declared(pub))
BY DEF KeptSlots, Slots, Offered, Named, Issued, Declared

LEMMA StagedUrls ==
  ASSUME pub \in PublicationStates, NEW urls \in SUBSET Urls, pub' = stage_islands(pub, urls), Slots
  PROVE  /\ Slots' /\ (Offered(pub) => Named(pub'))
         /\ urls # {} => Declared(pub')
<1>1. /\ pub'.islands = pub.islands /\ pub'.retained = pub.retained
      /\ pub'.staged_islands = slot_from_urls(urls)
  BY DEF stage_islands, PublicationStates
<1>2. slot_from_urls(urls) # None
  BY SlotType, NoneAssumption
<1>3. Slots'
  BY <1>1 DEF Slots, slot_from_urls, Issued
<1>4. Offered(pub) => Named(pub')
  BY <1>1 DEF Offered, Named, Issued
<1>5. urls # {} => Declared(pub')
  BY <1>1, <1>2 DEF Declared, slot_from_urls
<1> QED BY <1>3, <1>4, <1>5

LEMMA UrlStep ==
  ASSUME Inv, Slots, [Next]_vars
  PROVE  Slots' /\ (Offered(pub) /\ ~Losing => Named(pub'))
<1> DEFINE Goal == Slots' /\ (Offered(pub) /\ ~Losing => Named(pub'))
<1>0. /\ pub \in PublicationStates /\ obl \in ObligationStates /\ Coherent(pub)
      /\ txn \in Transactions /\ stale \in SUBSET Docs /\ Order /\ Owed
      /\ "tick" \in Threads /\ "request" \in Threads
  BY DEF Inv, Types, TypeOK, Threads
<1>s. Same(pub, pub)
  BY DEF Same
<1>k. KeptSlots => Goal
  BY KeptUrls
<1>u. UNCHANGED pub => KeptSlots
  BY DEF KeptSlots
<1>e. ASSUME NEW event \in Events, Emit("tick", event, pub, obl),
             event \notin Commits
      PROVE  Goal
  <2>1. pub' = Settled(pub, obl, event)
    BY <1>e DEF Emit
  <2>2. Slots'
    BY <1>0, <1>s, <1>e, EmitMoves, MoveSlots
  <2>3. Offered(pub) => Named(pub')
    BY <1>0, <1>e, <2>1, SettledOffers
  <2> QED BY <2>2, <2>3
<1>r. ASSUME NEW t \in Threads, PublishRepair(t) PROVE Goal
  <2> DEFINE event == "CommitLazyRepair"
             next == Settled(pub, obl, event)
  <2>1. pub' = next \/ pub' = begin_document_update(next)
    BY <1>r DEF PublishRepair
  <2>2. event \in LazyRepairs /\ event \in Events
    BY DEF LazyRepairs, Events, Commits
  <2>3. next \in PublicationStates
    BY <1>0, <2>2, SettledType
  <2>4. Slots'
    BY <1>0, <1>s, <1>r, RepairMoves, MoveSlots
  <2>5. Offered(pub) => Named(next)
    BY <1>0, <2>2, SettledOffers
  <2> HIDE DEF next, event
  <2>6. Named(next) => Named(begin_document_update(next))
    BY <2>3, BeginKeeps DEF Named, Same
  <2> QED BY <2>1, <2>4, <2>5, <2>6
<1> SUFFICES Goal
  OBVIOUS
<1> HIDE DEF Goal
<1> USE DEF server, control, locks, ledgers, documents
<1>1. ASSUME NEW s \in Sites, NEW p \in Batches, StartTick(s, p) PROVE Goal
  BY <1>1, <1>k, <1>u DEF StartTick
<1>2. ASSUME NEW d \in Docs, NEW proven \in BOOLEAN, RequestWrites(d, proven) PROVE Goal
  BY <1>2, <1>k, <1>u DEF RequestWrites
<1>5. CASE DiscoveryBeginsState
  <2>1. KeptSlots
    BY <1>0, <1>5, BeginKeeps DEF DiscoveryBeginsState, KeptSlots, Same
  <2> QED BY <2>1, <1>k
<1>8. CASE DiscoveryAborts
  <2>1. Aborts \in Events /\ Aborts \notin Commits /\ Emit("tick", Aborts, pub, obl)
    BY <1>8 DEF DiscoveryAborts, Events, Fallbacks, Aborts, Commits, LazyRepairs
  <2> QED BY <1>e, <2>1
<1>d. CASE Discovery
  <2>1. CASE RaiseGate \/ DiscoveryBeginsLedgers \/ DiscoverFails \/ ReleaseGate \/ TakeRepair
    BY <2>1, <1>k, <1>u DEF RaiseGate, DiscoveryBeginsLedgers, DiscoverFails, ReleaseGate, TakeRepair
  <2>2. CASE \E moved \in BOOLEAN : Discover(moved)
    BY <2>2, <1>k, <1>u DEF Discover
  <2>3. CASE ReplayRepair
    BY <1>0, <1>r, <2>3 DEF ReplayRepair
  <2> QED BY <1>d, <1>5, <1>8, <2>1, <2>2, <2>3 DEF Discovery
<1>12. CASE Enter
  <2>1. KeptSlots
    BY <1>0, <1>12, BeginKeeps DEF Enter, KeptSlots, Same
  <2> QED BY <2>1, <1>k
<1>13. ASSUME NEW changed \in BOOLEAN, BuildScripts(changed) PROVE Goal
  <2>1. KeptSlots
    BY <1>0, <1>13 DEF BuildScripts, KeptSlots, stage_scripts, PublicationStates
  <2> QED BY <2>1, <1>k
<1>15. CASE NoIslandsLeft \/ WriteIslandsEntry
  <2>1. pub' = stage_islands(pub, {}) \/ pub' = stage_islands(pub, {IslandsUrl})
    BY <1>15 DEF NoIslandsLeft, WriteIslandsEntry
  <2>2. {} \in SUBSET Urls /\ {IslandsUrl} \in SUBSET Urls
    BY PublicationAssumption
  <2> QED BY <1>0, <2>1, <2>2, StagedUrls DEF Goal
<1>n. CASE Entries
  <2>1. CASE \E unsafe \in SUBSET ScriptFiles : BuildScriptsFails(unsafe)
    BY <2>1, <1>k, <1>u DEF BuildScriptsFails
  <2>2. CASE ReuseIslands \/ WriteCompanions \/ \E written \in SUBSET Files : IslandsFail(written)
    BY <2>2, <1>k, <1>u DEF ReuseIslands, WriteCompanions, IslandsFail
  <2> QED BY <1>n, <1>13, <1>15, <2>1, <2>2 DEF Entries
<1>p. CASE Pages
  <2>1. UNCHANGED pub
    BY <1>p DEF Pages, Reload, RefreshOrRenderFails, RenderPages, Prune, WriteDocument, WriteDocumentFails,
                AllWritten
  <2> QED BY <2>1, <1>k, <1>u
<1>27. CASE Commit
  <2>1. CASE ~txn.relevant
    BY <1>27, <2>1, <1>k, <1>u DEF Commit
  <2>2. CASE txn.relevant
    <3> DEFINE o == record_lazy_outputs(obl, ExistingStale)
               event == BoundaryEvent
    <3>1. Emit("tick", event, pub, o) /\ pc = "commit"
      BY <1>27, <2>2 DEF Commit
    <3>2. event \in Events /\ event # Aborts
      BY DEF BoundaryEvent, Events, Commits, LazyRepairs, Aborts
    <3>3. o \in ObligationStates /\ o.failed = obl.failed /\ ExistingStale \subseteq o.lazy
      BY <1>0 DEF record_lazy_outputs, ObligationStates, ExistingStale
    <3>4. /\ obl.failed # {} => has_eager_failures(o)
          /\ ExistingStale # {} => Preserves(o, event)
      BY <3>3 DEF has_eager_failures, has_document_failures, Preserves
    <3> HIDE DEF o, event
    <3>5. Slots'
      BY <1>0, <1>s, <3>1, <3>2, <3>3, EmitMoves, MoveSlots
    <3>6. pub' = Settled(pub, o, event)
      BY <3>1 DEF Emit
    <3>7. Offered(pub) /\ ~Losing => Named(pub')
      BY <1>0, <3>1, <3>2, <3>3, <3>4, <3>6, SettledOffers DEF Losing
    <3> QED BY <3>5, <3>7 DEF Goal
  <2> QED BY <2>1, <2>2
<1>28. CASE Drop
  <2>1. Emit("tick", txn.fallback, pub, obl)
    BY <1>28 DEF Drop
  <2>2. txn.fallback \in Events /\ txn.fallback \notin Commits
    BY <1>0, <1>28 DEF Drop, Order, Owed, Applying, Events, Fallbacks, Transactions, Commits, LazyRepairs, Aborts
  <2> QED BY <1>e, <2>1, <2>2
<1>30. CASE BootDocuments
  <2> DEFINE event == IF live = {} THEN "CommitNotExpected" ELSE "CommitReadyOnRequest"
             p == begin_document_update(pub)
  <2>1. pc = "boot" /\ Emit("tick", event, p, obl)
    BY <1>30 DEF BootDocuments
  <2>2. event \in Events
    BY DEF Events, Commits
  <2>3. p \in PublicationStates /\ Coherent(p) /\ Same(p, pub)
    BY <1>0, BeginType, BeginKeeps
  <2> HIDE DEF event, p
  <2>4. Slots'
    BY <1>0, <2>1, <2>2, <2>3, EmitMoves, MoveSlots
  <2> QED BY <2>1, <2>4 DEF Goal, Losing
<1>31. CASE BootFails
  <2>1. "LeavePending" \in Events /\ "LeavePending" \notin Commits /\ Emit("tick", "LeavePending", pub, obl)
    BY <1>31 DEF BootFails, Events, Fallbacks, Commits, LazyRepairs, Aborts
  <2> QED BY <1>e, <2>1
<1>32. ASSUME NEW t \in Threads, CommitScripts(t) \/ CommitIslands(t) PROVE Goal
  BY <1>32, <1>k, <1>u DEF CommitScripts, CommitIslands
<1>33. CASE Close \/ AbortLedgers \/ RequestChecksGate \/ RequestFinishes
  BY <1>33, <1>k, <1>u DEF Close, AbortLedgers, RequestChecksGate, RequestFinishes
<1>36. CASE RequestCommits
  BY <1>0, <1>r, <1>36 DEF RequestCommits
<1>38. CASE UNCHANGED vars
  BY <1>38, <1>k, <1>u DEF vars
<1> HIDE DEF server, control, locks, ledgers, documents
<1>t. CASE TickThread
  BY <1>t, <1>0, <1>d, <1>12, <1>n, <1>p, <1>27, <1>28, <1>30, <1>31, <1>32, <1>33 DEF TickThread
<1>q. CASE RequestThread
  BY <1>q, <1>0, <1>32, <1>33, <1>36 DEF RequestThread
<1> QED BY <1>1, <1>2, <1>t, <1>q, <1>38 DEF Next

-----------------------------------------------------------------------------
(* Who keeps an old body's URL.  While the newest declaration has no       *)
(* islands, a body with markers is stale, waits to be written, failed, or  *)
(* belongs to a document that is about to be removed; only the apply that  *)
(* took the islands away has not come to marking it yet.                   *)
Departing ==
  \/ pc \in {"render", "write", "prune", "drop"}
  \/ plan.fresh /\ pc \in {"enter", "scripts", "islands", "entry"}
Vanished == IF Departing THEN plan.gone \ live ELSE {}
Refreshing == pc \in {"reload", "render"} /\ plan.pages

Blank   == plan.boot => Bodied = {}
Batched ==
  /\ plan.islands => plan.pages \/ plan.boot
  /\ pc \in {"islands", "entry"} => plan.islands
Routed ==
  /\ stale \subseteq live /\ todo \subseteq live
  /\ pc # "write" => todo = {}
Removed == \A d \in Bodied \ (live \cup lost) : d \in obl.failed \cup Vanished
Marked  ==
  ~Declared(pub) /\ ~Refreshing =>
    \A d \in Docs \ lost : body[d] = "islands" => d \in stale \cup todo \cup obl.failed \cup Vanished

MarkInv == IslandsInv /\ Slots /\ Blank /\ Batched /\ Routed /\ Removed /\ Marked

(* An apply under way keeps its batch.                                     *)
SameBatch ==
  /\ UNCHANGED body
  /\ plan'.boot = plan.boot /\ plan'.islands = plan.islands /\ plan'.pages = plan.pages
  /\ pc' \in {"islands", "entry"} => plan.islands

LEMMA BatchStep ==
  ASSUME Inv, Blank, Batched, [Next]_vars
  PROVE  Blank' /\ Batched'
<1> DEFINE Goal == Blank' /\ Batched'
<1>0. /\ plan \in Plans /\ Order /\ Batches \subseteq BatchType
  BY PublicationAssumption DEF Inv, Types, TypeOK
<1>k. SameBatch => Goal
  BY DEF SameBatch, Blank, Batched, Bodied
<1> SUFFICES Goal
  OBVIOUS
<1> HIDE DEF Goal
<1> USE DEF server, control, locks, ledgers, documents
<1>1. ASSUME NEW s \in Sites, NEW p \in Batches, StartTick(s, p) PROVE Goal
  <2>1. plan' = p /\ pc' \in {"raise", "enter"}
    BY <1>1 DEF StartTick
  <2>2. ~p.boot /\ (p.islands => p.pages)
    BY <1>0 DEF BatchType
  <2> QED BY <2>1, <2>2 DEF Goal, Blank, Batched
<1>2. ASSUME NEW d \in Docs, NEW proven \in BOOLEAN, RequestWrites(d, proven) PROVE Goal
  <2>1. ~plan.boot /\ UNCHANGED <<plan, pc>>
    BY <1>2 DEF RequestWrites
  <2> QED BY <2>1 DEF Goal, Blank, Batched
<1>d. CASE Discovery
  <2>1. CASE \E moved \in BOOLEAN : Discover(moved)
    <3>1. SameBatch
      BY <1>0, <2>1 DEF Discover, SameBatch, Plans
    <3> QED BY <1>k, <3>1
  <2>2. CASE \/ RaiseGate \/ DiscoveryBeginsLedgers \/ DiscoveryBeginsState \/ DiscoverFails
             \/ DiscoveryAborts \/ ReleaseGate \/ TakeRepair \/ ReplayRepair
    <3>1. SameBatch
      BY <2>2 DEF RaiseGate, DiscoveryBeginsLedgers, DiscoveryBeginsState, DiscoverFails,
                  DiscoveryAborts, ReleaseGate, TakeRepair, ReplayRepair, SameBatch
    <3> QED BY <1>k, <3>1
  <2> QED BY <1>d, <2>1, <2>2 DEF Discovery
<1>12. CASE Enter
  <2>1. SameBatch
    BY <1>12 DEF Enter, SameBatch, AfterEnter, AfterScripts, AfterIslands, AfterReload
  <2> QED BY <1>k, <2>1
<1>13. CASE Entries
  <2>1. CASE \/ \E changed \in BOOLEAN : BuildScripts(changed)
             \/ \E unsafe \in SUBSET ScriptFiles : BuildScriptsFails(unsafe)
    <3>1. SameBatch
      BY <2>1 DEF BuildScripts, BuildScriptsFails, SameBatch, AfterScripts, AfterIslands, AfterReload
    <3> QED BY <1>k, <3>1
  <2>2. CASE \/ NoIslandsLeft \/ ReuseIslands \/ WriteCompanions \/ WriteIslandsEntry
             \/ \E written \in SUBSET Files : IslandsFail(written)
    <3>1. pc \in {"islands", "entry"} /\ UNCHANGED <<plan, body>>
      BY <2>2 DEF NoIslandsLeft, ReuseIslands, WriteCompanions, WriteIslandsEntry, IslandsFail
    <3>2. SameBatch
      BY <3>1 DEF SameBatch, Batched
    <3> QED BY <1>k, <3>2
  <2> QED BY <1>13, <2>1, <2>2 DEF Entries
<1>14. CASE Pages
  <2>1. CASE \E moved \in BOOLEAN : Reload(moved)
    <3>1. SameBatch
      BY <1>0, <2>1 DEF Reload, SameBatch, Plans, AfterReload
    <3> QED BY <1>k, <3>1
  <2>2. CASE \/ RefreshOrRenderFails \/ AllWritten
             \/ \E failing \in SUBSET Docs : RenderPages(failing)
             \/ \E d \in Docs : WriteDocumentFails(d)
    <3>1. SameBatch
      BY <2>2 DEF RefreshOrRenderFails, AllWritten, RenderPages, WriteDocumentFails, SameBatch
    <3> QED BY <1>k, <3>1
  <2>3. CASE \E d \in Docs : WriteDocument(d)
    <3>1. pc = "write" /\ UNCHANGED <<plan, pc>>
      BY <2>3 DEF WriteDocument
    <3> QED BY <1>0, <3>1 DEF Goal, Order, Blank, Batched
  <2>4. CASE \E failing \in SUBSET Docs : Prune(failing)
    <3>1. pc = "prune" /\ pc' = "commit" /\ UNCHANGED plan
      BY <2>4 DEF Prune
    <3> QED BY <1>0, <3>1 DEF Goal, Order, Blank, Batched
  <2> QED BY <1>14, <2>1, <2>2, <2>3, <2>4 DEF Pages
<1>15. CASE Commit \/ Drop \/ BootDocuments \/ BootFails
  <2>1. SameBatch
    BY <1>15 DEF Commit, Drop, BootDocuments, BootFails, SameBatch
  <2> QED BY <1>k, <2>1
<1>16. CASE Close
  BY <1>16 DEF Close, NoPlan, Goal, Blank, Batched
<1>17. CASE AbortLedgers \/ \E t \in Threads : CommitScripts(t) \/ CommitIslands(t)
  <2>1. UNCHANGED <<body, plan, pc>>
    BY <1>17 DEF AbortLedgers, CommitScripts, CommitIslands
  <2> QED BY <1>k, <2>1 DEF SameBatch, Batched
<1>18. CASE RequestChecksGate \/ RequestCommits \/ RequestFinishes
  <2>1. UNCHANGED <<body, plan, pc>>
    BY <1>18 DEF RequestChecksGate, RequestCommits, RequestFinishes
  <2> QED BY <1>k, <2>1 DEF SameBatch, Batched
<1>19. CASE UNCHANGED vars
  BY <1>k, <1>19 DEF vars, SameBatch, Batched
<1> HIDE DEF server, control, locks, ledgers, documents
<1>t. CASE TickThread
  BY <1>t, <1>d, <1>12, <1>13, <1>14, <1>15, <1>16, <1>17 DEF TickThread, Threads
<1>q. CASE RequestThread
  BY <1>q, <1>17, <1>18 DEF RequestThread, Threads
<1> QED BY <1>1, <1>2, <1>t, <1>q, <1>19 DEF Next

(* Most steps leave the documents and their marks alone.                   *)
Unmoved ==
  /\ UNCHANGED <<body, stale, live, lost, todo>>
  /\ obl'.failed = obl.failed
  /\ Declared(pub) => Declared(pub')
  /\ Departing => Departing' /\ plan'.gone = plan.gone
  /\ Refreshing => Refreshing'
  /\ pc = "write" /\ todo # {} => pc' = "write"

LEMMA UnmovedStep ==
  ASSUME Routed, Removed, Marked, Unmoved
  PROVE  Routed' /\ Removed' /\ Marked'
<1>1. Vanished \subseteq Vanished' /\ Bodied' = Bodied
  BY DEF Unmoved, Vanished, Bodied
<1>2. Routed'
  BY DEF Routed, Unmoved
<1>3. Removed'
  BY <1>1 DEF Removed, Unmoved
<1>4. Marked'
  <2> SUFFICES ASSUME ~Declared(pub'), ~Refreshing', NEW d \in Docs \ lost', body'[d] = "islands"
               PROVE  d \in stale' \cup todo' \cup obl'.failed \cup Vanished'
    BY DEF Marked, Declared
  <2>1. ~Declared(pub) /\ ~Refreshing /\ d \in Docs \ lost /\ body[d] = "islands"
    BY DEF Unmoved
  <2>2. d \in stale \cup todo \cup obl.failed \cup Vanished
    BY <2>1 DEF Marked
  <2> QED BY <1>1, <2>2 DEF Unmoved
<1> QED BY <1>2, <1>3, <1>4

LEMMA FailedFrames ==
  ASSUME NEW o \in ObligationStates
  PROVE  /\ \A event : Obliged(o, event).failed = o.failed
         /\ \A kind, names : /\ EntrySucceeded(o, kind).failed = o.failed
                             /\ EntryFailed(o, kind).failed = o.failed
                             /\ EntrySucceeded(record_scripts_published(o, names), kind).failed = o.failed
                             /\ EntryFailed(record_rollback_failure(o, names), kind).failed = o.failed
<1>1. \A event : Obliged(o, event).failed = o.failed
  BY DEF Obliged, AtCommit, ObligationStates
<1>2. ASSUME NEW kind, NEW names
      PROVE  /\ EntrySucceeded(o, kind).failed = o.failed
             /\ EntryFailed(o, kind).failed = o.failed
             /\ EntrySucceeded(record_scripts_published(o, names), kind).failed = o.failed
             /\ EntryFailed(record_rollback_failure(o, names), kind).failed = o.failed
  BY DEF ObligationStates, EntrySucceeded, EntryFailed, record_entry_success, record_entry_failure,
         record_scripts_published, record_rollback_failure
<1> QED BY <1>1, <1>2

(* A refresh of the renderer: what it takes from the route tables is what  *)
(* the apply will remove.                                                  *)
LEMMA RefreshMarks ==
  ASSUME stale \in SUBSET Docs, live \in SUBSET Docs, lost \in SUBSET Docs,
         Routed, Removed, Marked, NEW moved, Refresh(moved), ~Departing, Departing' /\ pc # "write",
         plan'.gone = live \ live',
         UNCHANGED <<body, lost, todo, pub, obl>>, Refreshing => Refreshing'
  PROVE  Routed' /\ Removed' /\ Marked'
<1>1. stale' = stale \cap live' /\ todo' = {} /\ todo = {}
  BY DEF Refresh, Routed
<1>2. Vanished' = live \ live' /\ Vanished = {} /\ Bodied' = Bodied
  BY <1>1 DEF Vanished, Bodied
<1>3. Routed'
  BY <1>1 DEF Routed
<1>4. Removed'
  BY <1>2 DEF Removed
<1>5. Marked'
  <2> SUFFICES ASSUME ~Declared(pub'), ~Refreshing', NEW d \in Docs \ lost', body'[d] = "islands"
               PROVE  d \in stale' \cup todo' \cup obl'.failed \cup Vanished'
    BY DEF Marked, Declared
  <2>1. d \in stale \cup obl.failed
    BY <1>1, <1>2 DEF Marked
  <2>2. d \in stale => d \in stale' \cup Vanished'
    BY <1>1, <1>2 DEF Routed
  <2> QED BY <2>1, <2>2
<1> QED BY <1>3, <1>4, <1>5

LEMMA MarkStep ==
  ASSUME IslandsInv, Slots, Blank, Batched, Routed, Removed, Marked, [Next]_vars
  PROVE  Routed' /\ Removed' /\ Marked'
<1> DEFINE Goal == Routed' /\ Removed' /\ Marked'
<1>0. /\ pub \in PublicationStates /\ obl \in ObligationStates /\ Coherent(pub) /\ hook \in [Threads -> Hooks]
      /\ plan \in Plans /\ txn \in Transactions /\ Order /\ Gates /\ Owed /\ HookOrder /\ Tracks /\ Risks
      /\ stale \in SUBSET Docs /\ live \in SUBSET Docs /\ lost \in SUBSET Docs /\ todo \in SUBSET Docs
      /\ body \in [Docs -> Bodies] /\ queue \in SUBSET Docs /\ host \in Bodies
      /\ "tick" \in Threads /\ "request" \in Threads
  BY DEF IslandsInv, ScriptInv, Inv, Types, TypeOK, Threads, Hooks
<1>s. Same(pub, pub)
  BY DEF Same
<1>u. Unmoved => Goal
  BY UnmovedStep
<1>f. /\ \A event : Obliged(obl, event).failed = obl.failed
      /\ \A kind, names : /\ EntrySucceeded(obl, kind).failed = obl.failed
                          /\ EntryFailed(obl, kind).failed = obl.failed
                          /\ EntrySucceeded(record_scripts_published(obl, names), kind).failed = obl.failed
                          /\ EntryFailed(record_rollback_failure(obl, names), kind).failed = obl.failed
  BY <1>0, FailedFrames
<1>e. ASSUME NEW event \in Events, NEW p \in PublicationStates, Coherent(p), Same(p, pub),
             Unsettled(p) <=> Unsettled(pub), Emit("tick", event, p, obl),
             event = Aborts => pc = "abort" \/ (pc = "drop" /\ txn.fallback = Aborts)
      PROVE  obl'.failed = obl.failed /\ (Declared(pub) => Declared(pub'))
  <2>1. obl'.failed = obl.failed
    BY <1>f, <1>e DEF Emit
  <2>2. event = Aborts /\ ~Unsettled(p) => ~Issued(pub.staged_islands)
    <3> SUFFICES ASSUME event = Aborts, ~Unsettled(p), Issued(pub.staged_islands) PROVE FALSE
      OBVIOUS
    <3>1. disk.phase = "staged" /\ ~Due
      BY <1>0 DEF Tracks, Stages, Issued
    <3>2. Unsettled(pub) \/ Dirty \/ pc = "boot"
      BY <1>0, <3>1 DEF Risks, Menaced
    <3>3. pc # "boot" /\ ~Dirty
      BY <1>0, <1>e DEF Dirty, Order, Applying
    <3> QED BY <1>e, <3>2, <3>3
  <2>3. Moves("tick", p, event = Aborts)
    BY <1>0, <1>e, EmitMoves
  <2>4. Declared(pub) => Declared(pub')
    BY <1>0, <1>e, <2>2, <2>3, MoveSlots
  <2> QED BY <2>1, <2>4
<1> SUFFICES Goal
  OBVIOUS
<1> HIDE DEF Goal
(* A step of the tick thread outside the documents' steps, and one of the  *)
(* other thread.                                                           *)
<1>q. ASSUME UNCHANGED <<body, stale, live, lost, todo, plan>>, obl'.failed = obl.failed,
             Declared(pub) => Declared(pub'),
             pc \notin {"reload", "render", "write", "prune", "drop"},
             pc \in {"enter", "scripts", "islands", "entry"} /\ plan.fresh =>
               pc' \in {"scripts", "islands", "entry", "render", "prune", "drop"}
      PROVE  Goal
  <2>1. Departing => Departing'
    BY <1>q DEF Departing
  <2> QED BY <1>q, <1>u, <2>1 DEF Unmoved, Refreshing
<1>r. ASSUME UNCHANGED <<body, stale, live, lost, todo, plan, pc>>, obl'.failed = obl.failed,
             Declared(pub) => Declared(pub')
      PROVE  Goal
  <2>1. (Departing => Departing') /\ (Refreshing => Refreshing')
    BY <1>r DEF Departing, Refreshing
  <2> QED BY <1>r, <1>u, <2>1 DEF Unmoved
<1>p. ASSUME NEW t \in Threads, PublishRepair(t)
      PROVE  obl'.failed = obl.failed /\ (Declared(pub) => Declared(pub'))
  <2>1. obl'.failed = obl.failed
    BY <1>f, <1>p DEF PublishRepair
  <2>2. Moves(t, pub, FALSE)
    BY <1>0, <1>p, RepairMoves
  <2> QED BY <1>0, <1>s, <2>1, <2>2, MoveSlots
<1> USE DEF server, control, locks, ledgers, documents
<1>1. ASSUME NEW s \in Sites, NEW p \in Batches, StartTick(s, p) PROVE Goal
  <2>1. UNCHANGED <<body, stale, live, lost, todo, obl, pub>> /\ pc = "idle"
    BY <1>1 DEF StartTick
  <2> QED BY <1>u, <2>1 DEF Unmoved, Departing, Refreshing
<1>2. ASSUME NEW d \in Docs, NEW proven \in BOOLEAN, RequestWrites(d, proven) PROVE Goal
  <2>1. /\ d \in live /\ body' = [body EXCEPT ![d] = host]
        /\ stale' \in {stale, stale \ {d}}
        /\ lost' = IF Undeclared /\ d \notin stale' THEN lost \cup {d} ELSE lost \ {d}
        /\ UNCHANGED <<pub, live, pc, plan, todo>>
    BY <1>2 DEF RequestWrites, Routed
  <2>2. obl.failed \ {d} \subseteq obl'.failed
    <3>1. resolve_lazy_request_path(obl, d).failed = obl.failed \ {d}
      BY <1>0 DEF resolve_lazy_request_path, resolve_documents, ObligationStates
    <3> QED BY <1>2, <3>1 DEF RequestWrites
  <2>3. Vanished' = Vanished /\ (Refreshing' <=> Refreshing) /\ (Declared(pub') <=> Declared(pub))
    BY <2>1 DEF Vanished, Departing, Refreshing
  <2>4. Routed'
    BY <2>1 DEF Routed
  <2>5. Removed'
    <3> SUFFICES ASSUME NEW e \in Bodied' \ (live' \cup lost') PROVE e \in obl'.failed \cup Vanished'
      BY DEF Removed
    <3>1. e # d /\ e \in Bodied \ (live \cup lost)
      BY <1>0, <2>1 DEF Bodied
    <3> QED BY <2>2, <2>3, <3>1 DEF Removed
  <2>6. Marked'
    <3> SUFFICES ASSUME ~Declared(pub'), ~Refreshing', NEW e \in Docs \ lost', body'[e] = "islands"
                 PROVE  e \in stale' \cup todo' \cup obl'.failed \cup Vanished'
      BY DEF Marked, Declared
    <3>1. CASE e = d
      BY <1>0, <2>1, <3>1 DEF Undeclared
    <3>2. CASE e # d
      <4>1. e \in stale \cup todo \cup obl.failed \cup Vanished
        BY <1>0, <2>1, <2>3, <3>2 DEF Marked
      <4> QED BY <2>1, <2>2, <2>3, <3>2, <4>1
    <3> QED BY <3>1, <3>2
  <2> QED BY <2>4, <2>5, <2>6 DEF Goal
<1>3. CASE Discovery
  <2>1. CASE RaiseGate \/ DiscoveryBeginsLedgers \/ DiscoverFails \/ ReleaseGate \/ TakeRepair
    <3>1. UNCHANGED <<body, stale, live, lost, todo, plan, obl, pub>>
          /\ pc \in {"raise", "begin", "discover", "aborted", "release", "replay"}
      BY <2>1 DEF RaiseGate, DiscoveryBeginsLedgers, DiscoverFails, ReleaseGate, TakeRepair
    <3> QED BY <1>q, <3>1
  <2>2. CASE DiscoveryBeginsState
    <3>1. UNCHANGED <<body, stale, live, lost, todo, plan, obl>> /\ pc = "open"
      BY <2>2 DEF DiscoveryBeginsState
    <3>2. Declared(pub) => Declared(pub')
      BY <1>0, <2>2, BeginKeeps DEF DiscoveryBeginsState, Same, Declared
    <3> QED BY <1>q, <3>1, <3>2
  <2>3. CASE \E moved \in BOOLEAN : Discover(moved)
    <3>1. PICK moved \in BOOLEAN : Discover(moved)
      BY <2>3
    <3>2. /\ Refresh(moved) /\ pc = "discover" /\ pc' = "enter"
          /\ plan'.gone = live \ live' /\ plan'.fresh
          /\ UNCHANGED <<body, lost, todo, pub, obl>>
      BY <1>0, <3>1 DEF Discover, Plans
    <3>3. ~Departing /\ Departing' /\ ~Refreshing
      BY <3>2 DEF Departing, Refreshing
    <3> QED BY <1>0, <3>2, <3>3, RefreshMarks DEF Goal
  <2>4. CASE DiscoveryAborts
    <3>1. /\ UNCHANGED <<body, stale, live, lost, todo, plan>>
          /\ pc = "abort" /\ Emit("tick", Aborts, pub, obl)
      BY <2>4 DEF DiscoveryAborts
    <3>2. Aborts \in Events
      BY DEF Events, Fallbacks, Aborts
    <3>3. obl'.failed = obl.failed /\ (Declared(pub) => Declared(pub'))
      BY <1>0, <1>s, <1>e, <3>1, <3>2
    <3> QED BY <1>q, <3>1, <3>3
  <2>5. CASE ReplayRepair
    <3>1. UNCHANGED <<body, stale, live, lost, todo, plan>> /\ pc = "replay_commit" /\ PublishRepair("tick")
      BY <2>5 DEF ReplayRepair
    <3> QED BY <1>0, <1>p, <1>q, <3>1
  <2> QED BY <1>3, <2>1, <2>2, <2>3, <2>4, <2>5 DEF Discovery
<1>4. CASE Enter
  <2>1. UNCHANGED <<body, stale, live, lost, todo, plan, obl>> /\ pc = "enter"
    BY <1>4 DEF Enter
  <2>2. Declared(pub) => Declared(pub')
    BY <1>0, <1>4, BeginKeeps DEF Enter, Same, Declared
  <2>3. plan.fresh => pc' \in {"scripts", "islands", "entry", "render", "prune", "drop"}
    BY <1>0, <1>4 DEF Enter, Order, AfterEnter, AfterScripts, AfterIslands, AfterReload
  <2> QED BY <1>q, <2>1, <2>2, <2>3
<1>5. CASE Entries
  <2>1. CASE \E changed \in BOOLEAN : BuildScripts(changed)
    <3>1. UNCHANGED <<body, stale, live, lost, todo, plan>> /\ pc = "scripts"
      BY <2>1 DEF BuildScripts
    <3>2. obl'.failed = obl.failed
      BY <1>f, <2>1 DEF BuildScripts
    <3>3. Declared(pub) => Declared(pub')
      BY <1>0, <2>1 DEF BuildScripts, stage_scripts, PublicationStates, Declared
    <3>4. plan.fresh => pc' \in {"scripts", "islands", "entry", "render", "prune", "drop"}
      BY <1>0, <2>1 DEF BuildScripts, Order, AfterScripts, AfterIslands, AfterReload
    <3> QED BY <1>q, <3>1, <3>2, <3>3, <3>4
  <2>2. CASE \E unsafe \in SUBSET ScriptFiles : BuildScriptsFails(unsafe)
    <3>1. UNCHANGED <<body, stale, live, lost, todo, plan, pub>> /\ pc = "scripts"
      BY <2>2 DEF BuildScriptsFails
    <3>2. obl'.failed = obl.failed
      BY <1>f, <2>2 DEF BuildScriptsFails
    <3>3. plan.fresh => pc' \in {"scripts", "islands", "entry", "render", "prune", "drop"}
      BY <1>0, <2>2 DEF BuildScriptsFails, Order
    <3> QED BY <1>q, <3>1, <3>2, <3>3
  <2>3. CASE NoIslandsLeft
    <3>1. UNCHANGED <<body, stale, live, lost, todo, plan>> /\ pc = "islands" /\ pc' = AfterIslands
      BY <2>3 DEF NoIslandsLeft
    <3>2. obl'.failed = obl.failed
      BY <1>f, <2>3 DEF NoIslandsLeft
    <3>3. Departing => Departing'
      BY <1>0, <3>1 DEF Departing, Order, AfterIslands, AfterReload
    <3>4. Vanished \subseteq Vanished' /\ Bodied' = Bodied
      BY <3>1, <3>3 DEF Vanished, Bodied
    <3>5. Routed'
      BY <3>1 DEF Routed
    <3>6. Removed'
      BY <3>1, <3>2, <3>4 DEF Removed
    <3>7. CASE plan.boot
      <4>1. \A d \in Docs : body'[d] # "islands"
        BY <3>1, <3>7 DEF Blank, Bodied
      <4> QED BY <3>5, <3>6, <4>1 DEF Goal, Marked
    <3>8. CASE ~plan.boot
      <4>1. plan.pages
        BY <3>1, <3>8 DEF Batched
      <4>2. Refreshing'
        BY <3>1, <3>8, <4>1 DEF Refreshing, AfterIslands, AfterReload
      <4> QED BY <3>5, <3>6, <4>2 DEF Goal, Marked
    <3> QED BY <3>7, <3>8
  <2>4. CASE ReuseIslands \/ WriteCompanions
    <3>1. UNCHANGED <<body, stale, live, lost, todo, plan, pub>> /\ pc = "islands"
      BY <2>4 DEF ReuseIslands, WriteCompanions
    <3>2. obl'.failed = obl.failed
      BY <1>f, <2>4 DEF ReuseIslands, WriteCompanions
    <3>3. plan.fresh => pc' \in {"scripts", "islands", "entry", "render", "prune", "drop"}
      BY <1>0, <2>4 DEF ReuseIslands, WriteCompanions, Order, AfterIslands, AfterReload
    <3> QED BY <1>q, <3>1, <3>2, <3>3
  <2>5. CASE WriteIslandsEntry
    <3>1. UNCHANGED <<body, stale, live, lost, todo, plan>> /\ pc = "entry" /\ pc' = AfterIslands
          /\ pub' = stage_islands(pub, {IslandsUrl})
      BY <2>5 DEF WriteIslandsEntry
    <3>2. obl'.failed = obl.failed
      BY <1>f, <2>5 DEF WriteIslandsEntry
    <3>3. Declared(pub')
      <4>1. {IslandsUrl} \in SUBSET Urls /\ {IslandsUrl} # {}
        BY PublicationAssumption
      <4> QED BY <1>0, <3>1, <4>1, StagedUrls
    <3>4. plan.fresh => pc' \in {"scripts", "islands", "entry", "render", "prune", "drop"}
      BY <1>0, <3>1 DEF Order, AfterIslands, AfterReload
    <3> QED BY <1>q, <3>1, <3>2, <3>3, <3>4
  <2>6. CASE \E written \in SUBSET Files : IslandsFail(written)
    <3>1. UNCHANGED <<body, stale, live, lost, todo, plan, pub>> /\ pc \in {"islands", "entry"}
      BY <2>6 DEF IslandsFail
    <3>2. obl'.failed = obl.failed
      BY <1>f, <2>6 DEF IslandsFail
    <3>3. plan.fresh => pc' \in {"scripts", "islands", "entry", "render", "prune", "drop"}
      BY <1>0, <2>6 DEF IslandsFail, Order
    <3> QED BY <1>q, <3>1, <3>2, <3>3
  <2> QED BY <1>5, <2>1, <2>2, <2>3, <2>4, <2>5, <2>6 DEF Entries
<1>6. CASE Commit
  <2>1. UNCHANGED <<body, stale, live, lost, todo, plan>> /\ pc = "commit"
    BY <1>6 DEF Commit
  <2>2. CASE ~txn.relevant
    <3>1. UNCHANGED <<pub, obl>>
      BY <1>6, <2>2 DEF Commit
    <3> QED BY <1>q, <2>1, <3>1
  <2>3. CASE txn.relevant
    <3> DEFINE o == record_lazy_outputs(obl, ExistingStale)
               event == BoundaryEvent
    <3>1. Emit("tick", event, pub, o)
      BY <1>6, <2>3 DEF Commit
    <3>2. event \in Events
      BY DEF BoundaryEvent, Events, Commits, LazyRepairs
    <3>3. o \in ObligationStates /\ o.failed = obl.failed
      BY <1>0 DEF record_lazy_outputs, ObligationStates, ExistingStale
    <3>4. event # Aborts
      BY DEF BoundaryEvent, Aborts
    <3> HIDE DEF o, event
    <3>5. obl'.failed = obl.failed
      BY <3>1, <3>3, FailedFrames DEF Emit
    <3>6. Moves("tick", pub, event = Aborts)
      BY <1>0, <3>1, <3>2, <3>3, EmitMoves
    <3>7. Declared(pub) => Declared(pub')
      BY <1>0, <1>s, <3>4, <3>6, MoveSlots
    <3> QED BY <1>q, <2>1, <3>5, <3>7
  <2> QED BY <2>2, <2>3
<1>7. CASE Drop
  <2>1. /\ UNCHANGED <<body, stale, live, todo, plan>> /\ lost' = lost \cup Forgotten
        /\ pc = "drop" /\ pc' = "close" /\ Emit("tick", txn.fallback, pub, obl)
    BY <1>7 DEF Drop
  <2>2. txn.fallback \in Events
    BY <1>0, <2>1 DEF Order, Owed, Applying, Events, Fallbacks, Transactions
  <2>3. obl'.failed = obl.failed /\ (Declared(pub) => Declared(pub'))
    BY <1>0, <1>s, <1>e, <2>1, <2>2
  <2>4. Vanished = plan.gone \ live /\ ~Refreshing /\ Bodied' = Bodied
    BY <2>1 DEF Vanished, Departing, Refreshing, Bodied
  <2>5. Routed'
    BY <2>1 DEF Routed
  <2>6. Removed'
    BY <2>1, <2>3, <2>4 DEF Removed, Forgotten
  <2>7. Marked'
    <3> SUFFICES ASSUME ~Declared(pub'), NEW d \in Docs \ lost', body'[d] = "islands"
                 PROVE  d \in stale' \cup todo' \cup obl'.failed
      BY DEF Marked, Declared
    <3>1. d \in stale \cup todo \cup obl.failed \cup Vanished /\ d \in Bodied
      BY <2>1, <2>3, <2>4 DEF Marked, Bodied
    <3> QED BY <2>1, <2>3, <2>4, <3>1 DEF Forgotten
  <2> QED BY <2>5, <2>6, <2>7 DEF Goal
<1>8. CASE Close
  <2>1. UNCHANGED <<body, stale, live, lost, todo, pub, obl>> /\ pc = "close"
    BY <1>8 DEF Close
  <2> QED BY <1>u, <2>1 DEF Unmoved, Departing, Refreshing
<1>9. CASE BootDocuments \/ BootFails
  <2> DEFINE event == IF live = {} THEN "CommitNotExpected" ELSE "CommitReadyOnRequest"
             p == begin_document_update(pub)
  <2>1. UNCHANGED <<body, stale, live, lost, todo, plan>> /\ pc = "boot"
    BY <1>9 DEF BootDocuments, BootFails
  <2>2. Emit("tick", event, p, obl) \/ Emit("tick", "LeavePending", pub, obl)
    BY <1>9 DEF BootDocuments, BootFails
  <2>3. event \in Events /\ event # Aborts /\ "LeavePending" \in Events /\ "LeavePending" # Aborts
    BY DEF Events, Commits, Fallbacks, Aborts
  <2>4. p \in PublicationStates /\ Coherent(p) /\ Same(p, pub) /\ (Unsettled(p) <=> Unsettled(pub))
    BY <1>0, BeginType, BeginKeeps
  <2> HIDE DEF event, p
  <2>5. obl'.failed = obl.failed /\ (Declared(pub) => Declared(pub'))
    BY <1>0, <1>s, <1>e, <2>2, <2>3, <2>4
  <2> QED BY <1>q, <2>1, <2>5
<1>10. CASE AbortLedgers \/ \E t \in Threads : CommitScripts(t) \/ CommitIslands(t)
  <2>1. UNCHANGED <<body, stale, live, lost, todo, plan, pc, pub, obl>>
    BY <1>10 DEF AbortLedgers, CommitScripts, CommitIslands
  <2> QED BY <1>r, <2>1
<1>11. CASE RequestChecksGate \/ RequestFinishes
  <2>1. UNCHANGED <<body, stale, live, lost, todo, plan, pc, pub, obl>>
    BY <1>11 DEF RequestChecksGate, RequestFinishes
  <2> QED BY <1>r, <2>1
<1>12. CASE RequestCommits
  <2>1. UNCHANGED <<body, stale, live, lost, todo, plan, pc>> /\ PublishRepair("request")
    BY <1>12 DEF RequestCommits
  <2> QED BY <1>0, <1>p, <1>r, <2>1
<1>13. CASE UNCHANGED vars
  BY <1>r, <1>13 DEF vars
<1>14. ASSUME NEW moved \in BOOLEAN, Reload(moved) PROVE Goal
  <2>1. /\ Refresh(moved) /\ pc = "reload" /\ pc' = AfterReload
        /\ plan'.gone = live \ live' /\ plan'.pages = plan.pages
        /\ UNCHANGED <<body, lost, todo, pub, obl>>
    BY <1>0, <1>14 DEF Reload, Plans
  <2>2. ~plan.fresh
    BY <1>0, <2>1 DEF Gates
  <2>3. ~Departing /\ Departing' /\ (Refreshing => Refreshing')
    BY <2>1, <2>2 DEF Departing, Refreshing, AfterReload
  <2> QED BY <1>0, <2>1, <2>3, RefreshMarks DEF Goal
<1>15. CASE RefreshOrRenderFails
  <2>1. /\ UNCHANGED <<body, stale, live, todo, obl>> /\ lost' = lost \cup (Bodied \ stale)
        /\ pc # "write"
    BY <1>15 DEF RefreshOrRenderFails
  <2>2. Routed'
    BY <2>1 DEF Routed
  <2>3. Removed'
    BY <2>1 DEF Removed, Routed, Bodied
  <2>4. Marked'
    BY <2>1 DEF Marked, Bodied
  <2> QED BY <2>2, <2>3, <2>4 DEF Goal
<1>16. ASSUME NEW failing \in SUBSET Docs, RenderPages(failing) PROVE Goal
  <2> DEFINE eager == plan.eager \cap live
  <2>1. /\ pc = "render" /\ pc' = "write" /\ failing \subseteq eager
        /\ stale' = stale \cup (live \ eager) \cup failing /\ todo' = eager \ failing
        /\ lost' = lost \ ((live \ eager) \cup failing)
        /\ UNCHANGED <<body, live, plan>>
    BY <1>16 DEF RenderPages
  <2>2. obl'.failed = (obl.failed \ (eager \ failing)) \cup failing
    BY <1>0, <1>16 DEF RenderPages, record_failure, resolve_documents, ObligationStates
  <2>3. Vanished' = Vanished /\ Bodied' = Bodied
    BY <2>1 DEF Vanished, Departing, Bodied
  <2>4. eager \subseteq live
    OBVIOUS
  <2> HIDE DEF eager
  <2>5. Routed'
    BY <2>1, <2>4 DEF Routed
  <2>6. Removed'
    BY <2>1, <2>2, <2>3, <2>4 DEF Removed
  <2>7. Marked'
    <3> SUFFICES ASSUME NEW d \in Docs \ lost', body'[d] = "islands"
                 PROVE  d \in stale' \cup todo' \cup obl'.failed \cup Vanished'
      BY DEF Marked
    <3>1. CASE d \in live
      BY <2>1, <3>1
    <3>2. CASE d \notin live
      <4>1. d \in Bodied' \ (live' \cup lost')
        BY <2>1, <3>2 DEF Bodied
      <4> QED BY <2>6, <4>1 DEF Removed
    <3> QED BY <3>1, <3>2
  <2> QED BY <2>5, <2>6, <2>7 DEF Goal
<1>17. ASSUME NEW d \in Docs, WriteDocument(d) PROVE Goal
  <2>1. /\ pc = "write" /\ d \in live /\ body' = [body EXCEPT ![d] = host]
        /\ stale' = stale \ {d} /\ todo' = todo \ {d}
        /\ lost' = IF Undeclared THEN lost \cup {d} ELSE lost \ {d}
        /\ UNCHANGED <<pub, live, pc, plan>>
    BY <1>17 DEF WriteDocument, Routed
  <2>2. obl'.failed = obl.failed \ {d}
    BY <1>0, <1>17 DEF WriteDocument, resolve_documents, ObligationStates
  <2>3. Vanished' = Vanished /\ ~Refreshing
    BY <2>1 DEF Vanished, Departing, Refreshing
  <2>4. Routed'
    BY <2>1 DEF Routed
  <2>5. Removed'
    <3> SUFFICES ASSUME NEW e \in Bodied' \ (live' \cup lost') PROVE e \in obl'.failed \cup Vanished'
      BY DEF Removed
    <3>1. e # d /\ e \in Bodied \ (live \cup lost)
      BY <1>0, <2>1 DEF Bodied
    <3> QED BY <2>2, <2>3, <3>1 DEF Removed
  <2>6. Marked'
    <3> SUFFICES ASSUME ~Declared(pub), NEW e \in Docs \ lost', body'[e] = "islands"
                 PROVE  e \in stale' \cup todo' \cup obl'.failed \cup Vanished'
      BY <2>1 DEF Marked, Declared
    <3>1. e # d
      BY <1>0, <2>1 DEF Undeclared
    <3>2. e \in stale \cup todo \cup obl.failed \cup Vanished
      BY <1>0, <2>1, <2>3, <3>1 DEF Marked
    <3> QED BY <2>1, <2>2, <2>3, <3>1, <3>2
  <2> QED BY <2>4, <2>5, <2>6 DEF Goal
<1>18. ASSUME NEW d \in Docs, WriteDocumentFails(d) PROVE Goal
  <2>1. /\ pc = "write" /\ pc' = "drop" /\ todo' = {}
        /\ lost' = lost \cup ((todo \ {d}) \cap (Bodied \ stale))
        /\ UNCHANGED <<body, stale, live, pub, plan>>
    BY <1>18 DEF WriteDocumentFails
  <2>2. obl'.failed = obl.failed \cup {d}
    BY <1>0, <1>18 DEF WriteDocumentFails, start_document_write, ObligationStates
  <2>3. Vanished' = Vanished /\ ~Refreshing /\ Bodied' = Bodied
    BY <2>1 DEF Vanished, Departing, Refreshing, Bodied
  <2>4. Routed'
    BY <2>1 DEF Routed
  <2>5. Removed'
    BY <2>1, <2>2, <2>3 DEF Removed
  <2>6. Marked'
    <3> SUFFICES ASSUME ~Declared(pub), NEW e \in Docs \ lost', body'[e] = "islands"
                 PROVE  e \in stale' \cup obl'.failed \cup Vanished'
      BY <2>1 DEF Marked, Declared
    <3>1. e \in stale \cup todo \cup obl.failed \cup Vanished /\ e \in Bodied
      BY <2>1, <2>3 DEF Marked, Bodied
    <3> QED BY <2>1, <2>2, <2>3, <3>1
  <2> QED BY <2>4, <2>5, <2>6 DEF Goal
<1>19. CASE AllWritten
  <2>1. UNCHANGED <<body, stale, live, lost, todo, plan, pub, obl>> /\ pc = "write" /\ pc' = "prune" /\ todo = {}
    BY <1>19 DEF AllWritten
  <2> QED BY <1>u, <2>1 DEF Unmoved, Departing, Refreshing
<1>20. ASSUME NEW failing \in SUBSET Docs, Prune(failing) PROVE Goal
  <2> DEFINE kept   == queue \cap live
             doomed == (plan.gone \cup queue) \ live
  <2>1. /\ pc = "prune" /\ pc' = "commit" /\ failing \subseteq doomed
        /\ body' = [d \in Docs |-> IF d \in doomed \ failing THEN "absent" ELSE body[d]]
        /\ lost' = lost \cup (kept \ stale)
        /\ UNCHANGED <<stale, live, todo, pub, plan>>
    BY <1>20 DEF Prune
  <2>2. obl'.failed = (obl.failed \ (kept \cup (doomed \ failing))) \cup failing
    BY <1>0, <1>20 DEF Prune, start_document_write, resolve_documents, ObligationStates
  <2>3. Vanished \subseteq doomed /\ ~Refreshing /\ todo = {}
    BY <2>1 DEF Vanished, Refreshing, Routed
  <2>4. kept \subseteq live /\ doomed \cap live = {}
    OBVIOUS
  <2> HIDE DEF kept, doomed
  <2>5. Routed'
    BY <2>1 DEF Routed
  <2>6. Removed'
    <3> SUFFICES ASSUME NEW d \in Bodied' \ (live' \cup lost') PROVE d \in obl'.failed
      BY DEF Removed
    <3>1. d \in Bodied \ (live \cup lost) /\ d \notin doomed \ failing
      BY <2>1 DEF Bodied
    <3>2. d \in obl.failed \cup doomed
      BY <2>3, <3>1 DEF Removed
    <3> QED BY <2>2, <2>4, <3>1, <3>2
  <2>7. Marked'
    <3> SUFFICES ASSUME ~Declared(pub), NEW d \in Docs \ lost', body'[d] = "islands"
                 PROVE  d \in stale' \cup obl'.failed
      BY <2>1 DEF Marked, Declared
    <3>1. body[d] = "islands" /\ d \notin doomed \ failing /\ d \notin lost /\ (d \in kept => d \in stale)
      BY <2>1
    <3>2. d \in stale \cup obl.failed \cup doomed
      BY <2>3, <3>1 DEF Marked
    <3> QED BY <2>1, <2>2, <3>1, <3>2
  <2> QED BY <2>5, <2>6, <2>7 DEF Goal
<1> HIDE DEF server, control, locks, ledgers, documents
<1>a. CASE Pages
  BY <1>a, <1>14, <1>15, <1>16, <1>17, <1>18, <1>19, <1>20 DEF Pages
<1>t. CASE TickThread
  BY <1>t, <1>a, <1>3, <1>4, <1>5, <1>6, <1>7, <1>8, <1>9, <1>10 DEF TickThread, Threads
<1>v. CASE RequestThread
  BY <1>v, <1>10, <1>11, <1>12 DEF RequestThread, Threads
<1> QED BY <1>1, <1>2, <1>t, <1>v, <1>13 DEF Next

LEMMA MarkInit == Init => Slots /\ Blank /\ Batched /\ Routed /\ Removed /\ Marked
<1> SUFFICES ASSUME Init PROVE Slots /\ Blank /\ Batched /\ Routed /\ Removed /\ Marked
  OBVIOUS
<1>1. /\ pub.islands = PendingSlot /\ pub.staged_islands = None /\ pub.retained = None
      /\ Bodied = {} /\ stale = live /\ todo = {} /\ plan.boot /\ pc = "scripts"
      /\ \A d \in Docs : body[d] = "absent"
  BY DEF Init, pending, Bodied, NoPlan
<1>2. Slots
  BY <1>1 DEF Slots, Issued, PendingSlot
<1> QED BY <1>1, <1>2 DEF Blank, Batched, Routed, Removed, Marked

(* A body with island markers keeps the URL of an islands entry while one  *)
(* is offered for it: when the newest declaration has no islands any more, *)
(* every such body is stale, failed or about to be removed, and the commit *)
(* of DevPublicationState that meets one retains the older declaration.    *)
THEOREM MarkersKeepTheirEntry == ~OverlappingAbort /\ Spec => BodyKeepsItsIslands
<1> SUFFICES ASSUME ~OverlappingAbort PROVE Spec => BodyKeepsItsIslands
  OBVIOUS
<1>1. Init => Slots /\ Blank /\ Batched /\ Routed /\ Removed /\ Marked
  BY MarkInit
<1>2. IslandsInv /\ Slots /\ Blank /\ Batched /\ Routed /\ Removed /\ Marked /\ [Next]_vars
        => (Slots /\ Blank /\ Batched /\ Routed /\ Removed /\ Marked)'
  <2> SUFFICES ASSUME IslandsInv, Slots, Blank, Batched, Routed, Removed, Marked, [Next]_vars
               PROVE  (Slots /\ Blank /\ Batched /\ Routed /\ Removed /\ Marked)'
    OBVIOUS
  <2>1. Inv
    BY DEF IslandsInv, ScriptInv
  <2> QED BY <2>1, UrlStep, BatchStep, MarkStep
<1>3. MarkInv /\ [Next]_vars =>
        [\A d \in Docs \ lost :
           body[d] = "islands" /\ body'[d] = "islands" /\ Offered(pub)
           => islands_urls_for_response(pub', TRUE) # {}]_vars
  <2> SUFFICES ASSUME MarkInv, [Next]_vars, NEW d \in Docs \ lost, body[d] = "islands", Offered(pub)
               PROVE  islands_urls_for_response(pub', TRUE) # {}
    OBVIOUS
  <2>1. /\ Inv /\ Order /\ Slots /\ Blank /\ Routed /\ Marked
    BY DEF MarkInv, IslandsInv, ScriptInv, Inv
  <2>2. ~Losing
    <3>1. pc # "boot"
      BY <2>1 DEF Order, Blank, Bodied
    <3>2. pc = "commit" /\ ~Declared(pub) => d \in stale \cup obl.failed
      BY <2>1 DEF Marked, Refreshing, Vanished, Departing, Routed
    <3> QED BY <3>1, <3>2 DEF Losing, ExistingStale, Bodied
  <2>3. Slots' /\ Named(pub')
    BY <2>1, <2>2, UrlStep
  <2> DEFINE choices == <<pub'.staged_islands, pub'.islands, pub'.retained>>
             usable  == {i \in 1..3 : choices[i] # None /\ choices[i].kind = "Published"}
             first   == CHOOSE i \in usable : \A j \in usable : i <= j
  <2>4. \A i \in usable : choices[i].urls # {}
    BY <2>3 DEF Slots, Issued
  <2>5. usable # {}
    BY <2>3 DEF Named, Issued
  <2>6. \E i \in usable : \A j \in usable : i <= j
    BY <2>5
  <2>7. first \in usable
    BY <2>6
  <2>8. islands_urls_for_response(pub', TRUE) = choices[first].urls
    BY <2>5 DEF islands_urls_for_response
  <2> QED BY <2>4, <2>7, <2>8
<1> QED BY <1>1, <1>2, <1>3, IslandsAlways, PTL DEF Spec, MarkInv, BodyKeepsItsIslands
=============================================================================
