--------------------------- MODULE PublicationProofs ---------------------------
(***************************************************************************)
(* Theorems about publication, for any project, any batches, any number of *)
(* ticks and failures.                                                     *)
(***************************************************************************)
EXTENDS Publication, SequenceTheorems, TLAPS

-----------------------------------------------------------------------------
(* The server's state: an open transaction or anything unsettled keeps the *)
(* documents pending.                                                      *)

Unsettled(p) == p.uncertain \/ p.entry_pending
Coherent(p)  == p.previous # "None" \/ Unsettled(p) => p.documents = "Pending"
Events == Commits \cup (Fallbacks \ {"none"})

LEMMA SlotType == ASSUME NEW urls \in SUBSET Urls PROVE slot_from_urls(urls) \in AssetSlots
BY DEF slot_from_urls, AssetSlots

LEMMA StageType ==
  ASSUME NEW p \in PublicationStates, NEW urls \in SUBSET Urls
  PROVE  /\ stage_islands(p, urls) \in PublicationStates
         /\ stage_scripts(p, urls) \in PublicationStates
         /\ Coherent(p) => Coherent(stage_islands(p, urls)) /\ Coherent(stage_scripts(p, urls))
<1>1. slot_from_urls(urls) \in AssetSlots
  BY SlotType
<1> QED BY <1>1 DEF PublicationStates, stage_islands, stage_scripts, Coherent, Unsettled

LEMMA BeginType ==
  ASSUME NEW p \in PublicationStates, Coherent(p)
  PROVE  /\ begin_document_update(p) \in PublicationStates
         /\ Coherent(begin_document_update(p))
         /\ begin_document_update(p).documents = "Pending"
         /\ Unsettled(begin_document_update(p)) <=> Unsettled(p)
BY DEF PublicationStates, DocumentSlots, begin_document_update, Coherent, Unsettled

LEMMA PendingType ==
  ASSUME NEW p \in PublicationStates, NEW docs \in DocumentSlots
  PROVE  /\ leave_document_update_pending(p) \in PublicationStates
         /\ leave_entry_update_pending(p) \in PublicationStates
         /\ leave_entry_update_pending_after_document_boundary(p, docs) \in PublicationStates
         /\ leave_document_update_pending(p).documents = "Pending"
         /\ leave_document_update_pending(p).uncertain
         /\ leave_entry_update_pending(p).documents = "Pending"
         /\ leave_entry_update_pending(p).entry_pending
         /\ leave_entry_update_pending_after_document_boundary(p, docs).documents = "Pending"
         /\ leave_entry_update_pending_after_document_boundary(p, docs).entry_pending
BY DEF PublicationStates, DocumentSlots, leave_document_update_pending, leave_entry_update_pending,
       leave_entry_update_pending_after_document_boundary

LEMMA FallbackType ==
  ASSUME NEW p \in PublicationStates, NEW retain \in BOOLEAN
  PROVE  Fallback(p, retain) \in AssetSlots \cup {None}
<1>1. p.retained \in AssetSlots \cup {None} /\ p.islands \in AssetSlots
      /\ p.staged_islands \in AssetSlots \cup {None}
  BY DEF PublicationStates
<1>2. CASE p.staged_islands = None
  BY <1>1, <1>2 DEF Fallback
<1>3. CASE p.staged_islands # None
  BY <1>1, <1>3 DEF Fallback
<1> QED BY <1>2, <1>3

LEMMA CommitType ==
  ASSUME NEW p \in PublicationStates, Coherent(p), NEW docs \in DocumentSlots, NEW retain \in BOOLEAN
  PROVE  /\ commit_document_update(p, docs, retain) \in PublicationStates
         /\ Coherent(commit_document_update(p, docs, retain))
         /\ p.uncertain => commit_document_update(p, docs, retain) = p
         /\ ~p.uncertain => /\ ~Unsettled(commit_document_update(p, docs, retain))
                            /\ commit_document_update(p, docs, retain).documents = docs
<1>1. Fallback(p, retain) \in AssetSlots \cup {None}
  BY FallbackType
<1>2. p.islands \in AssetSlots /\ p.scripts \in AssetSlots /\ p.generation \in Nat
      /\ p.staged_islands \in AssetSlots \cup {None} /\ p.staged_scripts \in AssetSlots \cup {None}
      /\ p.uncertain \in BOOLEAN
  BY DEF PublicationStates
<1>3. CASE p.uncertain
  BY <1>3 DEF commit_document_update
<1>4. CASE ~p.uncertain
  <2> DEFINE c == commit_document_update(p, docs, retain)
  <2>1. c = [generation     |-> p.generation + 1,
        islands        |-> IF p.staged_islands = None THEN p.islands ELSE p.staged_islands,
        scripts        |-> IF p.staged_scripts = None THEN p.scripts ELSE p.staged_scripts,
        documents      |-> docs,
        staged_islands |-> None,
        staged_scripts |-> None,
        retained       |-> Fallback(p, retain),
        previous       |-> "None",
        uncertain      |-> FALSE,
        entry_pending  |-> FALSE]
    BY <1>4 DEF commit_document_update
  <2>2. c \in PublicationStates
    BY <1>1, <1>2, <2>1 DEF PublicationStates
  <2>3. c.documents = docs /\ ~Unsettled(c) /\ c.previous = "None"
    BY <2>1 DEF Unsettled
  <2> QED BY <1>4, <2>2, <2>3 DEF Coherent
<1> QED BY <1>3, <1>4

LEMMA ResolveType ==
  ASSUME NEW p \in PublicationStates, Coherent(p)
  PROVE  /\ resolve_document_uncertainty(p) \in PublicationStates
         /\ Coherent(resolve_document_uncertainty(p))
         /\ ~resolve_document_uncertainty(p).uncertain
BY DEF PublicationStates, resolve_document_uncertainty, Coherent, Unsettled

LEMMA AbortType ==
  ASSUME NEW p \in PublicationStates, Coherent(p)
  PROVE  /\ abort_document_update_before_write(p) \in PublicationStates
         /\ Coherent(abort_document_update_before_write(p))
         /\ Unsettled(p) => Unsettled(abort_document_update_before_write(p))
<1> DEFINE a == abort_document_update_before_write(p)
<1> USE DEF PublicationStates, DocumentSlots, Coherent, Unsettled
<1>1. CASE p.uncertain \/ p.entry_pending
  <2>1. a = [p EXCEPT !.documents = "Pending"]
    BY <1>1 DEF abort_document_update_before_write
  <2> QED BY <1>1, <2>1
<1>2. CASE ~p.uncertain /\ ~p.entry_pending /\ p.previous \in {"None", "Pending"}
  <2>1. a = [p EXCEPT !.documents = "Pending", !.previous = "None"]
    BY <1>2 DEF abort_document_update_before_write
  <2> QED BY <1>2, <2>1
<1>3. CASE ~p.uncertain /\ ~p.entry_pending /\ p.previous \notin {"None", "Pending"}
  <2>1. a = [p EXCEPT !.documents = p.previous, !.previous = "None",
                          !.staged_islands = None, !.staged_scripts = None]
    BY <1>3 DEF abort_document_update_before_write
  <2> QED BY <1>3, <2>1
<1> QED BY <1>1, <1>2, <1>3

-----------------------------------------------------------------------------
(* Obligations: recording and resolving keep their type; a commit does not *)
(* touch what failed.                                                      *)

LEMMA FailuresType ==
  ASSUME NEW o \in ObligationStates
  PROVE  has_eager_failures(o) \in BOOLEAN /\ has_document_failures(o) \in BOOLEAN
BY DEF has_eager_failures, has_document_failures, has_entry_failures

LEMMA PreservesType ==
  ASSUME NEW o \in ObligationStates, NEW event
  PROVE  Preserves(o, event) \in BOOLEAN /\ retain_lazy_dependencies(o) \in BOOLEAN
BY DEF Preserves, IsRecovery, ObligationStates, retain_lazy_dependencies

LEMMA ObligedType ==
  ASSUME NEW o \in ObligationStates, NEW event
  PROVE  /\ Obliged(o, event) \in ObligationStates
         /\ has_eager_failures(Obliged(o, event)) <=> has_eager_failures(o)
<1>1. AtCommit(o, event) \in ObligationStates
  BY DEF AtCommit, ObligationStates, IsRecovery
<1>2. AtCommit(o, event).failed = o.failed /\ AtCommit(o, event).entries = o.entries
      /\ AtCommit(o, event).unsafe = o.unsafe
  BY DEF AtCommit, ObligationStates
<1> QED BY <1>1, <1>2 DEF Obliged, has_eager_failures, has_document_failures, has_entry_failures

-----------------------------------------------------------------------------
(* The hook's part on the state: whatever the event, the state stays       *)
(* coherent, and while something failed its documents are pending.         *)

LEMMA LeftPendingType ==
  ASSUME NEW p \in PublicationStates, NEW o \in ObligationStates, NEW event
  PROVE  /\ LeftPending(p, o, event) \in PublicationStates
         /\ LeftPending(p, o, event).documents = "Pending"
         /\ Unsettled(LeftPending(p, o, event))
<1> DEFINE docs == Documents(event, retain_lazy_dependencies(o))
<1>1. docs \in DocumentSlots
  BY PreservesType DEF Documents, DocumentSlots
<1>2. LeftPending(p, o, event) \in
        {leave_document_update_pending(p), leave_entry_update_pending(p),
         leave_entry_update_pending_after_document_boundary(p, docs)}
  BY FailuresType DEF LeftPending
<1> HIDE DEF docs
<1> QED BY <1>1, <1>2, PendingType DEF Unsettled

LEMMA CommittedType ==
  ASSUME NEW p \in PublicationStates, NEW o \in ObligationStates, NEW event, Coherent(p)
  PROVE  /\ Committed(p, o, event) \in PublicationStates
         /\ Coherent(Committed(p, o, event))
         /\ event # "CommitEntriesOnly" => ~Unsettled(Committed(p, o, event))
<1> DEFINE r == resolve_document_uncertainty(p)
           docs == Documents(event, Preserves(o, event))
           previous == IF p.previous = "None" THEN p.documents ELSE p.previous
<1>1. r \in PublicationStates /\ Coherent(r) /\ ~r.uncertain
  BY ResolveType
<1>2. docs \in DocumentSlots /\ previous \in DocumentSlots /\ "ReadyOnRequest" \in DocumentSlots
  BY DEF Documents, DocumentSlots, PublicationStates
<1>3. Preserves(o, event) \in BOOLEAN
  BY PreservesType
<1>4. CASE event \in LazyRepairs
  <2>1. Committed(p, o, event) = commit_document_update(r, "ReadyOnRequest", TRUE)
    BY <1>4 DEF Committed, commit_lazy_repair, LazyRepairs
  <2> HIDE DEF r, docs, previous
  <2> QED BY <1>1, <1>2, <2>1, CommitType
<1>5. CASE event = "CommitEntriesOnly"
  <2>1. Committed(p, o, event) = commit_document_update(p, previous, Preserves(o, event))
    BY <1>5 DEF Committed, commit_entry_update, LazyRepairs
  <2> HIDE DEF r, docs, previous
  <2> QED BY <1>2, <1>3, <1>5, <2>1, CommitType
<1>6. CASE event \notin LazyRepairs /\ event # "CommitEntriesOnly"
  <2>1. Committed(p, o, event) = commit_document_update(r, docs, Preserves(o, event))
    BY <1>6 DEF Committed
  <2> HIDE DEF r, docs, previous
  <2> QED BY <1>1, <1>2, <1>3, <2>1, CommitType
<1> QED BY <1>4, <1>5, <1>6

LEMMA SettledType ==
  ASSUME NEW p \in PublicationStates, NEW o \in ObligationStates, NEW event \in Events, Coherent(p)
  PROVE  /\ Settled(p, o, event) \in PublicationStates
         /\ Coherent(Settled(p, o, event))
         /\ has_eager_failures(o) => /\ Settled(p, o, event).documents = "Pending"
                                     /\ Unsettled(Settled(p, o, event))
         /\ event \in {"LeaveEntriesPending", "LeavePending"} => Unsettled(Settled(p, o, event))
         /\ event = Aborts /\ Unsettled(p) => Unsettled(Settled(p, o, event))
         /\ event \in LazyRepairs /\ ~has_eager_failures(o) => ~Unsettled(Settled(p, o, event))
<1>0. "LeavePending" \notin Commits /\ "LeaveEntriesPending" \notin Commits /\ Aborts \notin Commits
      /\ "LeavePending" # Aborts /\ "LeaveEntriesPending" # Aborts
      /\ LazyRepairs \subseteq Commits /\ "CommitEntriesOnly" \notin LazyRepairs
      /\ Events \subseteq Commits \cup {Aborts, "LeaveEntriesPending", "LeavePending"}
  BY DEF Commits, LazyRepairs, Aborts, Events, Fallbacks
<1>1. CASE event \in Commits \cup {Aborts} /\ has_eager_failures(o)
  <2>1. Settled(p, o, event) = LeftPending(p, o, event)
    BY <1>0, <1>1 DEF Settled
  <2> QED BY <1>0, <1>1, <2>1, LeftPendingType DEF Coherent
<1>2. CASE event \in Commits /\ ~has_eager_failures(o)
  <2>1. Settled(p, o, event) = Committed(p, o, event)
    BY <1>0, <1>2 DEF Settled
  <2> QED BY <1>0, <1>2, <2>1, CommittedType
<1>3. CASE event = Aborts /\ ~has_eager_failures(o)
  <2>1. Settled(p, o, event) = abort_document_update_before_write(p)
    BY <1>0, <1>3 DEF Settled
  <2> QED BY <1>0, <1>3, <2>1, AbortType
<1>4. CASE event \in {"LeaveEntriesPending", "LeavePending"}
  <2>1. Settled(p, o, event) \in {leave_entry_update_pending(p), leave_document_update_pending(p)}
    BY <1>0, <1>4 DEF Settled
  <2>2. "Pending" \in DocumentSlots
    BY DEF DocumentSlots
  <2> QED BY <1>0, <1>4, <2>1, <2>2, PendingType DEF Coherent, Unsettled
<1> QED BY <1>0, <1>1, <1>2, <1>3, <1>4

-----------------------------------------------------------------------------
(* The ledgers *)

LEMMA UnionType ==
  ASSUME NEW F, NEW s \in Seq(SUBSET F)
  PROVE  UNION {s[i] : i \in DOMAIN s} \subseteq F
<1>1. \A i \in DOMAIN s : s[i] \in SUBSET F
  BY LenProperties, ElementOfSeq
<1> QED BY <1>1

LEMMA YoungestType ==
  ASSUME NEW F, NEW s \in Seq(SUBSET F), NEW n \in Nat
  PROVE  /\ SubSeq(s, 1, IF Len(s) < n THEN Len(s) ELSE n) \in Seq(SUBSET F)
         /\ Len(SubSeq(s, 1, IF Len(s) < n THEN Len(s) ELSE n)) <= n
<1> DEFINE m == IF Len(s) < n THEN Len(s) ELSE n
<1>1. Len(s) \in Nat /\ m \in Nat /\ m <= Len(s) /\ m <= n
  BY LenProperties
<1>2. \A i \in 1..m : s[i] \in SUBSET F
  BY <1>1, ElementOfSeq
<1> HIDE DEF m
<1>3. SubSeq(s, 1, m) \in Seq(SUBSET F) /\ Len(SubSeq(s, 1, m)) = (IF 1 <= m THEN m - 1 + 1 ELSE 0)
  BY <1>1, <1>2, SubSeqProperties
<1>4. Len(SubSeq(s, 1, m)) <= n
  BY <1>1, <1>3
<1> QED BY <1>3, <1>4 DEF m

LEMMA PushType ==
  ASSUME NEW F, NEW s \in Seq(SUBSET F), NEW e \in SUBSET F
  PROVE  <<e>> \o s \in Seq(SUBSET F)
<1>1. <<e>> \in Seq(SUBSET F)
  OBVIOUS
<1> QED BY <1>1, ConcatProperties

LEMMA IslandsSimple ==
  ASSUME NEW l \in Islands!IslandsLedgers
  PROVE  /\ Islands!begin(l) \in Islands!IslandsLedgers
         /\ Islands!invalidate_build_reuse(l) \in Islands!IslandsLedgers
         /\ Islands!abort_islands(l) \in Islands!IslandsLedgers
BY DEF Islands!IslandsLedgers, Islands!begin, Islands!invalidate_build_reuse, Islands!abort_islands

LEMMA IslandsStaged ==
  ASSUME NEW l \in Islands!IslandsLedgers, NEW names \in SUBSET Files
  PROVE  /\ Islands!track_candidate(l, names) \in Islands!IslandsLedgers
         /\ Islands!stage(l, names) \in Islands!IslandsLedgers
         /\ \A b \in Builds : Islands!stage_build(l, names, b) \in Islands!IslandsLedgers
BY DEF Islands!IslandsLedgers, Islands!track_candidate, Islands!stage, Islands!stage_build

LEMMA IslandsCommit ==
  ASSUME NEW l \in Islands!IslandsLedgers, NEW preserve \in BOOLEAN, RetainedIslands \in Nat
  PROVE  Islands!commit_islands(l, preserve) \in Islands!IslandsLedgers
<1> DEFINE n == Islands!Promoted(l)
<1>1. n \in Islands!IslandsLedgers
  <2>1. CASE l.staged = None
    BY <2>1 DEF Islands!Promoted
  <2>2. CASE l.staged # None
    <3>1. l.live \in SUBSET Files /\ l.staged \in SUBSET Files /\ l.retained \in Seq(SUBSET Files)
          /\ l.staged_token \in Builds \cup {None}
      BY <2>2 DEF Islands!IslandsLedgers
    <3> DEFINE r == IF l.live # {} /\ l.live # l.staged THEN <<l.live>> \o l.retained ELSE l.retained
    <3>2. r \in Seq(SUBSET Files)
      BY <3>1, PushType
    <3>3. n = [l EXCEPT !.live = l.staged, !.staged = None, !.token = l.staged_token,
                        !.staged_token = None, !.retained = r]
      BY <2>2 DEF Islands!Promoted
    <3> HIDE DEF r, n
    <3> QED BY <3>1, <3>2, <3>3 DEF Islands!IslandsLedgers
  <2> QED BY <2>1, <2>2
<1> HIDE DEF n
<1>2. n.retained \in Seq(SUBSET Files) /\ n.live \in SUBSET Files /\ n.unresolved \in SUBSET Files
  BY <1>1 DEF Islands!IslandsLedgers
<1>3. CASE preserve
  <2>1. Islands!Retained(n) \subseteq Files
    BY <1>2, UnionType DEF Islands!Retained
  <2>2. Islands!commit_islands(l, preserve)
          = [n EXCEPT !.unresolved = n.unresolved \cup n.live \cup Islands!Retained(n)]
    BY <1>3 DEF Islands!commit_islands, n
  <2> QED BY <1>1, <1>2, <2>1, <2>2 DEF Islands!IslandsLedgers
<1>4. CASE ~preserve
  <2>1. Islands!Youngest(n.retained, RetainedIslands) \in Seq(SUBSET Files)
    BY <1>2, YoungestType DEF Islands!Youngest
  <2>2. Islands!commit_islands(l, preserve)
          = [n EXCEPT !.unresolved = {}, !.retained = Islands!Youngest(n.retained, RetainedIslands)]
    BY <1>4 DEF Islands!commit_islands, n
  <2> QED BY <1>1, <2>1, <2>2 DEF Islands!IslandsLedgers
<1> QED BY <1>3, <1>4

LEMMA ScriptsSimple ==
  ASSUME NEW l \in Scripts!ScriptLedgers
  PROVE  /\ Scripts!begin(l) \in Scripts!ScriptLedgers /\ Scripts!begin(l).retained = l.retained
         /\ Scripts!abort_scripts(l) \in Scripts!ScriptLedgers /\ Scripts!abort_scripts(l).retained = l.retained
BY DEF Scripts!ScriptLedgers, Scripts!begin, Scripts!abort_scripts

LEMMA ScriptsTracked ==
  ASSUME NEW l \in Scripts!ScriptLedgers, NEW names \in SUBSET ScriptFiles
  PROVE  /\ Scripts!track_candidate(l, names) \in Scripts!ScriptLedgers
         /\ Scripts!track_candidate(l, names).retained = l.retained
BY DEF Scripts!ScriptLedgers, Scripts!track_candidate

LEMMA ScriptsStaged ==
  ASSUME NEW l \in Scripts!ScriptLedgers, NEW names \in SUBSET ScriptFiles, NEW changed \in BOOLEAN
  PROVE  /\ Scripts!stage_generation(l, names, changed) \in Scripts!ScriptLedgers
         /\ Scripts!stage_generation(l, names, changed).retained = l.retained
BY DEF Scripts!ScriptLedgers, Scripts!stage_generation, Scripts!Generations

LEMMA ScriptsCommit ==
  ASSUME NEW l \in Scripts!ScriptLedgers, Len(l.retained) <= RetainedScripts, RetainedScripts \in Nat
  PROVE  /\ Scripts!commit_scripts(l) \in Scripts!ScriptLedgers
         /\ Len(Scripts!commit_scripts(l).retained) <= RetainedScripts
<1>1. CASE l.staged = None
  BY <1>1 DEF Scripts!commit_scripts
<1>2. CASE l.staged # None
  <2>1. l.live \in SUBSET ScriptFiles /\ l.staged \in Scripts!Generations /\ l.retained \in Seq(SUBSET ScriptFiles)
        /\ l.staged.names \in SUBSET ScriptFiles /\ l.staged.changed \in BOOLEAN
    BY <1>2 DEF Scripts!ScriptLedgers, Scripts!Generations
  <2>2. CASE ~l.staged.changed
    <3>1. Scripts!commit_scripts(l) = [l EXCEPT !.live = l.staged.names, !.staged = None]
      BY <1>2, <2>2 DEF Scripts!commit_scripts
    <3> QED BY <2>1, <3>1 DEF Scripts!ScriptLedgers
  <2>3. CASE l.staged.changed
    <3> DEFINE r == <<l.live>> \o l.retained
               y == Scripts!Youngest(r, RetainedScripts)
    <3>1. r \in Seq(SUBSET ScriptFiles)
      BY <2>1, PushType
    <3> HIDE DEF r
    <3>2. y \in Seq(SUBSET ScriptFiles) /\ Len(y) <= RetainedScripts
      BY <3>1, YoungestType DEF Scripts!Youngest
    <3> HIDE DEF y
    <3>3. Scripts!Aged(l) = [l EXCEPT !.live = l.staged.names, !.staged = None, !.retained = r]
      BY DEF Scripts!Aged, r
    <3>4. Scripts!Aged(l).retained = r
      BY <3>3 DEF Scripts!ScriptLedgers
    <3>5. Scripts!commit_scripts(l) = [Scripts!Aged(l) EXCEPT !.unresolved = {}, !.retained = y]
      BY <1>2, <2>3, <3>4 DEF Scripts!commit_scripts, y
    <3>6. Scripts!Aged(l) \in Scripts!ScriptLedgers
      BY <2>1, <3>1, <3>3 DEF Scripts!ScriptLedgers
    <3> QED BY <3>2, <3>5, <3>6 DEF Scripts!ScriptLedgers
  <2> QED BY <2>1, <2>2, <2>3
<1> QED BY <1>1, <1>2

-----------------------------------------------------------------------------
(* The invariant *)

Applying    == {"scripts", "islands", "entry", "reload", "render", "write", "prune", "commit", "drop"}
Discovering == {"begin", "open", "discover", "abort", "aborted", "release"}
Places      == Applying \cup Discovering \cup {"idle", "raise", "enter", "replay", "replay_commit", "boot", "close"}

Types ==
  /\ TypeOK
  /\ pc \in Places /\ req \in {"idle", "check", "commit", "finish"}
  /\ exclusion \in {"free", "tick", "request"}

(* Who may move while an apply runs: no request, and none during the boot. *)
Order ==
  /\ req # "idle" => exclusion = "request" /\ ~plan.boot
  /\ pc \in Applying /\ ~plan.boot => exclusion = "tick"
  /\ pc = "close" /\ txn.owned => exclusion = "tick"
  /\ pc = "boot" => plan.boot
  /\ pc = "entry" => site.islands # None
  /\ plan.boot => pc \in {"scripts", "islands", "entry", "boot", "close"} /\ ~txn.owned /\ ~plan.fresh

(* The gate: raised only while discovery and the apply after it own it. *)
Gates ==
  /\ gate.active => gate.pending
  /\ pc \in Discovering => gate.active
  /\ pc \in {"idle", "raise", "replay", "replay_commit", "boot"} => ~gate.active
  /\ pc = "enter" /\ ~plan.fresh => ~gate.active
  /\ pc = "close" /\ ~txn.owned => ~gate.active
  /\ pc \in Applying => (txn.owned <=> gate.pending)
  /\ pc \notin Applying \cup {"close"} => ~txn.owned
  /\ plan.fresh => pc \in Applying \cup {"enter", "close"}
  /\ pc = "reload" => ~plan.fresh
  /\ pc \in {"begin", "open", "abort", "aborted"} => txn.began
  /\ pc = "boot" => ~gate.pending
  /\ pc = "release" => ~txn.began

(* Why the documents are pending while something may still fail, and what  *)
(* keeps an inherited transaction unsettled until it commits.              *)
Boundary == pc = "close" /\ txn.owned
Owed ==
  /\ has_eager_failures(obl) => pub.documents = "Pending"
  /\ pc \in Applying /\ (plan.boot \/ txn.relevant) => pub.documents = "Pending"
  /\ pc = "boot" => pub.documents = "Pending"
  /\ pc \in Applying \ {"prune", "commit"} /\ ~plan.boot => txn.relevant
  /\ pc = "prune" /\ ~txn.relevant => queue = {} /\ plan.gone = {}
  /\ pc \in Applying /\ txn.relevant => txn.fallback # "none"
  /\ pc \in Applying => ~txn.dropped /\ (txn.owned => txn.relevant)
  /\ gate.pending /\ pc \notin {"begin", "open", "aborted"} /\ ~Boundary => pub.documents = "Pending"
  /\ gate.pending /\ ~gate.active =>
       Unsettled(pub) \/ pc = "replay_commit" \/ (pc = "replay" /\ gate.lazy) \/ Boundary
  /\ pc \in {"discover", "release"} /\ ~txn.began => Unsettled(pub) \/ gate.lazy
  /\ pc \in Applying /\ txn.owned /\ txn.fallback = Aborts =>
       Unsettled(pub) \/ (plan.fresh /\ pc # "drop") \/ (pc = "drop" /\ has_eager_failures(obl))
  /\ Boundary /\ (txn.dropped \/ has_eager_failures(obl)) => Unsettled(pub)

Inv == Types /\ Coherent(pub) /\ Order /\ Gates /\ Owed

-----------------------------------------------------------------------------
(* The hook, as an action *)

Hooks == [pc : {"none", "scripts", "islands", "abort"}, preserve : BOOLEAN]

LEMMA EmitStep ==
  ASSUME obl \in ObligationStates, hook \in [Threads -> Hooks],
         NEW t \in Threads, NEW event \in Events,
         NEW p \in PublicationStates, Coherent(p), NEW o \in ObligationStates,
         Emit(t, event, p, o)
  PROVE  /\ pub' \in PublicationStates /\ Coherent(pub)' /\ obl' \in ObligationStates
         /\ hook' \in [Threads -> Hooks]
         /\ has_eager_failures(obl)' <=> has_eager_failures(o)
         /\ has_eager_failures(o) => pub'.documents = "Pending" /\ Unsettled(pub)'
         /\ event \in {"LeaveEntriesPending", "LeavePending"} => Unsettled(pub)'
         /\ event = Aborts /\ Unsettled(p) => Unsettled(pub)'
<1>1. pub' = Settled(p, o, event) /\ obl' = Obliged(o, event)
      /\ hook' = [hook EXCEPT ![t] = AfterState(p, o, event)]
  BY DEF Emit
<1>2. AfterState(p, o, event) \in Hooks
  BY PreservesType DEF AfterState, Returned, Hooks
<1>3. hook' \in [Threads -> Hooks]
  BY <1>1, <1>2
<1>4. obl' \in ObligationStates /\ (has_eager_failures(obl)' <=> has_eager_failures(o))
  <2>1. obl' \in ObligationStates
    BY <1>1, ObligedType
  <2>2. has_eager_failures(obl)' = has_eager_failures(obl')
    BY DEF has_eager_failures, has_document_failures, has_entry_failures
  <2>3. has_eager_failures(obl') <=> has_eager_failures(o)
    BY <1>1, ObligedType
  <2> QED BY <2>1, <2>2, <2>3
<1>5. Coherent(pub)' = Coherent(pub') /\ Unsettled(pub)' = Unsettled(pub')
  BY DEF Coherent, Unsettled
<1> QED BY <1>1, <1>3, <1>4, <1>5, SettledType

LEMMA RepairStep ==
  ASSUME pub \in PublicationStates, Coherent(pub), obl \in ObligationStates,
         gate \in GateStates, hook \in [Threads -> Hooks], NEW t \in Threads, PublishRepair(t)
  PROVE  /\ pub' \in PublicationStates /\ Coherent(pub)' /\ obl' \in ObligationStates
         /\ hook' \in [Threads -> Hooks] /\ gate' \in GateStates
         /\ has_eager_failures(obl)' <=> has_eager_failures(obl)
         /\ has_eager_failures(obl) =>
              pub'.documents = "Pending" /\ Unsettled(pub)' /\ gate' = gate
         /\ ~has_eager_failures(obl) /\ gate.active =>
              pub'.documents = "Pending" /\ gate' = [gate EXCEPT !.lazy = TRUE]
         /\ ~has_eager_failures(obl) /\ ~gate.active => gate' = NoGate
<1> DEFINE e == "CommitLazyRepair"
           next == Settled(pub, obl, e)
           done == Succeeds(pub, obl, e)
<1>0. e \in Events /\ e \in LazyRepairs /\ e \in Commits /\ e # "CommitEntriesOnly"
  BY DEF Events, LazyRepairs, Commits
<1>1. done <=> ~has_eager_failures(obl)
  BY <1>0 DEF Succeeds
<1>2. /\ pub' = IF done /\ gate.active THEN begin_document_update(next) ELSE next
      /\ gate' = IF done THEN finish_request_repair(gate) ELSE gate
      /\ obl' = Obliged(obl, e)
      /\ hook' = [hook EXCEPT ![t] = AfterState(pub, obl, e)]
  BY DEF PublishRepair
<1>3. AfterState(pub, obl, e) \in Hooks
  BY PreservesType DEF AfterState, Returned, Hooks
<1>4. hook' \in [Threads -> Hooks]
  BY <1>2, <1>3
<1>5. obl' \in ObligationStates /\ (has_eager_failures(obl') <=> has_eager_failures(obl))
  BY <1>2, ObligedType
<1>6. /\ Coherent(pub)' = Coherent(pub') /\ Unsettled(pub)' = Unsettled(pub')
      /\ has_eager_failures(obl)' = has_eager_failures(obl')
  BY DEF Coherent, Unsettled, has_eager_failures, has_document_failures, has_entry_failures
<1>7. /\ next \in PublicationStates /\ Coherent(next)
      /\ has_eager_failures(obl) => next.documents = "Pending" /\ Unsettled(next)
  BY <1>0, SettledType
<1> HIDE DEF next, done, e
<1>8. pub' \in PublicationStates /\ Coherent(pub')
  BY <1>2, <1>7, BeginType
<1>9. gate' \in GateStates
  BY <1>2 DEF GateStates, finish_request_repair, NoGate
<1>10. CASE has_eager_failures(obl)
  BY <1>1, <1>2, <1>4, <1>5, <1>6, <1>7, <1>8, <1>9, <1>10
<1>11. CASE ~has_eager_failures(obl)
  <2>1. gate.active => pub'.documents = "Pending"
    BY <1>1, <1>2, <1>7, <1>11, BeginType
  <2>2. /\ gate.active => gate' = [gate EXCEPT !.lazy = TRUE]
        /\ ~gate.active => gate' = NoGate
    BY <1>1, <1>2, <1>11 DEF finish_request_repair
  <2> QED BY <1>4, <1>5, <1>6, <1>8, <1>9, <1>11, <2>1, <2>2
<1> QED BY <1>10, <1>11

-----------------------------------------------------------------------------
LEMMA ResolutionType ==
  ASSUME NEW o \in ObligationStates, NEW d \in Docs
  PROVE  resolve_lazy_request_path(o, d) \in ObligationStates
<1>1. has_entry_failures(o) \in BOOLEAN
  BY DEF has_entry_failures
<1>2. resolve_documents(o, {d}) \in ObligationStates
  BY DEF resolve_documents, ObligationStates
<1> QED BY <1>1, <1>2 DEF resolve_lazy_request_path, ObligationStates

LEMMA EntryType ==
  ASSUME NEW o \in ObligationStates, NEW kind \in EntryKinds, NEW names \in SUBSET ScriptFiles
  PROVE  /\ EntrySucceeded(o, kind) \in ObligationStates
         /\ EntryFailed(o, kind) \in ObligationStates
         /\ EntrySucceeded(record_scripts_published(o, names), kind) \in ObligationStates
         /\ EntryFailed(record_rollback_failure(o, names), kind) \in ObligationStates
BY DEF EntrySucceeded, EntryFailed, record_entry_success, record_entry_failure,
       record_scripts_published, record_rollback_failure, ObligationStates, EntryKinds

LEMMA FailsType ==
  ASSUME used \in [ticks : 0..MaxTicks, failures : 0..MaxFailures], Fails
  PROVE  used' \in [ticks : 0..MaxTicks, failures : 0..MaxFailures]
<1>1. MaxFailures \in Nat /\ used.failures \in 0..MaxFailures /\ used.failures < MaxFailures
      /\ used' = [used EXCEPT !.failures = used.failures + 1]
  BY PublicationAssumption DEF Fails
<1>2. used.failures + 1 \in 0..MaxFailures
  BY <1>1
<1> QED BY <1>1, <1>2

LEMMA DoneType ==
  ASSUME txn \in Transactions, NEW more \in BOOLEAN
  PROVE  [txn EXCEPT !.completed = @ \/ more] \in Transactions
BY DEF Transactions

LEMMA TypesStep == Inv /\ [Next]_vars => (Types /\ Coherent(pub))'
<1> SUFFICES ASSUME Types, Coherent(pub), Order, Gates, Owed, [Next]_vars
             PROVE  (Types /\ Coherent(pub))'
  BY DEF Inv
<1> USE DEF Types, TypeOK, server, ledgers, documents, control, locks, Places, Applying,
            Discovering, EntryKinds, Disks
<1>0. /\ RetainedIslands \in Nat /\ RetainedScripts \in Nat /\ MaxTicks \in Nat /\ MaxFailures \in Nat
      /\ Names \in [Builds -> SUBSET Files] /\ Sites \subseteq SiteType /\ Batches \subseteq BatchType
      /\ ScriptFiles \subseteq Urls /\ IslandsUrl \in Urls
      /\ hook \in [Threads -> Hooks] /\ Coherent(pub) /\ pub \in PublicationStates
      /\ obl \in ObligationStates /\ gate \in GateStates
  BY PublicationAssumption DEF Hooks
<1>1. ASSUME NEW s \in Sites, NEW p \in Batches, StartTick(s, p) PROVE (Types /\ Coherent(pub))'
  <2>1. site' \in SiteType /\ plan' \in Plans /\ txn' \in Transactions /\ pc' \in Places
    BY <1>0, <1>1 DEF StartTick, BatchType, NoTxn, Transactions, Fallbacks
  <2>2. used' \in [ticks : 0..MaxTicks, failures : 0..MaxFailures]
    <3>1. used.ticks \in Nat /\ used.ticks + 1 <= MaxTicks
      BY <1>0, <1>1 DEF StartTick
    <3>2. used' = [used EXCEPT !.ticks = used.ticks + 1]
      BY <1>1 DEF StartTick
    <3> QED BY <1>0, <3>1, <3>2
  <2> QED BY <1>1, <2>1, <2>2 DEF StartTick
<1>2. ASSUME NEW d \in Docs, NEW proven \in BOOLEAN, RequestWrites(d, proven) PROVE (Types /\ Coherent(pub))'
  <2>1. body' \in [Docs -> Bodies] /\ queue' \in SUBSET Docs /\ lost' \in SUBSET Docs
        /\ stale' \in SUBSET Docs /\ req' \in {"idle", "check", "commit", "finish"}
        /\ exclusion' \in {"free", "tick", "request"}
    BY <1>2 DEF RequestWrites
  <2>2. obl' \in ObligationStates
    BY <1>2, ResolutionType DEF RequestWrites
  <2>3. UNCHANGED <<pub, gate, ledgers, disk, host, live, site, pc, control, hook, publock, used>>
    BY <1>2 DEF RequestWrites
  <2> QED BY <2>1, <2>2, <2>3
<1>3. ASSUME RaiseGate PROVE (Types /\ Coherent(pub))'
  <2>1. gate' \in GateStates /\ txn' \in Transactions
    BY <1>3 DEF RaiseGate, begin_discovery, GateStates, Transactions
  <2> QED BY <1>3, <2>1 DEF RaiseGate
<1>4. ASSUME DiscoveryBeginsLedgers PROVE (Types /\ Coherent(pub))'
  <2>1. islands' \in Islands!IslandsLedgers /\ scripts' \in Scripts!ScriptLedgers
        /\ Len(scripts'.retained) <= RetainedScripts
    BY <1>4, IslandsSimple, ScriptsSimple DEF DiscoveryBeginsLedgers
  <2> QED BY <1>4, <2>1 DEF DiscoveryBeginsLedgers
<1>5. ASSUME DiscoveryBeginsState PROVE (Types /\ Coherent(pub))'
  <2>1. pub' \in PublicationStates /\ Coherent(pub')
    BY <1>5, BeginType DEF DiscoveryBeginsState
  <2> QED BY <1>5, <2>1 DEF DiscoveryBeginsState
<1>6. ASSUME NEW moved \in BOOLEAN, Discover(moved) PROVE (Types /\ Coherent(pub))'
  <2>1. gate' \in GateStates
    BY <1>6 DEF Discover, note_boundary, GateStates
  <2>2. plan' \in Plans /\ host' \in Bodies /\ live' \in SUBSET Docs /\ stale' \in SUBSET Docs
    BY <1>6 DEF Discover, Refresh, Markers, Bodies, Plans
  <2> QED BY <1>6, <2>1, <2>2 DEF Discover
<1>7. ASSUME DiscoverFails PROVE (Types /\ Coherent(pub))'
  <2>1. used' \in [ticks : 0..MaxTicks, failures : 0..MaxFailures]
    BY <1>7, FailsType DEF DiscoverFails
  <2> QED BY <1>7, <2>1 DEF DiscoverFails
<1>8. ASSUME DiscoveryAborts PROVE (Types /\ Coherent(pub))'
  <2>1. Aborts \in Events
    BY DEF Events, Fallbacks, Commits, LazyRepairs, Aborts
  <2>2. pub' \in PublicationStates /\ Coherent(pub)' /\ obl' \in ObligationStates /\ hook' \in [Threads -> Hooks]
    BY <1>8, <1>0, <2>1, EmitStep DEF DiscoveryAborts, Threads
  <2> QED BY <1>8, <2>2 DEF DiscoveryAborts, Hooks
<1>9. ASSUME ReleaseGate PROVE (Types /\ Coherent(pub))'
  <2>1. gate' \in GateStates
    BY <1>9 DEF ReleaseGate, abort_discovery, terminal_attempted, GateStates
  <2> QED BY <1>9, <2>1 DEF ReleaseGate
<1>10. ASSUME TakeRepair PROVE (Types /\ Coherent(pub))'
  <2>1. gate' \in GateStates
    BY <1>10 DEF TakeRepair, take_lazy_repair, GateStates
  <2> QED BY <1>10, <2>1 DEF TakeRepair, Hooks
<1>11. ASSUME ReplayRepair PROVE (Types /\ Coherent(pub))'
  <2>1. /\ pub' \in PublicationStates /\ Coherent(pub)' /\ obl' \in ObligationStates
        /\ hook' \in [Threads -> Hooks] /\ gate' \in GateStates
    BY <1>11, <1>0, RepairStep DEF ReplayRepair, Threads
  <2> QED BY <1>11, <2>1 DEF ReplayRepair, Hooks
<1>12. ASSUME Enter PROVE (Types /\ Coherent(pub))'
  <2>1. txn' \in Transactions
    <3>1. \E rel, own, bnd, lz \in BOOLEAN, fb \in Fallbacks :
            txn' = [NoTxn EXCEPT !.relevant = rel, !.owned = own, !.boundary = bnd, !.lazy = lz, !.fallback = fb]
      <4> DEFINE rel == plan.pages \/ plan.islands \/ plan.scripts \/ plan.ssr \/ plan.fresh
                    \/ plan.gone # {} \/ queue # {} \/ gate.pending
                 fb  == CASE ~rel -> "none"
                          [] rel /\ (gate.boundary \/ gate.lazy) -> "LeavePending"
                          [] OTHER -> Aborts
      <4>1. gate.pending \in BOOLEAN /\ gate.boundary \in BOOLEAN /\ gate.lazy \in BOOLEAN
        BY DEF GateStates
      <4>2. rel \in BOOLEAN /\ fb \in Fallbacks
        BY DEF Fallbacks
      <4>3. txn' = [NoTxn EXCEPT !.relevant = rel, !.owned = gate.pending, !.boundary = gate.boundary,
                                 !.lazy = gate.lazy, !.fallback = fb]
        BY <1>12 DEF Enter
      <4> HIDE DEF rel, fb
      <4> QED BY <4>1, <4>2, <4>3
    <3> QED BY <3>1 DEF NoTxn, Transactions
  <2>2. islands' \in Islands!IslandsLedgers /\ scripts' \in Scripts!ScriptLedgers
        /\ Len(scripts'.retained) <= RetainedScripts
    BY <1>12, IslandsSimple, ScriptsSimple DEF Enter
  <2>3. pub' \in PublicationStates /\ Coherent(pub')
    BY <1>12, BeginType DEF Enter
  <2>4. pc' \in Places
    BY <1>12 DEF Enter, AfterEnter, AfterScripts, AfterIslands, AfterReload
  <2>5. exclusion' \in {"free", "tick", "request"}
        /\ UNCHANGED <<obl, gate, disk, documents, site, plan, todo, req, hook, publock, used>>
    BY <1>12 DEF Enter
  <2> QED BY <2>1, <2>2, <2>3, <2>4, <2>5
<1>13. ASSUME NEW changed \in BOOLEAN, BuildScripts(changed) PROVE (Types /\ Coherent(pub))'
  <2> DEFINE kept == (disk.scripts \cup site.scripts) \cap (Scripts!protected_filenames(scripts) \cup site.scripts)
             new  == kept # disk.scripts \/ (changed /\ site.scripts # {})
  <2>1. site.scripts \in SUBSET ScriptFiles /\ site.scripts \in SUBSET Urls /\ disk.scripts \in SUBSET ScriptFiles
    BY <1>0 DEF SiteType
  <2>2. disk' = [disk EXCEPT !.scripts = kept] /\ kept \in SUBSET ScriptFiles /\ new \in BOOLEAN
    BY <1>13, <2>1 DEF BuildScripts
  <2>3. disk' \in Disks
    BY <2>2
  <2>4. obl' \in ObligationStates
    BY <1>13, <2>1, EntryType DEF BuildScripts
  <2>5. scripts' = Scripts!stage_generation(Scripts!track_candidate(scripts, site.scripts), site.scripts, new)
    BY <1>13 DEF BuildScripts
  <2> HIDE DEF kept, new
  <2>6. scripts' \in Scripts!ScriptLedgers /\ scripts'.retained = scripts.retained
    BY <2>1, <2>2, <2>5, ScriptsTracked, ScriptsStaged
  <2>7. pub' \in PublicationStates /\ Coherent(pub')
    BY <1>13, <2>1, StageType DEF BuildScripts
  <2>8. txn' \in Transactions
    BY <1>13 DEF BuildScripts, EntryCompleted, Transactions, Fallbacks
  <2>9. pc' \in Places
    BY <1>13 DEF BuildScripts, AfterScripts, AfterIslands, AfterReload
  <2>10. UNCHANGED <<gate, islands, documents, site, plan, todo, req, hook, locks, used>>
    BY <1>13 DEF BuildScripts
  <2> QED BY <2>3, <2>4, <2>6, <2>7, <2>8, <2>9, <2>10
<1>14. ASSUME NEW unsafe \in SUBSET ScriptFiles, BuildScriptsFails(unsafe) PROVE (Types /\ Coherent(pub))'
  <2>1. disk' \in Disks
    BY <1>14 DEF BuildScriptsFails
  <2>2. scripts' \in Scripts!ScriptLedgers /\ scripts'.retained = scripts.retained
    BY <1>14, ScriptsTracked DEF BuildScriptsFails
  <2>3. obl' \in ObligationStates
    BY <1>14, EntryType DEF BuildScriptsFails
  <2>4. pc' \in Places /\ used' \in [ticks : 0..MaxTicks, failures : 0..MaxFailures]
    BY <1>14, FailsType DEF BuildScriptsFails, AfterScripts, AfterIslands, AfterReload
  <2>5. UNCHANGED <<pub, gate, islands, documents, site, control, req, hook, locks>>
    BY <1>14 DEF BuildScriptsFails
  <2> QED BY <2>1, <2>2, <2>3, <2>4, <2>5
<1>15. ASSUME NoIslandsLeft PROVE (Types /\ Coherent(pub))'
  <2>1. pub' \in PublicationStates /\ Coherent(pub')
    BY <1>15, StageType DEF NoIslandsLeft
  <2>2. islands' \in Islands!IslandsLedgers
    BY <1>15, IslandsStaged DEF NoIslandsLeft
  <2>3. obl' \in ObligationStates
    BY <1>15, EntryType DEF NoIslandsLeft
  <2>4. pc' \in Places
    BY <1>15 DEF NoIslandsLeft, AfterIslands, AfterReload
  <2> QED BY <1>15, <2>1, <2>2, <2>3, <2>4 DEF NoIslandsLeft
<1>16. ASSUME ReuseIslands PROVE (Types /\ Coherent(pub))'
  <2>3. obl' \in ObligationStates
    BY <1>16, EntryType DEF ReuseIslands
  <2>4. pc' \in Places
    BY <1>16 DEF ReuseIslands, AfterIslands, AfterReload
  <2> QED BY <1>16, <2>3, <2>4 DEF ReuseIslands
<1>17. ASSUME WriteCompanions PROVE (Types /\ Coherent(pub))'
  <2>1. site.islands \in Builds /\ Names[site.islands] \in SUBSET Files
    BY <1>17, <1>0 DEF WriteCompanions, SiteType
  <2>2. islands' \in Islands!IslandsLedgers
    BY <1>17, <2>1, IslandsStaged DEF WriteCompanions
  <2>3. disk' \in Disks
    BY <1>17, <2>1 DEF WriteCompanions
  <2> QED BY <1>17, <2>2, <2>3 DEF WriteCompanions
<1>18. ASSUME WriteIslandsEntry PROVE (Types /\ Coherent(pub))'
  <2>0. site.islands \in Builds
    BY <1>18 DEF WriteIslandsEntry, Order, SiteType
  <2>1. site.islands \in Builds /\ Names[site.islands] \in SUBSET Files /\ {IslandsUrl} \in SUBSET Urls
    BY <1>0, <2>0
  <2>2. islands' \in Islands!IslandsLedgers
    BY <1>18, <2>0, <2>1, IslandsStaged DEF WriteIslandsEntry
  <2>3. disk' \in Disks
    BY <1>18, <2>0, <2>1 DEF WriteIslandsEntry
  <2>4. pub' \in PublicationStates /\ Coherent(pub')
    BY <1>18, <2>1, StageType DEF WriteIslandsEntry
  <2>5. obl' \in ObligationStates
    BY <1>18, EntryType DEF WriteIslandsEntry
  <2>6. txn' \in Transactions
    BY <1>18 DEF WriteIslandsEntry, EntryCompleted, Transactions, Fallbacks
  <2>7. pc' \in Places
    BY <1>18 DEF WriteIslandsEntry, AfterIslands, AfterReload
  <2>8. UNCHANGED <<gate, scripts, documents, site, plan, todo, req, hook, locks, used>>
    BY <1>18 DEF WriteIslandsEntry
  <2> QED BY <2>2, <2>3, <2>4, <2>5, <2>6, <2>7, <2>8
<1>19. ASSUME NEW written \in SUBSET Files, IslandsFail(written) PROVE (Types /\ Coherent(pub))'
  <2>1. disk' \in Disks
    BY <1>19 DEF IslandsFail
  <2>2. islands' \in Islands!IslandsLedgers
    <3>1. CASE written = {}
      BY <1>19, <3>1, IslandsSimple DEF IslandsFail
    <3>2. CASE written # {}
      <4>1. site.islands \in Builds /\ Names[site.islands] \in SUBSET Files
        BY <1>19, <1>0, <3>2 DEF IslandsFail, SiteType
      <4>2. Islands!track_candidate(islands, Names[site.islands]) \in Islands!IslandsLedgers
        BY <4>1, IslandsStaged
      <4>3. islands' = Islands!invalidate_build_reuse(Islands!track_candidate(islands, Names[site.islands]))
        BY <1>19, <3>2 DEF IslandsFail
      <4> QED BY <4>2, <4>3, IslandsSimple
    <3> QED BY <3>1, <3>2
  <2>3. obl' \in ObligationStates
    BY <1>19, EntryType DEF IslandsFail
  <2>4. pc' \in Places /\ used' \in [ticks : 0..MaxTicks, failures : 0..MaxFailures]
    BY <1>19, FailsType DEF IslandsFail, AfterIslands, AfterReload
  <2>5. UNCHANGED <<pub, gate, scripts, documents, site, control, req, hook, locks>>
    BY <1>19 DEF IslandsFail
  <2> QED BY <2>1, <2>2, <2>3, <2>4, <2>5
<1>20. ASSUME NEW moved \in BOOLEAN, Reload(moved) PROVE (Types /\ Coherent(pub))'
  <2>1. txn' \in Transactions
    BY <1>20 DEF Reload, Transactions
  <2>2. plan' \in Plans /\ host' \in Bodies /\ live' \in SUBSET Docs /\ stale' \in SUBSET Docs
    BY <1>20 DEF Reload, Refresh, Markers, Bodies, Plans
  <2>3. pc' \in Places
    BY <1>20 DEF Reload, AfterReload
  <2> QED BY <1>20, <2>1, <2>2, <2>3 DEF Reload
<1>21. ASSUME RefreshOrRenderFails PROVE (Types /\ Coherent(pub))'
  <2>1. txn' \in Transactions
    BY <1>21 DEF RefreshOrRenderFails, MutationStarted, Transactions, Fallbacks
  <2>2. used' \in [ticks : 0..MaxTicks, failures : 0..MaxFailures] /\ lost' \in SUBSET Docs
    BY <1>21, FailsType DEF RefreshOrRenderFails, Bodied
  <2> QED BY <1>21, <2>1, <2>2 DEF RefreshOrRenderFails
<1>22. ASSUME NEW failing \in SUBSET Docs, RenderPages(failing) PROVE (Types /\ Coherent(pub))'
  <2>1. txn' \in Transactions
    BY <1>22 DEF RenderPages, MutationStarted, Transactions, Fallbacks
  <2>2. used' \in [ticks : 0..MaxTicks, failures : 0..MaxFailures]
    BY <1>22, FailsType DEF RenderPages
  <2>3. obl' \in ObligationStates
    BY <1>22 DEF RenderPages, record_failure, resolve_documents, ObligationStates
  <2>4. stale' \in SUBSET Docs /\ todo' \in SUBSET Docs
    BY <1>22 DEF RenderPages
  <2> QED BY <1>22, <2>1, <2>2, <2>3, <2>4 DEF RenderPages
<1>23. ASSUME NEW failing \in SUBSET Docs, Prune(failing) PROVE (Types /\ Coherent(pub))'
  <2>1. txn' \in Transactions
    BY <1>23, DoneType DEF Prune
  <2>2. used' \in [ticks : 0..MaxTicks, failures : 0..MaxFailures]
    BY <1>23, FailsType DEF Prune
  <2>3. obl' \in ObligationStates
    BY <1>23 DEF Prune, start_document_write, resolve_documents, ObligationStates
  <2>4. body' \in [Docs -> Bodies] /\ queue' \in SUBSET Docs /\ lost' \in SUBSET Docs
    BY <1>23 DEF Prune, Bodies
  <2>5. pc' \in Places
        /\ UNCHANGED <<pub, gate, ledgers, disk, stale, host, live, site, plan, todo, req, hook, locks>>
    BY <1>23 DEF Prune
  <2> QED BY <2>1, <2>2, <2>3, <2>4, <2>5
<1>24. ASSUME NEW d \in Docs, WriteDocument(d) PROVE (Types /\ Coherent(pub))'
  <2>1. txn' \in Transactions
    BY <1>24 DEF WriteDocument, Transactions
  <2>2. obl' \in ObligationStates
    BY <1>24 DEF WriteDocument, resolve_documents, ObligationStates
  <2>3. body' \in [Docs -> Bodies] /\ stale' \in SUBSET Docs /\ queue' \in SUBSET Docs /\ lost' \in SUBSET Docs
        /\ todo' \in SUBSET Docs
    BY <1>24 DEF WriteDocument
  <2> QED BY <1>24, <2>1, <2>2, <2>3 DEF WriteDocument
<1>25. ASSUME NEW d \in Docs, WriteDocumentFails(d) PROVE (Types /\ Coherent(pub))'
  <2>1. used' \in [ticks : 0..MaxTicks, failures : 0..MaxFailures]
    BY <1>25, FailsType DEF WriteDocumentFails
  <2>2. obl' \in ObligationStates
    BY <1>25 DEF WriteDocumentFails, start_document_write, ObligationStates
  <2>3. lost' \in SUBSET Docs /\ todo' \in SUBSET Docs
    BY <1>25 DEF WriteDocumentFails, Bodied
  <2> QED BY <1>25, <2>1, <2>2, <2>3 DEF WriteDocumentFails
<1>26. ASSUME AllWritten PROVE (Types /\ Coherent(pub))'
  BY <1>26 DEF AllWritten
<1>27. ASSUME Commit PROVE (Types /\ Coherent(pub))'
  <2>1. txn' \in Transactions
    BY <1>27 DEF Commit, Transactions, Fallbacks
  <2>2. /\ pub' \in PublicationStates /\ Coherent(pub)' /\ obl' \in ObligationStates
        /\ hook' \in [Threads -> Hooks]
    <3>1. CASE txn.relevant
      <4>1. BoundaryEvent \in Events
        BY DEF BoundaryEvent, Events, Commits, LazyRepairs
      <4>2. record_lazy_outputs(obl, ExistingStale) \in ObligationStates
        BY DEF record_lazy_outputs, ObligationStates, ExistingStale
      <4>3. Emit("tick", BoundaryEvent, pub, record_lazy_outputs(obl, ExistingStale))
        BY <1>27, <3>1 DEF Commit
      <4> QED BY <1>0, <4>1, <4>2, <4>3, EmitStep DEF Threads
    <3>2. CASE ~txn.relevant
      <4>1. UNCHANGED <<pub, obl, hook>>
        BY <1>27, <3>2 DEF Commit
      <4> QED BY <1>0, <4>1 DEF Coherent, Unsettled
    <3> QED BY <3>1, <3>2
  <2>3. pc' \in Places /\ UNCHANGED <<gate, ledgers, disk, documents, site, plan, todo, req, locks, used>>
    BY <1>27 DEF Commit
  <2> QED BY <2>1, <2>2, <2>3 DEF Hooks
<1>28. ASSUME Drop PROVE (Types /\ Coherent(pub))'
  <2>1. txn' \in Transactions
    BY <1>28 DEF Drop, Transactions, Fallbacks
  <2>2. txn.fallback \in Events
    BY <1>28 DEF Drop, Owed, Order, Applying, Events, Transactions
  <2>3. /\ pub' \in PublicationStates /\ Coherent(pub)' /\ obl' \in ObligationStates
        /\ hook' \in [Threads -> Hooks]
    BY <1>28, <1>0, <2>2, EmitStep DEF Drop, Threads
  <2>4. lost' \in SUBSET Docs
    <3>1. Forgotten \in SUBSET Docs
      BY DEF Forgotten, Plans
    <3>2. lost' = lost \cup Forgotten
      BY <1>28 DEF Drop
    <3> QED BY <3>1, <3>2
  <2>5. pc' \in Places
        /\ UNCHANGED <<gate, ledgers, disk, body, stale, host, live, queue, site, plan, todo, req, locks, used>>
    BY <1>28 DEF Drop
  <2> QED BY <2>1, <2>3, <2>4, <2>5 DEF Hooks
<1>29. ASSUME Close PROVE (Types /\ Coherent(pub))'
  <2>1. gate' \in GateStates
    BY <1>29 DEF Close, NoGate, terminal_attempted, GateStates
  <2>2. txn' \in Transactions
    <3>1. txn.dropped \in BOOLEAN
      BY DEF Transactions
    <3> QED BY <1>29, <3>1 DEF Close, NoTxn, Transactions, Fallbacks
  <2>3. plan' \in Plans
    BY <1>29 DEF Close, NoPlan, Plans
  <2> QED BY <1>29, <2>1, <2>2, <2>3 DEF Close
<1>30. ASSUME BootDocuments PROVE (Types /\ Coherent(pub))'
  <2> DEFINE event == IF live = {} THEN "CommitNotExpected" ELSE "CommitReadyOnRequest"
  <2>1. begin_document_update(pub) \in PublicationStates /\ Coherent(begin_document_update(pub))
    BY BeginType
  <2>2. event \in Events
    BY DEF Events, Commits
  <2>3. Emit("tick", event, begin_document_update(pub), obl)
    BY <1>30 DEF BootDocuments
  <2> HIDE DEF event
  <2>4. /\ pub' \in PublicationStates /\ Coherent(pub)' /\ obl' \in ObligationStates
        /\ hook' \in [Threads -> Hooks]
    BY <1>0, <2>1, <2>2, <2>3, EmitStep DEF Threads
  <2>5. islands' \in Islands!IslandsLedgers /\ scripts' \in Scripts!ScriptLedgers
        /\ Len(scripts'.retained) <= RetainedScripts
    BY <1>30, IslandsSimple, ScriptsSimple DEF BootDocuments
  <2> QED BY <1>30, <2>4, <2>5 DEF BootDocuments, Hooks
<1>31. ASSUME BootFails PROVE (Types /\ Coherent(pub))'
  <2>1. "LeavePending" \in Events
    BY DEF Events, Fallbacks
  <2>2. pub' \in PublicationStates /\ Coherent(pub)' /\ obl' \in ObligationStates /\ hook' \in [Threads -> Hooks]
    BY <1>31, <1>0, <2>1, EmitStep DEF BootFails, Threads
  <2>3. used' \in [ticks : 0..MaxTicks, failures : 0..MaxFailures]
    BY <1>31, FailsType DEF BootFails
  <2> QED BY <1>31, <2>2, <2>3 DEF BootFails, Hooks
<1>32. ASSUME NEW t \in Threads, CommitScripts(t) PROVE (Types /\ Coherent(pub))'
  <2>1. scripts' \in Scripts!ScriptLedgers /\ Len(scripts'.retained) <= RetainedScripts
    BY <1>32, <1>0, ScriptsCommit DEF CommitScripts
  <2>2. disk' \in Disks
    BY <1>32 DEF CommitScripts
  <2>3. hook' \in [Threads -> Hooks]
    BY <1>32, <1>0 DEF CommitScripts, Hooks
  <2> QED BY <1>32, <2>1, <2>2, <2>3 DEF CommitScripts, Hooks
<1>33. ASSUME NEW t \in Threads, CommitIslands(t) PROVE (Types /\ Coherent(pub))'
  <2>1. islands' \in Islands!IslandsLedgers
    <3>1. hook[t].preserve \in BOOLEAN
      BY <1>0 DEF Hooks
    <3> QED BY <1>33, <1>0, <3>1, IslandsCommit DEF CommitIslands
  <2>2. disk' \in Disks
    BY <1>33 DEF CommitIslands, PhaseAfter
  <2>3. hook' \in [Threads -> Hooks]
    BY <1>33, <1>0 DEF CommitIslands, Hooks, Returned
  <2> QED BY <1>33, <2>1, <2>2, <2>3 DEF CommitIslands, Hooks
<1>34. ASSUME AbortLedgers PROVE (Types /\ Coherent(pub))'
  <2>1. islands' \in Islands!IslandsLedgers /\ scripts' \in Scripts!ScriptLedgers
        /\ Len(scripts'.retained) <= RetainedScripts
    BY <1>34, IslandsSimple, ScriptsSimple DEF AbortLedgers
  <2>2. disk' \in Disks
    BY <1>34 DEF AbortLedgers
  <2>3. hook' \in [Threads -> Hooks]
    BY <1>34, <1>0 DEF AbortLedgers, Hooks, Returned
  <2> QED BY <1>34, <2>1, <2>2, <2>3 DEF AbortLedgers, Hooks
<1>35. ASSUME RequestChecksGate PROVE (Types /\ Coherent(pub))'
  <2>1. gate' \in GateStates
    BY <1>35 DEF RequestChecksGate, defer_lazy_repair, GateStates
  <2> QED BY <1>35, <2>1 DEF RequestChecksGate
<1>36. ASSUME RequestCommits PROVE (Types /\ Coherent(pub))'
  <2>1. /\ pub' \in PublicationStates /\ Coherent(pub)' /\ obl' \in ObligationStates
        /\ hook' \in [Threads -> Hooks] /\ gate' \in GateStates
    BY <1>36, <1>0, RepairStep DEF RequestCommits, Threads
  <2> QED BY <1>36, <2>1 DEF RequestCommits, Hooks
<1>37. ASSUME RequestFinishes PROVE (Types /\ Coherent(pub))'
  BY <1>37 DEF RequestFinishes
<1>38. CASE UNCHANGED vars
  <2>1. Coherent(pub)'
    BY <1>0, <1>38 DEF vars, Coherent, Unsettled
  <2> HIDE DEF Transactions, Plans, Bodies
  <2>2. TypeOK'
    BY <1>38 DEF vars
  <2>3. UNCHANGED <<pc, req, exclusion>>
    BY <1>38 DEF vars
  <2> HIDE DEF TypeOK
  <2> QED BY <2>1, <2>2, <2>3
<1> HIDE DEF Types, TypeOK
<1>t. "tick" \in Threads /\ "request" \in Threads
  BY DEF Threads
<1>d. CASE Discovery
  BY <1>d, <1>3, <1>4, <1>5, <1>6, <1>7, <1>8, <1>9, <1>10, <1>11 DEF Discovery
<1>e. CASE Entries
  BY <1>e, <1>13, <1>14, <1>15, <1>16, <1>17, <1>18, <1>19 DEF Entries
<1>p. CASE Pages
  BY <1>p, <1>20, <1>21, <1>22, <1>23, <1>24, <1>25, <1>26 DEF Pages
<1>k. CASE TickThread
  BY <1>k, <1>t, <1>d, <1>e, <1>p, <1>12, <1>27, <1>28, <1>29, <1>30, <1>31, <1>32, <1>33, <1>34 DEF TickThread
<1>r. CASE RequestThread
  BY <1>r, <1>t, <1>35, <1>36, <1>37, <1>32, <1>33 DEF RequestThread
<1> QED BY <1>1, <1>2, <1>k, <1>r, <1>38 DEF Next

-----------------------------------------------------------------------------
(* Who may move *)

LEMMA EntryKeeps ==
  ASSUME txn \in Transactions, EntryCompleted \/ UNCHANGED txn
  PROVE  /\ txn'.owned = txn.owned /\ txn'.relevant = txn.relevant /\ txn'.dropped = txn.dropped
         /\ txn.fallback # "none" => txn'.fallback # "none"
         /\ EntryCompleted => txn'.fallback # Aborts
         /\ txn'.fallback = Aborts => txn.fallback = Aborts
BY DEF EntryCompleted, Transactions, Fallbacks, Aborts

LEMMA OrderStep == Inv /\ [Next]_vars => Order'
<1> SUFFICES ASSUME Types, Order, Gates, Owed, [Next]_vars PROVE Order'
  BY DEF Inv
<1>0. /\ Batches \subseteq BatchType /\ plan \in Plans /\ txn \in Transactions /\ pc \in Places
      /\ ~NoPlan.boot /\ ~NoPlan.fresh
  BY PublicationAssumption DEF Types, TypeOK, NoPlan
<1> USE DEF Order, Applying, control, locks, server, ledgers, documents
<1>1. ASSUME NEW s \in Sites, NEW p \in Batches, StartTick(s, p) PROVE Order'
  <2>1. ~p.boot /\ plan' = p /\ pc = "idle" /\ pc' \in {"raise", "enter"} /\ UNCHANGED <<req, exclusion>>
    BY <1>1, <1>0 DEF StartTick, BatchType
  <2>2. ~txn'.owned
    BY <1>1 DEF StartTick, NoTxn
  <2> QED BY <2>1, <2>2
<1>2. ASSUME NEW d \in Docs, NEW proven \in BOOLEAN, RequestWrites(d, proven) PROVE Order'
  BY <1>2, <1>0 DEF RequestWrites
<1>3. ASSUME RaiseGate PROVE Order'
  <2>1. pc = "raise" /\ pc' \in {"discover", "begin"} /\ UNCHANGED <<req, exclusion, plan>>
    BY <1>3 DEF RaiseGate
  <2> QED BY <2>1
<1>4. ASSUME DiscoveryBeginsLedgers PROVE Order'
  BY <1>4, <1>0 DEF DiscoveryBeginsLedgers
<1>5. ASSUME DiscoveryBeginsState PROVE Order'
  BY <1>5, <1>0 DEF DiscoveryBeginsState
<1>6. ASSUME NEW moved \in BOOLEAN, Discover(moved) PROVE Order'
  <2>1. pc = "discover" /\ ~plan.boot /\ pc' = "enter" /\ plan'.boot = plan.boot /\ UNCHANGED <<req, exclusion, txn>>
    BY <1>6, <1>0 DEF Discover, Plans
  <2> QED BY <2>1
<1>7. ASSUME DiscoverFails PROVE Order'
  BY <1>7, <1>0 DEF DiscoverFails
<1>8. ASSUME DiscoveryAborts PROVE Order'
  BY <1>8, <1>0 DEF DiscoveryAborts
<1>9. ASSUME ReleaseGate PROVE Order'
  BY <1>9, <1>0 DEF ReleaseGate
<1>10. ASSUME TakeRepair PROVE Order'
  BY <1>10, <1>0 DEF TakeRepair, Gates
<1>11. ASSUME ReplayRepair PROVE Order'
  BY <1>11, <1>0 DEF ReplayRepair, Gates
<1>12. ASSUME Enter PROVE Order'
  <2>1. pc = "enter" /\ exclusion = "free" /\ exclusion' = "tick" /\ UNCHANGED <<req, plan, site>>
    BY <1>12 DEF Enter
  <2>2. ~plan.boot /\ req = "idle"
    BY <2>1
  <2>3. pc' \in {"scripts", "islands", "reload", "render", "prune"}
    BY <1>12, <2>2 DEF Enter, AfterEnter, AfterScripts, AfterIslands, AfterReload
  <2> QED BY <2>1, <2>2, <2>3
<1>13. ASSUME NEW changed \in BOOLEAN, BuildScripts(changed) PROVE Order'
  BY <1>13, <1>0, EntryKeeps DEF BuildScripts, AfterScripts, AfterIslands, AfterReload
<1>14. ASSUME NEW unsafe \in SUBSET ScriptFiles, BuildScriptsFails(unsafe) PROVE Order'
  BY <1>14, <1>0 DEF BuildScriptsFails, AfterScripts, AfterIslands, AfterReload, Plans, Transactions
<1>15. ASSUME NoIslandsLeft PROVE Order'
  BY <1>15, <1>0 DEF NoIslandsLeft, AfterScripts, AfterIslands, AfterReload, Plans, Transactions
<1>16. ASSUME ReuseIslands PROVE Order'
  BY <1>16, <1>0 DEF ReuseIslands, AfterScripts, AfterIslands, AfterReload, Plans, Transactions
<1>17. ASSUME WriteCompanions PROVE Order'
  BY <1>17, <1>0 DEF WriteCompanions
<1>18. ASSUME WriteIslandsEntry PROVE Order'
  BY <1>18, <1>0, EntryKeeps DEF WriteIslandsEntry, AfterScripts, AfterIslands, AfterReload
<1>19. ASSUME NEW written \in SUBSET Files, IslandsFail(written) PROVE Order'
  BY <1>19, <1>0 DEF IslandsFail, AfterScripts, AfterIslands, AfterReload, Plans, Transactions
<1>20. ASSUME NEW moved \in BOOLEAN, Reload(moved) PROVE Order'
  BY <1>20, <1>0 DEF Reload, AfterScripts, AfterIslands, AfterReload, Plans, Transactions
<1>21. ASSUME RefreshOrRenderFails PROVE Order'
  BY <1>21, <1>0 DEF RefreshOrRenderFails
<1>22. ASSUME NEW failing \in SUBSET Docs, RenderPages(failing) PROVE Order'
  BY <1>22, <1>0 DEF RenderPages
<1>23. ASSUME NEW failing \in SUBSET Docs, Prune(failing) PROVE Order'
  BY <1>23, <1>0 DEF Prune
<1>24. ASSUME NEW d \in Docs, WriteDocument(d) PROVE Order'
  BY <1>24, <1>0 DEF WriteDocument
<1>25. ASSUME NEW d \in Docs, WriteDocumentFails(d) PROVE Order'
  BY <1>25, <1>0 DEF WriteDocumentFails
<1>26. ASSUME AllWritten PROVE Order'
  BY <1>26, <1>0 DEF AllWritten
<1>27. ASSUME Commit PROVE Order'
  BY <1>27, <1>0 DEF Commit
<1>28. ASSUME Drop PROVE Order'
  BY <1>28, <1>0 DEF Drop
<1>29. ASSUME Close PROVE Order'
  <2>1. ~plan'.boot /\ pc' = "idle" /\ UNCHANGED req
        /\ exclusion' = IF exclusion = "tick" THEN "free" ELSE exclusion
    BY <1>29, <1>0 DEF Close
  <2> QED BY <2>1
<1>30. ASSUME BootDocuments PROVE Order'
  BY <1>30, <1>0 DEF BootDocuments
<1>31. ASSUME BootFails PROVE Order'
  BY <1>31, <1>0 DEF BootFails
<1>32. ASSUME NEW t \in Threads, CommitScripts(t) PROVE Order'
  BY <1>32, <1>0 DEF CommitScripts
<1>33. ASSUME NEW t \in Threads, CommitIslands(t) PROVE Order'
  BY <1>33, <1>0 DEF CommitIslands
<1>34. ASSUME AbortLedgers PROVE Order'
  BY <1>34, <1>0 DEF AbortLedgers
<1>35. ASSUME RequestChecksGate PROVE Order'
  BY <1>35, <1>0 DEF RequestChecksGate
<1>36. ASSUME RequestCommits PROVE Order'
  BY <1>36, <1>0 DEF RequestCommits
<1>37. ASSUME RequestFinishes PROVE Order'
  BY <1>37, <1>0 DEF RequestFinishes
<1>38. CASE UNCHANGED vars
  BY <1>38 DEF vars
<1> HIDE DEF Order
<1>t. "tick" \in Threads /\ "request" \in Threads
  BY DEF Threads
<1>d. CASE Discovery
  BY <1>d, <1>3, <1>4, <1>5, <1>6, <1>7, <1>8, <1>9, <1>10, <1>11 DEF Discovery
<1>e. CASE Entries
  BY <1>e, <1>13, <1>14, <1>15, <1>16, <1>17, <1>18, <1>19 DEF Entries
<1>p. CASE Pages
  BY <1>p, <1>20, <1>21, <1>22, <1>23, <1>24, <1>25, <1>26 DEF Pages
<1>k. CASE TickThread
  BY <1>k, <1>t, <1>d, <1>e, <1>p, <1>12, <1>27, <1>28, <1>29, <1>30, <1>31, <1>32, <1>33, <1>34 DEF TickThread
<1>r. CASE RequestThread
  BY <1>r, <1>t, <1>35, <1>36, <1>37, <1>32, <1>33 DEF RequestThread
<1> QED BY <1>1, <1>2, <1>k, <1>r, <1>38 DEF Next

-----------------------------------------------------------------------------
(* The gate *)

LEMMA GatesStep == Inv /\ [Next]_vars => Gates'
<1> SUFFICES ASSUME Types, Coherent(pub), Order, Gates, [Next]_vars PROVE Gates'
  BY DEF Inv
<1>0. /\ Batches \subseteq BatchType /\ plan \in Plans /\ txn \in Transactions /\ pc \in Places
      /\ ~NoPlan.boot /\ ~NoPlan.fresh /\ gate \in GateStates /\ hook \in [Threads -> Hooks]
      /\ pub \in PublicationStates /\ obl \in ObligationStates /\ Coherent(pub)
  BY PublicationAssumption DEF Types, TypeOK, NoPlan, Hooks
<1> USE DEF Gates, Applying, Discovering, control, locks, server, ledgers, documents
<1>1. ASSUME NEW s \in Sites, NEW p \in Batches, StartTick(s, p) PROVE Gates'
  <2>1. ~p.fresh /\ plan' = p /\ pc = "idle" /\ pc' \in {"raise", "enter"} /\ UNCHANGED gate
    BY <1>1, <1>0 DEF StartTick, BatchType
  <2>2. ~txn'.owned
    BY <1>1 DEF StartTick, NoTxn
  <2> QED BY <1>0, <2>1, <2>2 DEF Places
<1>2. ASSUME NEW d \in Docs, NEW proven \in BOOLEAN, RequestWrites(d, proven) PROVE Gates'
  BY <1>2, <1>0 DEF RequestWrites, Emit
<1>3. ASSUME RaiseGate PROVE Gates'
  <2>1. pc = "raise" /\ pc' = (IF gate.pending THEN "discover" ELSE "begin") /\ UNCHANGED plan
    BY <1>3 DEF RaiseGate
  <2>2. gate'.active /\ gate'.pending /\ txn'.owned = txn.owned /\ txn'.began = ~gate.pending
    BY <1>3, <1>0 DEF RaiseGate, begin_discovery, GateStates, Transactions
  <2> QED BY <2>1, <2>2
<1>4. ASSUME DiscoveryBeginsLedgers PROVE Gates'
  BY <1>4, <1>0 DEF DiscoveryBeginsLedgers, Emit
<1>5. ASSUME DiscoveryBeginsState PROVE Gates'
  BY <1>5, <1>0 DEF DiscoveryBeginsState, Emit
<1>6. ASSUME NEW moved \in BOOLEAN, Discover(moved) PROVE Gates'
  <2>1. pc = "discover" /\ pc' = "enter" /\ plan'.fresh /\ UNCHANGED txn
    BY <1>6, <1>0 DEF Discover, Plans
  <2>2. gate'.active = gate.active /\ gate'.pending = gate.pending
    BY <1>6, <1>0 DEF Discover, note_boundary, GateStates
  <2> QED BY <2>1, <2>2
<1>7. ASSUME DiscoverFails PROVE Gates'
  BY <1>7 DEF DiscoverFails
<1>8. ASSUME DiscoveryAborts PROVE Gates'
  BY <1>8, <1>0 DEF DiscoveryAborts, Emit
<1>9. ASSUME ReleaseGate PROVE Gates'
  <2>1. pc \in {"aborted", "release"} /\ pc' = "replay" /\ UNCHANGED <<plan, txn>> /\ ~gate'.active
    BY <1>9, <1>0 DEF ReleaseGate, abort_discovery, terminal_attempted, GateStates
  <2> QED BY <2>1
<1>10. ASSUME TakeRepair PROVE Gates'
  <2>1. pc = "replay" /\ pc' \in {"replay_commit", "close"} /\ UNCHANGED <<plan, txn>>
    BY <1>10 DEF TakeRepair
  <2>2. gate'.active = gate.active
    BY <1>10, <1>0 DEF TakeRepair, take_lazy_repair, GateStates
  <2> QED BY <2>1, <2>2
<1>11. ASSUME ReplayRepair PROVE Gates'
  <2>1. pc = "replay_commit" /\ pc' = "close" /\ UNCHANGED <<plan, txn>>
    BY <1>11 DEF ReplayRepair
  <2>2. ~gate'.active
    BY <1>11, <1>0, <2>1, RepairStep DEF ReplayRepair, Threads, NoGate
  <2> QED BY <2>1, <2>2
<1>12. ASSUME Enter PROVE Gates'
  <2>1. pc = "enter" /\ UNCHANGED <<gate, plan>>
    BY <1>12 DEF Enter
  <2>2. txn'.owned = gate.pending
    BY <1>12 DEF Enter, NoTxn
  <2>3. ~plan.boot
    BY <2>1 DEF Order
  <2>4. pc' \in {"scripts", "islands", "reload", "render", "prune"} /\ (pc' = "reload" => ~plan.fresh)
    BY <1>12, <2>3 DEF Enter, AfterEnter, AfterScripts, AfterIslands, AfterReload
  <2> QED BY <1>0, <2>1, <2>2, <2>4
<1>13. ASSUME NEW changed \in BOOLEAN, BuildScripts(changed) PROVE Gates'
  <2>1. /\ pc' \in {"islands", "reload", "render", "prune", "boot"} /\ (pc' = "boot" => plan.boot)
        /\ pc' = "reload" => ~plan.fresh
        /\ pc \in {"scripts", "entry"} /\ UNCHANGED <<gate, plan>>
    BY <1>13 DEF BuildScripts, AfterScripts, AfterIslands, AfterReload
  <2>2. txn'.owned = txn.owned
    BY <1>13, <1>0, EntryKeeps DEF BuildScripts
  <2> QED BY <1>0, <2>1, <2>2 DEF Order
<1>14. ASSUME NEW unsafe \in SUBSET ScriptFiles, BuildScriptsFails(unsafe) PROVE Gates'
  <2>1. /\ pc' \in {"islands", "reload", "render", "prune", "boot", "drop"} /\ (pc' = "boot" => plan.boot)
        /\ pc' = "reload" => ~plan.fresh
        /\ pc \in {"scripts", "islands", "entry"} /\ UNCHANGED <<gate, plan, txn>>
    BY <1>14 DEF BuildScriptsFails, AfterScripts, AfterIslands, AfterReload
  <2> QED BY <1>0, <2>1 DEF Order
<1>15. ASSUME NoIslandsLeft PROVE Gates'
  <2>1. /\ pc' \in {"islands", "reload", "render", "prune", "boot", "drop"} /\ (pc' = "boot" => plan.boot)
        /\ pc' = "reload" => ~plan.fresh
        /\ pc \in {"scripts", "islands", "entry"} /\ UNCHANGED <<gate, plan, txn>>
    BY <1>15 DEF NoIslandsLeft, AfterScripts, AfterIslands, AfterReload
  <2> QED BY <1>0, <2>1 DEF Order
<1>16. ASSUME ReuseIslands PROVE Gates'
  <2>1. /\ pc' \in {"islands", "reload", "render", "prune", "boot", "drop"} /\ (pc' = "boot" => plan.boot)
        /\ pc' = "reload" => ~plan.fresh
        /\ pc \in {"scripts", "islands", "entry"} /\ UNCHANGED <<gate, plan, txn>>
    BY <1>16 DEF ReuseIslands, AfterScripts, AfterIslands, AfterReload
  <2> QED BY <1>0, <2>1 DEF Order
<1>17. ASSUME WriteCompanions PROVE Gates'
  BY <1>17, <1>0 DEF WriteCompanions, Emit
<1>18. ASSUME WriteIslandsEntry PROVE Gates'
  <2>1. /\ pc' \in {"islands", "reload", "render", "prune", "boot"} /\ (pc' = "boot" => plan.boot)
        /\ pc' = "reload" => ~plan.fresh
        /\ pc \in {"scripts", "entry"} /\ UNCHANGED <<gate, plan>>
    BY <1>18 DEF WriteIslandsEntry, AfterScripts, AfterIslands, AfterReload
  <2>2. txn'.owned = txn.owned
    BY <1>18, <1>0, EntryKeeps DEF WriteIslandsEntry
  <2> QED BY <1>0, <2>1, <2>2 DEF Order
<1>19. ASSUME NEW written \in SUBSET Files, IslandsFail(written) PROVE Gates'
  <2>1. /\ pc' \in {"islands", "reload", "render", "prune", "boot", "drop"} /\ (pc' = "boot" => plan.boot)
        /\ pc' = "reload" => ~plan.fresh
        /\ pc \in {"scripts", "islands", "entry"} /\ UNCHANGED <<gate, plan, txn>>
    BY <1>19 DEF IslandsFail, AfterScripts, AfterIslands, AfterReload
  <2> QED BY <1>0, <2>1 DEF Order
<1>20. ASSUME NEW moved \in BOOLEAN, Reload(moved) PROVE Gates'
  <2>1. pc = "reload" /\ pc' \in {"render", "prune"} /\ UNCHANGED gate
    BY <1>20 DEF Reload, AfterReload
  <2>2. txn'.owned = txn.owned /\ plan'.fresh = plan.fresh
    BY <1>20, <1>0 DEF Reload, Transactions, Plans
  <2> QED BY <1>0, <2>1, <2>2
<1>21. ASSUME RefreshOrRenderFails PROVE Gates'
  <2>1. pc \in Applying /\ pc' \in Applying \cup {"close"} /\ pc' # "reload" /\ UNCHANGED <<gate, plan>>
    BY <1>21 DEF RefreshOrRenderFails
  <2>2. txn'.owned = txn.owned
    BY <1>21, <1>0 DEF RefreshOrRenderFails, MutationStarted, Transactions
  <2> QED BY <1>0, <2>1, <2>2
<1>22. ASSUME NEW failing \in SUBSET Docs, RenderPages(failing) PROVE Gates'
  <2>1. pc \in Applying /\ pc' \in Applying \cup {"close"} /\ pc' # "reload" /\ UNCHANGED <<gate, plan>>
    BY <1>22 DEF RenderPages
  <2>2. txn'.owned = txn.owned
    BY <1>22, <1>0 DEF RenderPages, MutationStarted, Transactions
  <2> QED BY <1>0, <2>1, <2>2
<1>23. ASSUME NEW failing \in SUBSET Docs, Prune(failing) PROVE Gates'
  <2>1. pc \in Applying /\ pc' \in Applying \cup {"close"} /\ pc' # "reload" /\ UNCHANGED <<gate, plan>>
    BY <1>23 DEF Prune
  <2>2. txn'.owned = txn.owned
    BY <1>23, <1>0 DEF Prune, MutationStarted, Transactions
  <2> QED BY <1>0, <2>1, <2>2
<1>24. ASSUME NEW d \in Docs, WriteDocument(d) PROVE Gates'
  <2>1. pc \in Applying /\ pc' \in Applying \cup {"close"} /\ pc' # "reload" /\ UNCHANGED <<gate, plan>>
    BY <1>24 DEF WriteDocument
  <2>2. txn'.owned = txn.owned
    BY <1>24, <1>0 DEF WriteDocument, MutationStarted, Transactions
  <2> QED BY <1>0, <2>1, <2>2
<1>25. ASSUME NEW d \in Docs, WriteDocumentFails(d) PROVE Gates'
  BY <1>25, <1>0 DEF WriteDocumentFails, Emit
<1>26. ASSUME AllWritten PROVE Gates'
  BY <1>26, <1>0 DEF AllWritten, Emit
<1>27. ASSUME Commit PROVE Gates'
  <2>1. pc \in Applying /\ pc' \in Applying \cup {"close"} /\ pc' # "reload" /\ UNCHANGED <<gate, plan>>
    BY <1>27 DEF Commit
  <2>2. txn'.owned = txn.owned
    BY <1>27, <1>0 DEF Commit, MutationStarted, Transactions
  <2> QED BY <1>0, <2>1, <2>2
<1>28. ASSUME Drop PROVE Gates'
  <2>1. pc \in Applying /\ pc' \in Applying \cup {"close"} /\ pc' # "reload" /\ UNCHANGED <<gate, plan>>
    BY <1>28 DEF Drop
  <2>2. txn'.owned = txn.owned
    BY <1>28, <1>0 DEF Drop, MutationStarted, Transactions
  <2> QED BY <1>0, <2>1, <2>2
<1>29. ASSUME Close PROVE Gates'
  <2>1. ~plan'.fresh /\ pc = "close" /\ pc' = "idle"
    BY <1>29, <1>0 DEF Close
  <2>2. ~txn'.owned
    BY <1>29 DEF Close, NoTxn
  <2>3. ~gate'.active
    BY <1>29, <1>0, <2>1 DEF Close, NoGate, terminal_attempted, GateStates
  <2> QED BY <1>0, <2>1, <2>2, <2>3
<1>30. ASSUME BootDocuments PROVE Gates'
  BY <1>30, <1>0 DEF BootDocuments, Emit
<1>31. ASSUME BootFails PROVE Gates'
  BY <1>31, <1>0 DEF BootFails, Emit
<1>32. ASSUME NEW t \in Threads, CommitScripts(t) PROVE Gates'
  BY <1>32, <1>0 DEF CommitScripts, Emit
<1>33. ASSUME NEW t \in Threads, CommitIslands(t) PROVE Gates'
  BY <1>33, <1>0 DEF CommitIslands, Emit
<1>34. ASSUME AbortLedgers PROVE Gates'
  BY <1>34, <1>0 DEF AbortLedgers, Emit
<1>35. ASSUME RequestChecksGate PROVE Gates'
  <2>1. UNCHANGED <<pc, plan, txn>>
    BY <1>35 DEF RequestChecksGate
  <2>2. gate'.active = gate.active /\ gate'.pending = gate.pending
    BY <1>35, <1>0 DEF RequestChecksGate, defer_lazy_repair, GateStates
  <2> QED BY <2>1, <2>2
<1>36. ASSUME RequestCommits PROVE Gates'
  <2>1. UNCHANGED <<pc, plan, txn>> /\ exclusion = "request"
    BY <1>36 DEF RequestCommits, Order
  <2>2. pc \notin Applying \/ plan.boot
    BY <2>1 DEF Order
  <2>3. ~(pc = "close" /\ txn.owned) /\ ~plan.boot
    BY <1>36, <2>1 DEF RequestCommits, Order
  <2>4. gate' \in {gate, [gate EXCEPT !.lazy = TRUE]} \/ (~gate.active /\ gate' = NoGate)
    BY <1>36, <1>0, RepairStep DEF RequestCommits, Threads
  <2>5. CASE gate'.active = gate.active /\ gate'.pending = gate.pending
    BY <2>1, <2>5
  <2>6. CASE ~gate.active /\ gate' = NoGate
    BY <2>1, <2>2, <2>3, <2>6 DEF NoGate
  <2> QED BY <1>0, <2>4, <2>5, <2>6 DEF GateStates
<1>37. ASSUME RequestFinishes PROVE Gates'
  BY <1>37, <1>0 DEF RequestFinishes, Emit
<1>38. CASE UNCHANGED vars
  BY <1>38 DEF vars
<1> HIDE DEF Gates
<1>t. "tick" \in Threads /\ "request" \in Threads
  BY DEF Threads
<1>d. CASE Discovery
  BY <1>d, <1>3, <1>4, <1>5, <1>6, <1>7, <1>8, <1>9, <1>10, <1>11 DEF Discovery
<1>e. CASE Entries
  BY <1>e, <1>13, <1>14, <1>15, <1>16, <1>17, <1>18, <1>19 DEF Entries
<1>p. CASE Pages
  BY <1>p, <1>20, <1>21, <1>22, <1>23, <1>24, <1>25, <1>26 DEF Pages
<1>k. CASE TickThread
  BY <1>k, <1>t, <1>d, <1>e, <1>p, <1>12, <1>27, <1>28, <1>29, <1>30, <1>31, <1>32, <1>33, <1>34 DEF TickThread
<1>r. CASE RequestThread
  BY <1>r, <1>t, <1>35, <1>36, <1>37, <1>32, <1>33 DEF RequestThread
<1> QED BY <1>1, <1>2, <1>k, <1>r, <1>38 DEF Next

-----------------------------------------------------------------------------
(* What is owed *)

LEMMA Frames ==
  /\ UNCHANGED obl => (has_eager_failures(obl)' <=> has_eager_failures(obl))
  /\ has_eager_failures(obl)' <=> has_eager_failures(obl')
  /\ UNCHANGED pub => (Unsettled(pub)' <=> Unsettled(pub))
  /\ Unsettled(pub)' <=> Unsettled(pub')
BY DEF has_eager_failures, has_document_failures, has_entry_failures, Unsettled

LEMMA OwedStep == Inv /\ [Next]_vars => Owed'
<1> SUFFICES ASSUME Types, Coherent(pub), Order, Gates, Owed, [Next]_vars, Coherent(pub)' PROVE Owed'
  BY TypesStep DEF Inv
<1>0. /\ Batches \subseteq BatchType /\ plan \in Plans /\ txn \in Transactions /\ pc \in Places
      /\ ~NoPlan.boot /\ ~NoPlan.fresh /\ gate \in GateStates /\ hook \in [Threads -> Hooks]
      /\ pub \in PublicationStates /\ obl \in ObligationStates /\ Coherent(pub)
  BY PublicationAssumption DEF Types, TypeOK, NoPlan, Hooks
<1>c. /\ Unsettled(pub) => pub.documents = "Pending"
      /\ Unsettled(pub)' => pub'.documents = "Pending"
  BY DEF Coherent
<1> USE DEF Owed, Boundary, Applying, Discovering, control, locks, server, ledgers, documents
<1>1. ASSUME NEW s \in Sites, NEW p \in Batches, StartTick(s, p) PROVE Owed'
  <2>1. UNCHANGED <<pub, obl, gate>> /\ pc = "idle" /\ pc' \in {"raise", "enter"}
    BY <1>1 DEF StartTick
  <2>2. ~txn'.owned
    BY <1>1 DEF StartTick, NoTxn
  <2> QED BY <2>1, <2>2, Frames
<1>2. ASSUME NEW d \in Docs, NEW proven \in BOOLEAN, RequestWrites(d, proven) PROVE Owed'
  <2>1. UNCHANGED <<pub, gate, txn, plan, pc>> /\ exclusion = "free" /\ ~plan.boot /\ queue' \subseteq queue
    BY <1>2 DEF RequestWrites
  <2>2. has_eager_failures(obl)' => has_eager_failures(obl)
    <3>1. obl' \in {obl, resolve_documents(obl, {d}), resolve_lazy_request_path(obl, d)}
      BY <1>2 DEF RequestWrites
    <3>2. /\ obl'.failed \subseteq obl.failed
          /\ obl'.entries = obl.entries /\ obl'.unsafe = obl.unsafe
      BY <1>0, <3>1 DEF resolve_documents, resolve_lazy_request_path, ObligationStates
    <3> QED BY <3>2, Frames DEF has_eager_failures, has_document_failures, has_entry_failures
  <2> QED BY <2>1, <2>2, Frames DEF Order
<1>3. ASSUME RaiseGate PROVE Owed'
  <2>1. UNCHANGED <<pub, obl, plan>> /\ pc = "raise" /\ pc' = (IF gate.pending THEN "discover" ELSE "begin")
    BY <1>3 DEF RaiseGate
  <2>2. gate'.active /\ txn'.began = ~gate.pending
    BY <1>3, <1>0 DEF RaiseGate, begin_discovery, GateStates, Transactions
  <2> QED BY <1>0, <2>1, <2>2, Frames DEF Gates, GateStates
<1>4. ASSUME DiscoveryBeginsLedgers PROVE Owed'
  <2>1. UNCHANGED <<pub, obl, gate, txn, plan, queue>>
    BY <1>4 DEF DiscoveryBeginsLedgers
  <2>2. pc = "begin" /\ pc' = "open"
    BY <1>4 DEF DiscoveryBeginsLedgers
  <2> QED BY <2>1, <2>2, Frames DEF Order, Gates
<1>5. ASSUME DiscoveryBeginsState PROVE Owed'
  <2>1. UNCHANGED <<obl, gate, txn, plan>> /\ pc = "open" /\ pc' = "discover" /\ pub' = begin_document_update(pub)
    BY <1>5 DEF DiscoveryBeginsState
  <2>2. pub'.documents = "Pending"
    BY <1>0, <2>1, BeginType
  <2> QED BY <2>1, <2>2 DEF Gates
<1>6. ASSUME NEW moved \in BOOLEAN, Discover(moved) PROVE Owed'
  <2>1. UNCHANGED <<pub, obl, txn>> /\ pc = "discover" /\ pc' = "enter"
    BY <1>6 DEF Discover
  <2>2. gate'.active = gate.active /\ gate'.pending = gate.pending
    BY <1>6, <1>0 DEF Discover, note_boundary, GateStates
  <2> QED BY <2>1, <2>2, Frames DEF Gates
<1>7. ASSUME DiscoverFails PROVE Owed'
  <2>1. UNCHANGED <<pub, obl, gate, txn, plan, queue>>
    BY <1>7 DEF DiscoverFails
  <2>2. /\ pc = "discover" /\ pc' \in {"abort", "release"}
        /\ pc' = "release" => ~txn.began
    BY <1>7 DEF DiscoverFails
  <2> QED BY <2>1, <2>2, Frames DEF Order, Gates
<1>8. ASSUME DiscoveryAborts PROVE Owed'
  <2>1. UNCHANGED <<gate, txn, plan>> /\ pc = "abort" /\ pc' = "aborted" /\ Emit("tick", Aborts, pub, obl)
    BY <1>8 DEF DiscoveryAborts
  <2>2. Aborts \in Events
    BY DEF Events, Fallbacks, Commits, LazyRepairs, Aborts
  <2>3. has_eager_failures(obl)' => pub'.documents = "Pending"
    BY <1>0, <2>1, <2>2, EmitStep DEF Threads
  <2> QED BY <2>1, <2>3 DEF Gates
<1>9. ASSUME ReleaseGate PROVE Owed'
  <2>1. UNCHANGED <<pub, obl, txn, plan>> /\ pc \in {"aborted", "release"} /\ pc' = "replay"
    BY <1>9 DEF ReleaseGate
  <2>2. ~txn.began => gate'.pending = gate.pending /\ gate'.lazy = gate.lazy
    BY <1>9, <1>0 DEF ReleaseGate, terminal_attempted, GateStates
  <2>3. txn.began => ~gate'.pending
    BY <1>9, <1>0 DEF ReleaseGate, abort_discovery, GateStates
  <2> QED BY <2>1, <2>2, <2>3, Frames DEF Gates
<1>10. ASSUME TakeRepair PROVE Owed'
  <2>1. UNCHANGED <<pub, obl, txn, plan>> /\ pc = "replay" /\ pc' = (IF gate.lazy THEN "replay_commit" ELSE "close")
    BY <1>10 DEF TakeRepair
  <2>2. gate'.pending = gate.pending /\ gate'.active = gate.active
    BY <1>10, <1>0 DEF TakeRepair, take_lazy_repair, GateStates
  <2> QED BY <2>1, <2>2, Frames DEF Gates
<1>11. ASSUME ReplayRepair PROVE Owed'
  <2>1. UNCHANGED <<txn, plan>> /\ pc = "replay_commit" /\ pc' = "close" /\ PublishRepair("tick") /\ ~gate.active
    BY <1>11 DEF ReplayRepair, Gates
  <2>2. has_eager_failures(obl)' => pub'.documents = "Pending" /\ Unsettled(pub)'
    BY <1>0, <2>1, RepairStep DEF Threads
  <2>3. ~has_eager_failures(obl)' => ~gate'.pending
    BY <1>0, <2>1, RepairStep DEF Threads, NoGate
  <2> QED BY <2>1, <2>2, <2>3 DEF Gates
<1>12. ASSUME Enter PROVE Owed'
  <2> DEFINE rel == plan.pages \/ plan.islands \/ plan.scripts \/ plan.ssr \/ plan.fresh
                    \/ plan.gone # {} \/ queue # {} \/ gate.pending
  <2>1. UNCHANGED <<obl, gate, plan, queue>> /\ pc = "enter"
        /\ pub' = IF rel /\ ~gate.pending THEN begin_document_update(pub) ELSE pub
    BY <1>12 DEF Enter
  <2>2. ~plan.boot
    BY <2>1 DEF Order
  <2>3. /\ pc' \in {"scripts", "islands", "reload", "render", "prune"} /\ (pc' # "prune" => rel)
    BY <1>12, <2>2 DEF Enter, AfterEnter, AfterScripts, AfterIslands, AfterReload
  <2>4. txn'.relevant = rel /\ txn'.owned = gate.pending /\ ~txn'.dropped
    BY <1>12 DEF Enter, NoTxn
  <2>5. rel => txn'.fallback # "none"
    BY <1>12 DEF Enter, NoTxn, Aborts
  <2>6. rel => pub'.documents = "Pending"
    BY <1>0, <2>1, BeginType
  <2>7. ~rel => pub' = pub /\ queue = {} /\ plan.gone = {} /\ ~gate.pending /\ ~plan.fresh
    BY <2>1
  <2>8. gate.pending => rel /\ pub' = pub
    BY <2>1
  <2> HIDE DEF rel
  <2>9. gate.pending => Unsettled(pub)' \/ plan.fresh
    BY <2>1, <2>8, Frames DEF Gates
  <2>10. has_eager_failures(obl)' => pub'.documents = "Pending"
    BY <2>1, <2>6, <2>7, Frames
  <2>11. gate.pending /\ ~gate.active => Unsettled(pub)'
    BY <2>1, <2>8, Frames
  <2> QED BY <2>1, <2>2, <2>3, <2>4, <2>5, <2>6, <2>7, <2>8, <2>9, <2>10, <2>11
<1>13. ASSUME NEW changed \in BOOLEAN, BuildScripts(changed) PROVE Owed'
  <2>1. /\ UNCHANGED <<gate, plan, queue>> /\ pc \in {"scripts", "islands", "entry"}
        /\ pc' \in {"islands", "reload", "render", "prune", "boot"}
        /\ (pc' = "boot" => plan.boot) /\ (plan.boot => pc' \in {"islands", "boot"})
        /\ (EntryCompleted \/ UNCHANGED txn)
    BY <1>13 DEF BuildScripts, AfterScripts, AfterIslands, AfterReload
  <2>2. pub'.documents = pub.documents /\ (Unsettled(pub)' <=> Unsettled(pub))
    BY <1>13, <1>0 DEF BuildScripts, stage_islands, stage_scripts, Unsettled, PublicationStates
  <2>3. pub.documents = "Pending"
    BY <2>1
  <2>4. /\ txn'.owned = txn.owned /\ txn'.relevant = txn.relevant /\ txn'.dropped = txn.dropped
        /\ txn.fallback # "none" => txn'.fallback # "none"
        /\ txn'.fallback = Aborts => txn.fallback = Aborts
    BY <1>0, <2>1, EntryKeeps
  <2>5. pc' = "boot" => ~gate.pending
    BY <2>1 DEF Order, Gates
  <2>6. gate.pending => pc' \in Applying /\ txn'.owned
    BY <2>1, <2>4, <2>5 DEF Gates
  <2>7. txn'.owned /\ txn'.fallback = Aborts => Unsettled(pub)' \/ plan.fresh
    BY <2>1, <2>2, <2>4
  <2>8. gate.pending /\ ~gate.active => Unsettled(pub)'
    BY <2>1, <2>2
  <2> QED BY <2>1, <2>2, <2>3, <2>4, <2>6, <2>7, <2>8
<1>14. ASSUME NEW unsafe \in SUBSET ScriptFiles, BuildScriptsFails(unsafe) PROVE Owed'
  <2>1. /\ UNCHANGED <<pub, gate, txn, plan, queue>> /\ pc \in {"scripts", "islands", "entry"}
        /\ (~plan.boot => pc' = "drop") /\ (plan.boot => pc' \in {"islands", "boot"})
    BY <1>14 DEF BuildScriptsFails, AfterScripts, AfterIslands
  <2>2. pub.documents = "Pending"
    BY <2>1
  <2>3. ~plan.boot => has_eager_failures(obl)'
    <3>1. ~plan.boot => "ClientScripts" \in obl'.entries
      BY <1>14, <1>0 DEF BuildScriptsFails, EntryFailed, record_entry_failure, record_rollback_failure, ObligationStates
    <3> QED BY <3>1, Frames DEF has_eager_failures, has_entry_failures
  <2> QED BY <1>0, <2>1, <2>2, <2>3, Frames DEF Order, Gates
<1>15. ASSUME NoIslandsLeft PROVE Owed'
  <2>1. /\ UNCHANGED <<gate, plan, queue>> /\ pc \in {"scripts", "islands", "entry"}
        /\ pc' \in {"islands", "reload", "render", "prune", "boot"}
        /\ (pc' = "boot" => plan.boot) /\ (plan.boot => pc' \in {"islands", "boot"})
        /\ (EntryCompleted \/ UNCHANGED txn)
    BY <1>15 DEF NoIslandsLeft, AfterScripts, AfterIslands, AfterReload
  <2>2. pub'.documents = pub.documents /\ (Unsettled(pub)' <=> Unsettled(pub))
    BY <1>15, <1>0 DEF NoIslandsLeft, stage_islands, stage_scripts, Unsettled, PublicationStates
  <2>3. pub.documents = "Pending"
    BY <2>1
  <2>4. /\ txn'.owned = txn.owned /\ txn'.relevant = txn.relevant /\ txn'.dropped = txn.dropped
        /\ txn.fallback # "none" => txn'.fallback # "none"
        /\ txn'.fallback = Aborts => txn.fallback = Aborts
    BY <1>0, <2>1, EntryKeeps
  <2>5. pc' = "boot" => ~gate.pending
    BY <2>1 DEF Order, Gates
  <2>6. gate.pending => pc' \in Applying /\ txn'.owned
    BY <2>1, <2>4, <2>5 DEF Gates
  <2>7. txn'.owned /\ txn'.fallback = Aborts => Unsettled(pub)' \/ plan.fresh
    BY <2>1, <2>2, <2>4
  <2>8. gate.pending /\ ~gate.active => Unsettled(pub)'
    BY <2>1, <2>2
  <2> QED BY <2>1, <2>2, <2>3, <2>4, <2>6, <2>7, <2>8
<1>16. ASSUME ReuseIslands PROVE Owed'
  <2>1. /\ UNCHANGED <<gate, plan, queue>> /\ pc \in {"scripts", "islands", "entry"}
        /\ pc' \in {"islands", "reload", "render", "prune", "boot"}
        /\ (pc' = "boot" => plan.boot) /\ (plan.boot => pc' \in {"islands", "boot"})
        /\ (EntryCompleted \/ UNCHANGED txn)
    BY <1>16 DEF ReuseIslands, AfterScripts, AfterIslands, AfterReload
  <2>2. pub'.documents = pub.documents /\ (Unsettled(pub)' <=> Unsettled(pub))
    BY <1>16, <1>0 DEF ReuseIslands, stage_islands, stage_scripts, Unsettled, PublicationStates
  <2>3. pub.documents = "Pending"
    BY <2>1
  <2>4. /\ txn'.owned = txn.owned /\ txn'.relevant = txn.relevant /\ txn'.dropped = txn.dropped
        /\ txn.fallback # "none" => txn'.fallback # "none"
        /\ txn'.fallback = Aborts => txn.fallback = Aborts
    BY <1>0, <2>1, EntryKeeps
  <2>5. pc' = "boot" => ~gate.pending
    BY <2>1 DEF Order, Gates
  <2>6. gate.pending => pc' \in Applying /\ txn'.owned
    BY <2>1, <2>4, <2>5 DEF Gates
  <2>7. txn'.owned /\ txn'.fallback = Aborts => Unsettled(pub)' \/ plan.fresh
    BY <2>1, <2>2, <2>4
  <2>8. gate.pending /\ ~gate.active => Unsettled(pub)'
    BY <2>1, <2>2
  <2> QED BY <2>1, <2>2, <2>3, <2>4, <2>6, <2>7, <2>8
<1>17. ASSUME WriteCompanions PROVE Owed'
  <2>1. UNCHANGED <<pub, obl, gate, txn, plan, queue>>
    BY <1>17 DEF WriteCompanions
  <2>2. pc = "islands" /\ pc' = "entry"
    BY <1>17 DEF WriteCompanions
  <2> QED BY <2>1, <2>2, Frames DEF Order, Gates
<1>18. ASSUME WriteIslandsEntry PROVE Owed'
  <2>1. /\ UNCHANGED <<gate, plan, queue>> /\ pc \in {"scripts", "islands", "entry"}
        /\ pc' \in {"islands", "reload", "render", "prune", "boot"}
        /\ (pc' = "boot" => plan.boot) /\ (plan.boot => pc' \in {"islands", "boot"})
        /\ (EntryCompleted \/ UNCHANGED txn)
    BY <1>18 DEF WriteIslandsEntry, AfterScripts, AfterIslands, AfterReload
  <2>2. pub'.documents = pub.documents /\ (Unsettled(pub)' <=> Unsettled(pub))
    BY <1>18, <1>0 DEF WriteIslandsEntry, stage_islands, stage_scripts, Unsettled, PublicationStates
  <2>3. pub.documents = "Pending"
    BY <2>1
  <2>4. /\ txn'.owned = txn.owned /\ txn'.relevant = txn.relevant /\ txn'.dropped = txn.dropped
        /\ txn.fallback # "none" => txn'.fallback # "none"
        /\ txn'.fallback = Aborts => txn.fallback = Aborts
    BY <1>0, <2>1, EntryKeeps
  <2>5. pc' = "boot" => ~gate.pending
    BY <2>1 DEF Order, Gates
  <2>6. gate.pending => pc' \in Applying /\ txn'.owned
    BY <2>1, <2>4, <2>5 DEF Gates
  <2>7. txn'.owned /\ txn'.fallback = Aborts => Unsettled(pub)' \/ plan.fresh
    BY <2>1, <2>2, <2>4
  <2>8. gate.pending /\ ~gate.active => Unsettled(pub)'
    BY <2>1, <2>2
  <2> QED BY <2>1, <2>2, <2>3, <2>4, <2>6, <2>7, <2>8
<1>19. ASSUME NEW written \in SUBSET Files, IslandsFail(written) PROVE Owed'
  <2>1. /\ UNCHANGED <<pub, gate, txn, plan, queue>> /\ pc \in {"scripts", "islands", "entry"}
        /\ (~plan.boot => pc' = "drop") /\ (plan.boot => pc' \in {"islands", "boot"})
    BY <1>19 DEF IslandsFail, AfterScripts, AfterIslands
  <2>2. pub.documents = "Pending"
    BY <2>1
  <2>3. ~plan.boot => has_eager_failures(obl)'
    <3>1. ~plan.boot => "Islands" \in obl'.entries
      BY <1>19, <1>0 DEF IslandsFail, EntryFailed, record_entry_failure, record_rollback_failure, ObligationStates
    <3> QED BY <3>1, Frames DEF has_eager_failures, has_entry_failures
  <2> QED BY <1>0, <2>1, <2>2, <2>3, Frames DEF Order, Gates
<1>20. ASSUME NEW moved \in BOOLEAN, Reload(moved) PROVE Owed'
  <2>1. UNCHANGED <<pub, obl, gate, queue>> /\ pc = "reload" /\ pc' \in {"render", "prune"}
    BY <1>20 DEF Reload, AfterReload
  <2>2. /\ txn'.relevant = txn.relevant /\ txn'.owned = txn.owned /\ txn'.dropped = txn.dropped
        /\ txn'.fallback = txn.fallback /\ plan'.boot = plan.boot /\ plan'.fresh = plan.fresh
    BY <1>20, <1>0 DEF Reload, Transactions, Plans
  <2>3. ~plan.boot
    BY <2>1 DEF Order
  <2> QED BY <2>1, <2>2, <2>3, Frames DEF Gates
<1>21. ASSUME RefreshOrRenderFails PROVE Owed'
  <2>1. UNCHANGED <<pub, obl, gate, plan, queue>> /\ pc \in {"reload", "render"} /\ pc' = "drop"
    BY <1>21 DEF RefreshOrRenderFails
  <2>2. /\ txn'.relevant = txn.relevant /\ txn'.owned = txn.owned /\ txn'.dropped = txn.dropped
        /\ txn.fallback # "none" => txn'.fallback # "none"
        /\ pc = "render" => txn'.fallback # Aborts
        /\ pc = "reload" => txn' = txn
    BY <1>21, <1>0 DEF RefreshOrRenderFails, MutationStarted, Transactions, Aborts
  <2>3. ~plan.boot /\ (pc = "reload" => ~plan.fresh)
    BY <2>1 DEF Order, Gates
  <2> QED BY <2>1, <2>2, <2>3, Frames DEF Gates
<1>22. ASSUME NEW failing \in SUBSET Docs, RenderPages(failing) PROVE Owed'
  <2>1. UNCHANGED <<pub, gate, plan, queue>> /\ pc = "render" /\ pc' = "write"
    BY <1>22 DEF RenderPages
  <2>2. /\ txn'.relevant = txn.relevant /\ txn'.owned = txn.owned /\ txn'.dropped = txn.dropped
        /\ txn.fallback # "none" => txn'.fallback # "none"
        /\ txn'.fallback # Aborts
    BY <1>22, <1>0 DEF RenderPages, MutationStarted, Transactions, Aborts
  <2>3. ~plan.boot /\ pub.documents = "Pending"
    BY <2>1 DEF Order
  <2> QED BY <2>1, <2>2, <2>3, Frames DEF Gates
<1>23. ASSUME NEW failing \in SUBSET Docs, Prune(failing) PROVE Owed'
  <2>1. UNCHANGED <<pub, gate, plan>> /\ pc = "prune" /\ pc' = "commit"
    BY <1>23 DEF Prune
  <2>2. /\ txn'.relevant = txn.relevant /\ txn'.owned = txn.owned /\ txn'.dropped = txn.dropped
        /\ txn'.fallback = txn.fallback
    BY <1>23, <1>0 DEF Prune, Transactions
  <2>3. ~txn.relevant => (has_eager_failures(obl)' => has_eager_failures(obl))
    <3>1. ~txn.relevant => obl' = start_document_write(resolve_documents(obl, {}), {})
      BY <1>23, <2>1 DEF Prune
    <3> QED BY <1>0, <3>1, Frames
             DEF start_document_write, resolve_documents, ObligationStates,
                 has_eager_failures, has_document_failures, has_entry_failures
  <2>4. ~plan.boot
    BY <2>1 DEF Order
  <2> QED BY <2>1, <2>2, <2>3, <2>4, Frames DEF Gates
<1>24. ASSUME NEW d \in Docs, WriteDocument(d) PROVE Owed'
  <2>1. UNCHANGED <<pub, gate, plan>> /\ pc = "write" /\ pc' = "write"
    BY <1>24 DEF WriteDocument
  <2>2. /\ txn'.relevant = txn.relevant /\ txn'.owned = txn.owned /\ txn'.dropped = txn.dropped
        /\ txn'.fallback = txn.fallback
    BY <1>24, <1>0 DEF WriteDocument, Transactions
  <2>3. ~plan.boot /\ pub.documents = "Pending"
    BY <2>1 DEF Order
  <2> QED BY <2>1, <2>2, <2>3, Frames DEF Gates
<1>25. ASSUME NEW d \in Docs, WriteDocumentFails(d) PROVE Owed'
  <2>1. UNCHANGED <<pub, gate, plan, txn, queue>> /\ pc = "write" /\ pc' = "drop"
    BY <1>25 DEF WriteDocumentFails
  <2>2. has_eager_failures(obl)'
    <3>1. d \in obl'.failed
      BY <1>25, <1>0 DEF WriteDocumentFails, start_document_write, ObligationStates
    <3> QED BY <3>1, Frames DEF has_eager_failures, has_document_failures
  <2>3. ~plan.boot /\ pub.documents = "Pending"
    BY <2>1 DEF Order
  <2> QED BY <2>1, <2>2, <2>3, Frames DEF Gates
<1>26. ASSUME AllWritten PROVE Owed'
  <2>1. UNCHANGED <<pub, obl, gate, txn, plan, queue>>
    BY <1>26 DEF AllWritten
  <2>2. pc = "write" /\ pc' = "prune"
    BY <1>26 DEF AllWritten
  <2> QED BY <2>1, <2>2, Frames DEF Order, Gates
<1>27. ASSUME Commit PROVE Owed'
  <2>1. UNCHANGED <<gate, plan, queue>> /\ pc = "commit" /\ pc' = "close"
    BY <1>27 DEF Commit
  <2>2. txn'.relevant = txn.relevant /\ txn'.owned = txn.owned /\ txn'.dropped = txn.dropped
    BY <1>27, <1>0 DEF Commit, Transactions
  <2>3. txn.relevant => (has_eager_failures(obl)' => pub'.documents = "Pending" /\ Unsettled(pub)')
    <3>1. BoundaryEvent \in Events
      BY DEF BoundaryEvent, Events, Commits, LazyRepairs
    <3>2. record_lazy_outputs(obl, ExistingStale) \in ObligationStates
      BY <1>0 DEF record_lazy_outputs, ObligationStates, ExistingStale, Types, TypeOK
    <3>3. txn.relevant => Emit("tick", BoundaryEvent, pub, record_lazy_outputs(obl, ExistingStale))
      BY <1>27 DEF Commit
    <3> QED BY <1>0, <3>1, <3>2, <3>3, EmitStep DEF Threads
  <2>4. ~txn.relevant => UNCHANGED <<pub, obl>>
    BY <1>27 DEF Commit
  <2> QED BY <2>1, <2>2, <2>3, <2>4, Frames DEF Gates
<1>28. ASSUME Drop PROVE Owed'
  <2>1. UNCHANGED <<gate, plan, queue>> /\ pc = "drop" /\ pc' = "close" /\ Emit("tick", txn.fallback, pub, obl)
    BY <1>28 DEF Drop
  <2>2. txn'.relevant = txn.relevant /\ txn'.owned = txn.owned
    BY <1>28, <1>0 DEF Drop, Transactions
  <2>3. ~plan.boot /\ txn.relevant
    BY <2>1 DEF Order
  <2>4. txn.fallback \in Events /\ txn.fallback \in {Aborts, "LeaveEntriesPending", "LeavePending"}
    BY <1>0, <2>1, <2>3 DEF Events, Transactions, Fallbacks
  <2>5. /\ has_eager_failures(obl)' => pub'.documents = "Pending"
        /\ has_eager_failures(obl) => Unsettled(pub)'
        /\ txn.fallback # Aborts \/ Unsettled(pub) => Unsettled(pub)'
    BY <1>0, <2>1, <2>4, EmitStep DEF Threads
  <2>6. txn.owned => Unsettled(pub)'
    BY <2>1, <2>5
  <2> QED BY <2>1, <2>2, <2>3, <2>5, <2>6 DEF Gates
<1>29. ASSUME Close PROVE Owed'
  <2>1. UNCHANGED <<pub, obl>> /\ pc = "close" /\ pc' = "idle" /\ ~txn'.owned
    BY <1>29 DEF Close, NoTxn
  <2>2. /\ ~txn.owned => gate' = gate
        /\ txn.owned /\ ~(txn.dropped \/ has_eager_failures(obl)) => ~gate'.pending
    BY <1>29 DEF Close, NoGate
  <2> QED BY <1>c, <2>1, <2>2, Frames
<1>30. ASSUME BootDocuments PROVE Owed'
  <2> DEFINE event == IF live = {} THEN "CommitNotExpected" ELSE "CommitReadyOnRequest"
  <2>1. begin_document_update(pub) \in PublicationStates /\ Coherent(begin_document_update(pub))
    BY <1>0, BeginType
  <2>2. event \in Events
    BY DEF Events, Commits
  <2>3. Emit("tick", event, begin_document_update(pub), obl)
    BY <1>30 DEF BootDocuments
  <2> HIDE DEF event
  <2>4. has_eager_failures(obl)' => pub'.documents = "Pending"
    BY <1>0, <2>1, <2>2, <2>3, EmitStep DEF Threads
  <2>5. UNCHANGED <<gate, txn, plan>> /\ pc = "boot" /\ pc' = "close"
    BY <1>30 DEF BootDocuments
  <2> QED BY <2>4, <2>5 DEF Gates, Order
<1>31. ASSUME BootFails PROVE Owed'
  <2>1. UNCHANGED <<gate, txn, plan>> /\ pc = "boot" /\ pc' = "close" /\ Emit("tick", "LeavePending", pub, obl)
    BY <1>31 DEF BootFails
  <2>2. "LeavePending" \in Events
    BY DEF Events, Fallbacks
  <2>3. has_eager_failures(obl)' => pub'.documents = "Pending"
    BY <1>0, <2>1, <2>2, EmitStep DEF Threads
  <2> QED BY <2>1, <2>3 DEF Gates, Order
<1>32. ASSUME NEW t \in Threads, CommitScripts(t) PROVE Owed'
  <2>1. UNCHANGED <<pub, obl, gate, txn, plan, queue>>
    BY <1>32 DEF CommitScripts
  <2>2. pc' = pc
    BY <1>32 DEF CommitScripts
  <2> QED BY <2>1, <2>2, Frames DEF Order, Gates
<1>33. ASSUME NEW t \in Threads, CommitIslands(t) PROVE Owed'
  <2>1. UNCHANGED <<pub, obl, gate, txn, plan, queue>>
    BY <1>33 DEF CommitIslands
  <2>2. pc' = pc
    BY <1>33 DEF CommitIslands
  <2> QED BY <2>1, <2>2, Frames DEF Order, Gates
<1>34. ASSUME AbortLedgers PROVE Owed'
  <2>1. UNCHANGED <<pub, obl, gate, txn, plan, queue>>
    BY <1>34 DEF AbortLedgers
  <2>2. pc' = pc
    BY <1>34 DEF AbortLedgers
  <2> QED BY <2>1, <2>2, Frames DEF Order, Gates
<1>35. ASSUME RequestChecksGate PROVE Owed'
  <2>1. UNCHANGED <<pub, obl, txn, plan, pc, queue>>
    BY <1>35 DEF RequestChecksGate
  <2>2. gate'.active = gate.active /\ gate'.pending = gate.pending /\ (gate.lazy => gate'.lazy)
    BY <1>35, <1>0 DEF RequestChecksGate, defer_lazy_repair, GateStates
  <2> QED BY <2>1, <2>2, Frames
<1>36. ASSUME RequestCommits PROVE Owed'
  <2>1. UNCHANGED <<txn, plan, pc, queue>> /\ PublishRepair("request")
    BY <1>36 DEF RequestCommits
  <2>2. exclusion = "request" /\ ~plan.boot /\ pc \notin Applying /\ ~Boundary /\ pc # "boot"
    BY <1>36 DEF RequestCommits, Order
  <2>3. has_eager_failures(obl)' => pub'.documents = "Pending" /\ Unsettled(pub)'
    BY <1>0, <2>1, RepairStep DEF Threads
  <2>4. ~has_eager_failures(obl)' /\ gate.active =>
          pub'.documents = "Pending" /\ gate'.active /\ gate'.lazy
    BY <1>0, <2>1, RepairStep DEF Threads, GateStates
  <2>5. ~has_eager_failures(obl)' /\ ~gate.active => ~gate'.pending
    BY <1>0, <2>1, RepairStep DEF Threads, NoGate
  <2> QED BY <2>1, <2>2, <2>3, <2>4, <2>5 DEF Gates
<1>37. ASSUME RequestFinishes PROVE Owed'
  <2>1. UNCHANGED <<pub, obl, gate, txn, plan, queue>>
    BY <1>37 DEF RequestFinishes
  <2>2. pc' = pc
    BY <1>37 DEF RequestFinishes
  <2> QED BY <2>1, <2>2, Frames DEF Order, Gates
<1>38. CASE UNCHANGED vars
  <2>1. UNCHANGED <<pub, obl, gate, txn, plan, pc, queue>>
    BY <1>38 DEF vars
  <2> QED BY <2>1, Frames
<1> HIDE DEF Owed
<1>t. "tick" \in Threads /\ "request" \in Threads
  BY DEF Threads
<1>d. CASE Discovery
  BY <1>d, <1>3, <1>4, <1>5, <1>6, <1>7, <1>8, <1>9, <1>10, <1>11 DEF Discovery
<1>e. CASE Entries
  BY <1>e, <1>13, <1>14, <1>15, <1>16, <1>17, <1>18, <1>19 DEF Entries
<1>p. CASE Pages
  BY <1>p, <1>20, <1>21, <1>22, <1>23, <1>24, <1>25, <1>26 DEF Pages
<1>k. CASE TickThread
  BY <1>k, <1>t, <1>d, <1>e, <1>p, <1>12, <1>27, <1>28, <1>29, <1>30, <1>31, <1>32, <1>33, <1>34 DEF TickThread
<1>r. CASE RequestThread
  BY <1>r, <1>t, <1>35, <1>36, <1>37, <1>32, <1>33 DEF RequestThread
<1> QED BY <1>1, <1>2, <1>k, <1>r, <1>38 DEF Next

-----------------------------------------------------------------------------
(* The theorems *)

LEMMA InitInv == Init => Inv
<1> SUFFICES ASSUME Init PROVE Inv
  OBVIOUS
<1> USE DEF Init
<1>1. TypeOK
  <2>1. pub \in PublicationStates /\ obl \in ObligationStates /\ gate \in GateStates
    BY DEF pending, PendingSlot, PublicationStates, AssetSlots, DocumentSlots, NoObligations,
           ObligationStates, NoGate, GateStates
  <2>2. islands \in Islands!IslandsLedgers /\ scripts \in Scripts!ScriptLedgers
        /\ Len(scripts.retained) <= RetainedScripts
    BY PublicationAssumption
       DEF Islands!NewIslandsLedger, Islands!IslandsLedgers, Scripts!NewScriptLedger, Scripts!ScriptLedgers
  <2>3. site \in SiteType /\ host \in Bodies
    BY PublicationAssumption DEF Markers, Bodies
  <2>4. plan \in Plans /\ txn \in Transactions
    BY DEF NoPlan, NoTxn, Plans, Transactions, Fallbacks
  <2>5. hook \in [Threads -> [pc : {"none", "scripts", "islands", "abort"}, preserve : BOOLEAN]]
    BY DEF Returned
  <2>6. used \in [ticks : 0..MaxTicks, failures : 0..MaxFailures]
    BY PublicationAssumption
  <2>7. /\ disk \in Disks
        /\ body \in [Docs -> Bodies] /\ stale \in SUBSET Docs /\ live \in SUBSET Docs
        /\ queue \in SUBSET Docs /\ lost \in SUBSET Docs /\ todo \in SUBSET Docs
    BY DEF Bodies, Disks
  <2> QED BY <2>1, <2>2, <2>3, <2>4, <2>5, <2>6, <2>7 DEF TypeOK
<1>2. pub.documents = "Pending" /\ ~gate.pending /\ ~gate.active /\ ~txn.owned /\ ~txn.dropped
      /\ plan.boot /\ ~plan.fresh /\ ~txn.relevant
  BY DEF pending, NoGate, NoTxn, NoPlan
<1>3. Types /\ Coherent(pub)
  BY <1>1, <1>2 DEF Types, Places, Applying, Coherent
<1>4. Order /\ Gates /\ Owed
  BY <1>2 DEF Order, Gates, Owed, Boundary, Applying, Discovering
<1> QED BY <1>3, <1>4 DEF Inv

(* The invariant holds in every state of `zfb dev'. *)
THEOREM PublicationInvariant == Spec => []Inv
<1>1. Inv /\ [Next]_vars => Inv'
  <2> SUFFICES ASSUME Inv, [Next]_vars PROVE Inv'
    OBVIOUS
  <2>1. Types' /\ Coherent(pub)' /\ Order' /\ Gates' /\ Owed'
    BY TypesStep, OrderStep, GatesStep, OwedStep
  <2> QED BY <2>1 DEF Inv
<1> QED BY InitInv, <1>1, PTL DEF Spec

(* The server's state, the obligations, the gate, the ledgers and the      *)
(* transaction keep their types (struct DevPublicationState, struct        *)
(* DocumentObligations, struct DocumentPublicationTransaction), and the    *)
(* retained generations of scripts stay within their constant.             *)
THEOREM TypeCorrect == Spec => []TypeOK
<1>1. Inv => TypeOK
  BY DEF Inv, Types
<1> QED BY PublicationInvariant, <1>1, PTL

(* DevPublicationState::is_ready never reports readiness while a document  *)
(* or an entry build that failed is outstanding, a write is uncertain or   *)
(* entry bytes wait for their documents, whatever the hook was told, in    *)
(* whatever order requests, discovery and ticks told it.                   *)
THEOREM ReadinessIsHonest == Spec => []ReadyMeansSettled
<1>1. Inv => ReadyMeansSettled
  BY DEF Inv, Owed, Coherent, Unsettled, ReadyMeansSettled, is_ready
<1> QED BY PublicationInvariant, <1>1, PTL

(* An apply that has something to publish, and the boot, report readiness  *)
(* at no point between begin_document_update and the event that ends them:  *)
(* no request gets a document of one generation with entries of another.    *)
NotReadyWhileApplying == pc \in Applying /\ (plan.boot \/ txn.relevant) => ~is_ready(pub)
THEOREM ApplyIsNotReady == Spec => []NotReadyWhileApplying
<1>1. Inv => NotReadyWhileApplying
  BY DEF Inv, Owed, NotReadyWhileApplying, is_ready
<1> QED BY PublicationInvariant, <1>1, PTL
=============================================================================
