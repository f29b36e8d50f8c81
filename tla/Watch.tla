-------------------------------- MODULE Watch --------------------------------
(***************************************************************************)
(* From an edit on disk to the batch of a tick: the watcher's debouncer,   *)
(* its bounded channel, the drain loop of the orchestrator, and the        *)
(* reconciliation of edits made before a file was watched.                 *)
(*                                                                         *)
(* Files under a watch root are watched from the start.  A dependency      *)
(* outside the roots is watched once a pass that read it has published it. *)
(* Modification times are compared by the facts they tell: whether a file  *)
(* was edited since a pass began to read, and since it was accounted for.  *)
(***************************************************************************)
EXTENDS Naturals, FiniteSets, SequencesExt

CONSTANTS Files,
          Rooted,       \* those under a watch root; the others are dependencies
          Manifests,    \* dependencies that a build requires: package manifests of styles
          MaxPending,   \* files that force a flush
          OutCapacity,  \* of the channel to the drain loop
          Hot,          \* files that are modified over and over
          RawCapacity,  \* bound: events the debouncer has not taken
          MaxEdits,     \* bound: all edits but those of hot files
          None

Kinds == {"Created", "Modified", "Removed"}
Change == [file : Files, kind : Kinds]

ASSUME WatchAssumption ==
  /\ Rooted \subseteq Files /\ Manifests \subseteq Files \ Rooted
  /\ Hot \subseteq Files /\ IsFiniteSet(Files)
  /\ MaxPending \in Nat \ {0} /\ OutCapacity \in Nat \ {0} /\ RawCapacity \in Nat \ {0, 1}
  /\ MaxEdits \in Nat /\ None \notin Kinds \cup Change

VARIABLES
  disk,       \* the files that exist
  wanted,     \* dependencies that the sources on disk import
  watching,   \* files covered by a watch
  raw,        \* events that the debouncer has not taken
  pending,    \* kinds of the burst, by file
  age,        \* of the burst, against the debounce window
  flush,      \* what is left of a burst being emitted
  inflight,   \* the change whose send is waiting
  debouncer,  \* its control state
  shutdown,   \* the signal
  out,        \* the channel to the drain loop
  loop,       \* control state of the drain loop
  synth,      \* files with a synthesized change
  reads,      \* files the running pass read
  touched,    \* files edited since the running pass began
  published,  \* files of the last successful pass
  since,      \* those edited since that pass began
  accounted,  \* files whose modification time is accounted for
  told,       \* history: what the last batch with the file says, {} if edited since
  fresh,      \* history: files created and in no batch as such
  unseen,     \* history: files but manifests, created or removed while not watched and
              \* not edited since
  edits,      \* counter of the bound
  misread     \* history: files whose probe failed and whose kind was wrong

disks    == <<disk, wanted>>
buffers  == <<raw, pending, age, flush, inflight, debouncer, out>>
registry == <<reads, touched, published, since, accounted>>
history  == <<told, fresh, unseen, misread, edits>>
vars == <<disks, watching, buffers, shutdown, loop, synth, registry, history>>

Dependencies == Files \ Rooted
Bursting == {f \in Files : pending[f] # None}
NoBurst  == [f \in Files |-> None]
-----------------------------------------------------------------------------
Init ==
  /\ disk = Files /\ wanted \in SUBSET Dependencies
  /\ watching = {} /\ raw = <<>> /\ pending = NoBurst /\ age = "new"
  /\ flush = NoBurst /\ inflight = None /\ debouncer = "select" /\ shutdown = FALSE
  /\ out = <<>> /\ loop = "unwatched" /\ synth = {}
  /\ reads = Rooted \cup wanted /\ touched = {} /\ published = reads
  /\ since = {} /\ accounted = {}
  /\ told = [f \in Files |-> {"present"}] /\ fresh = {} /\ unseen = {} /\ misread = {}
  /\ edits = 0
-----------------------------------------------------------------------------
(* Edits, and the events a backend reports for them. *)

Event(f, kind) == [file |-> f, kind |-> kind]

Reported(f, events) ==
  IF f \in watching
  THEN Len(raw) + Len(events) <= RawCapacity /\ raw' = raw \o events
  ELSE UNCHANGED raw

\* Nothing is edited after the signal: nobody takes the event.
Counted == ~shutdown /\ edits < MaxEdits /\ edits' = edits + 1

Edited(f) ==
  /\ touched' = touched \cup {f} /\ since' = since \cup {f}
  /\ accounted' = accounted \ {f}
  /\ told' = [told EXCEPT ![f] = {}]
  /\ UNCHANGED <<watching, pending, age, flush, inflight, debouncer, out,
                 shutdown, loop, synth, reads, published, misread>>

(* The stream of modifications of a hot file follows the counted edits. *)
ModifyHot(f) ==
  /\ edits = MaxEdits /\ ~shutdown /\ raw = <<>>
  /\ f \in disk \cap watching /\ Reported(f, <<Event(f, "Modified")>>)
  /\ unseen' = unseen \ {f}
  /\ Edited(f) /\ UNCHANGED <<disks, fresh, edits>>

(* An edit in place may be reported as a creation. *)
Modify(f) ==
  /\ f \in disk /\ Counted
  /\ \E kind \in {"Modified", "Created"} : Reported(f, <<Event(f, kind)>>)
  /\ IF f \in Rooted THEN wanted' \in SUBSET Dependencies ELSE UNCHANGED wanted
  /\ unseen' = IF f \in watching THEN unseen \ {f} ELSE unseen
  /\ Edited(f) /\ UNCHANGED <<disk, fresh>>

CameOrWent(f) ==
  unseen' = IF f \in watching THEN unseen \ {f} ELSE unseen \cup ({f} \ Manifests)

Create(f) ==
  /\ Counted /\ f \notin disk /\ disk' = disk \cup {f}
  /\ Reported(f, <<Event(f, "Created")>>)
  /\ fresh' = IF f \in watching THEN fresh \cup {f} ELSE fresh
  /\ CameOrWent(f) /\ Edited(f) /\ UNCHANGED wanted

(* An event of the removed file's attributes may follow. *)
Delete(f) ==
  /\ Counted /\ f \in disk /\ disk' = disk \ {f}
  /\ \E late \in {<<>>, <<Event(f, "Modified")>>} :
       Reported(f, <<Event(f, "Removed")>> \o late)
  /\ fresh' = fresh \ {f}
  /\ CameOrWent(f) /\ Edited(f) /\ UNCHANGED wanted

(* A restore of a file that is not new, reported as a removal only. *)
Restore(f) ==
  /\ Counted /\ f \in (disk \cap watching) \ fresh /\ told[f] = {"present"}
  /\ Reported(f, <<Event(f, "Removed")>>)
  /\ Edited(f) /\ UNCHANGED <<disks, fresh, unseen>>
-----------------------------------------------------------------------------
(* The debouncer *)

(* Mutant: the later kind wins. *)
LastKind(existing, incoming) == incoming

merge_kind(existing, incoming) ==
  IF existing = "Created" /\ incoming = "Modified" THEN "Created" ELSE incoming

reconcile_emit_kind(kind, exists) ==
  CASE kind = "Removed" /\ exists = "yes" -> "Modified"
    [] exists = "no"                      -> "Removed"
    [] OTHER                              -> kind

(* Mutant: only quiet bursts are flushed. *)
NotForced(burst) == FALSE

(* Mutant: the threshold is off by one. *)
ForcedLate(burst) ==
  Cardinality({f \in Files : burst[f] # None}) > MaxPending \/ age # "new"

(* The guard against a stream of events that never pauses. *)
Forced(burst) ==
  Cardinality({f \in Files : burst[f] # None}) >= MaxPending \/ age # "new"

Flush(burst) ==
  /\ flush' = burst /\ pending' = NoBurst /\ age' = "new" /\ debouncer' = "emit"

Recv ==
  LET e     == Head(raw)
      burst == [pending EXCEPT ![e.file] = merge_kind(@, e.kind)]
  IN  /\ debouncer = "select" /\ ~shutdown /\ raw # <<>>
      /\ raw' = Tail(raw)
      /\ IF Forced(burst) THEN Flush(burst)
         ELSE pending' = burst /\ UNCHANGED <<age, flush, debouncer>>
      /\ UNCHANGED <<disks, watching, inflight, shutdown, out, loop, synth,
                     registry, history>>

(* Time passes: over the window since the burst began, then since its last event. *)
Elapse ==
  /\ Bursting # {} /\ age # "quiet"
  /\ age' = IF age = "new" THEN "elapsed" ELSE "quiet"
  /\ UNCHANGED <<disks, watching, raw, pending, flush, inflight, debouncer,
                 shutdown, out, loop, synth, registry, history>>

QuietTick ==
  /\ debouncer = "select" /\ ~shutdown /\ Bursting # {} /\ age = "quiet"
  /\ Flush(pending)
  /\ UNCHANGED <<disks, watching, raw, inflight, shutdown, out, loop, synth,
                 registry, history>>

Exists(f) == IF f \in disk THEN "yes" ELSE "no"
Misreads(f, kind) == (kind = "Removed") # (f \notin disk)

(* The probe for the file comes before the wait for room in the channel. *)
EmitNext(f) ==
  /\ debouncer = "emit" /\ inflight = None /\ flush[f] # None
  /\ \E exists \in {Exists(f), "error"} :
       LET kind == reconcile_emit_kind(flush[f], exists)
       IN  /\ inflight' = Event(f, kind)
           /\ misread' = IF exists = "error" /\ Misreads(f, kind) THEN misread \cup {f} ELSE misread
  /\ flush' = [flush EXCEPT ![f] = None]
  /\ UNCHANGED <<disks, watching, raw, pending, age, debouncer, shutdown, out,
                 loop, synth, registry, told, fresh, unseen, edits>>

SendChange ==
  /\ debouncer = "emit" /\ inflight # None /\ ~shutdown
  /\ Len(out) < OutCapacity
  /\ out' = Append(out, inflight) /\ inflight' = None
  /\ debouncer' = IF flush = NoBurst THEN "select" ELSE "emit"
  /\ UNCHANGED <<disks, watching, raw, pending, age, flush, shutdown, loop,
                 synth, registry, history>>

(* After the signal the rest is sent only as far as there is room. *)
TrySend(burst) ==
  \E order \in SetToSeqs({f \in Files : burst[f] # None}) :
    LET room == OutCapacity - Len(out)
        fits == SubSeq(order, 1, IF room < Len(order) THEN room ELSE Len(order))
    IN  out' = out \o [i \in DOMAIN fits |->
                 Event(fits[i], reconcile_emit_kind(burst[fits[i]], Exists(fits[i])))]

(* Mutant: the signal is only seen between two bursts. *)
SeenWhenIdle ==
  /\ shutdown /\ debouncer = "select"
  /\ TrySend(pending)
  /\ debouncer' = "done" /\ pending' = NoBurst /\ flush' = NoBurst /\ inflight' = None
  /\ age' = "new"
  /\ UNCHANGED <<disks, watching, raw, shutdown, loop, synth, registry, history>>

ShutdownSeen ==
  /\ shutdown
  /\ debouncer = "select" \/ (debouncer = "emit" /\ inflight # None)
  /\ TrySend(IF debouncer = "select" THEN pending ELSE flush)
  /\ debouncer' = "done" /\ pending' = NoBurst /\ flush' = NoBurst /\ inflight' = None
  /\ age' = "new"
  /\ UNCHANGED <<disks, watching, raw, shutdown, loop, synth, registry, history>>

(* Watcher::shutdown, or the drop of the watcher. *)
Shutdown ==
  /\ loop # "unwatched" /\ ~shutdown /\ shutdown' = TRUE
  /\ UNCHANGED <<disks, watching, buffers, loop, synth, registry, history>>
-----------------------------------------------------------------------------
(* The drain loop *)

StartWatcher ==
  /\ loop = "unwatched" /\ loop' = "armed" /\ watching' = Rooted
  /\ UNCHANGED <<disks, buffers, shutdown, synth, registry, history>>

(* Mutant: a new watch says nothing of what came before it. *)
NothingBefore(scope, members, edited) == {}

(* modified_since_read: a file that does not exist is skipped, but for a manifest. *)
Unobserved(scope, members, edited) ==
  (scope \cap members \cap ((edited \cap disk) \cup (Manifests \ disk))) \ accounted

(* Registration of the published dependencies may fail for some. *)
Arm(members, armed) ==
  /\ armed \subseteq members \ watching
  /\ watching' = watching \cup armed

BootArm(armed) ==
  /\ loop = "armed" /\ loop' = "boot"
  /\ Arm(published, armed)
  /\ synth' = Unobserved(Files, published, since)
  /\ accounted' = accounted \cup synth'
  /\ UNCHANGED <<disks, buffers, shutdown, reads, touched, published, since, history>>

State(f) == IF f \in disk THEN "present" ELSE "absent"

(* A pass takes its read time and reads. *)
Pass(batch, says) ==
  /\ loop' = "running"
  /\ reads' = Rooted \cup wanted /\ touched' = {}
  /\ accounted' = (accounted \cup (batch \cap published \cap disk))
                     \ ((batch \cap published) \ disk)
  /\ told' = [f \in Files |->
                IF f \in batch THEN says[f]
                ELSE IF f \in reads' /\ (batch = {} \/ f \notin published \cap watching)
                     THEN {State(f)}
                     ELSE told[f]]

(* The boot hook renders everything, or nothing when boot is lazy. *)
Boot(eager) ==
  /\ loop = "boot"
  /\ IF eager THEN Pass({}, <<>>)
     ELSE loop' = "idle" /\ UNCHANGED <<reads, touched, accounted, told>>
  /\ UNCHANGED <<disks, watching, buffers, shutdown, synth, published, since,
                 fresh, unseen, misread, edits>>

Batch == ToSet(out) \cup {Event(f, "Modified") : f \in synth}

(* The pass for a changed manifest fails when there is none, whatever the kind. *)
Says(c) == IF c.kind = "Removed" \/ c.file \in Manifests \ disk THEN "absent" ELSE "present"

TickStart ==
  LET batch == {c.file : c \in Batch}
  IN  /\ loop = "idle" /\ (out # <<>> \/ synth # {})
      /\ out' = <<>> /\ synth' = {}
      /\ Pass(batch, [f \in batch |-> {Says(c) : c \in {b \in Batch : b.file = f}}])
      /\ fresh' = fresh \ {c.file : c \in {b \in Batch : b.kind = "Created"}}
      /\ UNCHANGED <<disks, watching, raw, pending, age, flush, inflight, debouncer,
                     shutdown, published, since, unseen, misread, edits>>

(* A pass that succeeds publishes what it read with its read time, one that *)
(* fails the manifests only; then new dependencies are watched, and their   *)
(* earlier edits synthesized.                                               *)
EndPass(succeeds, armed) ==
  LET stamped == IF succeeds THEN Files ELSE Manifests IN
  /\ loop = "running" /\ loop' = "idle"
  /\ succeeds => Dependencies \cap (reads \ touched) \subseteq disk
  /\ published' = (published \ stamped) \cup (reads \cap stamped)
  /\ since' = (since \ stamped) \cup (touched \cap stamped)
  /\ Arm(published', armed)
  /\ LET found == Unobserved(armed, published', since')
     IN  synth' = synth \cup found /\ accounted' = accounted \cup found
  /\ UNCHANGED <<disks, buffers, shutdown, reads, touched, history>>

(* A tick that never ends, or the end of the loop. *)
Stall ==
  /\ loop = "running" /\ loop' = "stalled"
  /\ UNCHANGED <<disks, watching, buffers, shutdown, synth, registry, history>>
-----------------------------------------------------------------------------
Debouncer == Recv \/ QuietTick \/ SendChange \/ ShutdownSeen \/ \E f \in Files : EmitNext(f)
DrainLoop ==
  \/ StartWatcher \/ TickStart
  \/ \E armed \in SUBSET Dependencies : BootArm(armed)
  \/ \E eager \in BOOLEAN : Boot(eager)
  \/ \E succeeds \in BOOLEAN, armed \in SUBSET Dependencies : EndPass(succeeds, armed)

Next ==
  \/ \E f \in Files : Modify(f) \/ Create(f) \/ Delete(f) \/ Restore(f)
  \/ Debouncer \/ Elapse \/ DrainLoop \/ Stall \/ Shutdown
  \/ \E f \in Hot : ModifyHot(f)

Spec ==
  /\ Init /\ [][Next]_vars
  /\ WF_vars(Debouncer) /\ WF_vars(Elapse) /\ WF_vars(DrainLoop)
-----------------------------------------------------------------------------
TypeOK ==
  /\ disk \subseteq Files /\ wanted \subseteq Dependencies
  /\ watching \subseteq Files
  /\ raw \in Seq(Change) /\ Len(raw) <= RawCapacity
  /\ pending \in [Files -> Kinds \cup {None}] /\ flush \in [Files -> Kinds \cup {None}]
  /\ Cardinality(Bursting) < MaxPending
  /\ age \in {"new", "elapsed", "quiet"} /\ inflight \in Change \cup {None}
  /\ debouncer \in {"select", "emit", "done"} /\ shutdown \in BOOLEAN
  /\ out \in Seq(Change) /\ Len(out) <= OutCapacity
  /\ loop \in {"unwatched", "armed", "boot", "idle", "running", "stalled"}
  /\ edits \in 0..MaxEdits
  /\ {synth, reads, touched, published, since, accounted, fresh, unseen, misread}
        \subseteq SUBSET Files
  /\ told \in [Files -> SUBSET {"present", "absent"}]

(* When nothing is on its way, a tick has taken every edit of a watched     *)
(* file that a build depends on, and the last batch with the file says      *)
(* what the disk says: whatever was merged, reconciled or blocked on the    *)
(* way, and also when the edit came before the watch.                       *)
Settled ==
  /\ loop = "idle" /\ debouncer = "select" /\ ~shutdown
  /\ raw = <<>> /\ Bursting = {} /\ out = <<>> /\ synth = {}
NoEditIsLost ==
  Settled =>
    \A f \in (watching \cap (Rooted \cup published)) \ (unseen \cup misread) :
      State(f) \in told[f]

(* A new file reaches some tick as a creation, which is what makes the tick *)
(* look for new routes.                                                     *)
CreationIsTold == Settled => fresh \cap disk = {}

(* Under a stream of edits that never pauses, each edit still reaches a tick. *)
EveryEditIsTaken ==
  \A f \in Files :
    f \in watching \cap Rooted /\ told[f] = {} ~>
      told[f] # {} \/ shutdown \/ loop = "stalled" \/ f \in unseen

(* Shutdown ends the debouncer, also when nobody drains a full channel. *)
ShutdownCompletes == shutdown ~> debouncer = "done"
=============================================================================
