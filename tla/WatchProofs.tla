------------------------------ MODULE WatchProofs ------------------------------
(***************************************************************************)
(* Theorems about the way of an edit to a tick, for any files, any edits,  *)
(* any capacities and any interleaving of the two tasks.                   *)
(***************************************************************************)
EXTENDS Watch, FiniteSetTheorems, SequenceTheorems, TLAPS

-----------------------------------------------------------------------------
(* Queues as sets of changes. *)

LEMMA Members ==
  ASSUME NEW s \in Seq(Change)
  PROVE  /\ ToSet(s) = {s[i] : i \in 1..Len(s)}
         /\ ToSet(s) \subseteq Change
         /\ s = <<>> <=> ToSet(s) = {}
<1>1. DOMAIN s = 1..Len(s) /\ Len(s) \in Nat /\ \A i \in 1..Len(s) : s[i] \in Change
  BY LenProperties, ElementOfSeq
<1>2. s # <<>> => Len(s) # 0
  BY EmptySeq
<1>3. ToSet(s) = {s[i] : i \in 1..Len(s)}
  BY <1>1 DEF ToSet
<1>4. s # <<>> => 1 \in 1..Len(s)
  BY <1>1, <1>2
<1>5. s = <<>> => 1..Len(s) = {}
  OBVIOUS
<1> QED BY <1>1, <1>3, <1>4, <1>5

LEMMA JoinedMembers ==
  ASSUME NEW s \in Seq(Change), NEW t \in Seq(Change)
  PROVE  /\ s \o t \in Seq(Change) /\ Len(s \o t) = Len(s) + Len(t)
         /\ ToSet(s \o t) = ToSet(s) \cup ToSet(t)
<1>1. /\ s \o t \in Seq(Change) /\ Len(s \o t) = Len(s) + Len(t)
      /\ \A i \in 1..Len(s) + Len(t) : (s \o t)[i] = IF i <= Len(s) THEN s[i] ELSE t[i - Len(s)]
  BY ConcatProperties
<1>2. Len(s) \in Nat /\ Len(t) \in Nat
  OBVIOUS
<1>3. ASSUME NEW i \in 1..Len(s) PROVE i \in 1..Len(s \o t) /\ (s \o t)[i] = s[i]
  BY <1>1, <1>2
<1>4. ASSUME NEW i \in 1..Len(t)
      PROVE  i + Len(s) \in 1..Len(s \o t) /\ (s \o t)[i + Len(s)] = t[i]
  BY <1>1, <1>2
<1>5. ASSUME NEW i \in 1..Len(s \o t)
      PROVE  \/ i \in 1..Len(s) /\ (s \o t)[i] = s[i]
             \/ i - Len(s) \in 1..Len(t) /\ (s \o t)[i] = t[i - Len(s)]
  BY <1>1, <1>2
<1>6. /\ ToSet(s) = {s[i] : i \in 1..Len(s)} /\ ToSet(t) = {t[i] : i \in 1..Len(t)}
      /\ ToSet(s \o t) = {(s \o t)[i] : i \in 1..Len(s \o t)}
  BY <1>1, Members
<1>7. ToSet(s) \cup ToSet(t) \subseteq ToSet(s \o t)
  BY <1>3, <1>4, <1>6
<1>8. ToSet(s \o t) \subseteq ToSet(s) \cup ToSet(t)
  BY <1>5, <1>6
<1> QED BY <1>1, <1>7, <1>8

LEMMA PoppedMembers ==
  ASSUME NEW s \in Seq(Change), s # <<>>
  PROVE  /\ Head(s) \in Change /\ Tail(s) \in Seq(Change) /\ Len(Tail(s)) = Len(s) - 1
         /\ ToSet(s) = {Head(s)} \cup ToSet(Tail(s))
<1>1. /\ Head(s) \in Change /\ Tail(s) \in Seq(Change) /\ Len(Tail(s)) = Len(s) - 1
      /\ \A i \in 1..Len(Tail(s)) : Tail(s)[i] = s[i + 1]
  BY HeadTailProperties
<1>2. Len(s) \in Nat /\ Len(s) >= 1 /\ Head(s) = s[1]
  BY EmptySeq
<1>3. ASSUME NEW i \in 1..Len(s)
      PROVE  i = 1 \/ (i - 1 \in 1..Len(Tail(s)) /\ s[i] = Tail(s)[i - 1])
  BY <1>1, <1>2
<1>4. ASSUME NEW i \in 1..Len(Tail(s)) PROVE i + 1 \in 1..Len(s) /\ s[i + 1] = Tail(s)[i]
  BY <1>1, <1>2
<1>5. /\ ToSet(s) = {s[i] : i \in 1..Len(s)} /\ 1 \in 1..Len(s)
      /\ ToSet(Tail(s)) = {Tail(s)[i] : i \in 1..Len(Tail(s))}
  <2>1. ToSet(s) = {s[i] : i \in 1..Len(s)}
    BY Members
  <2>2. ToSet(Tail(s)) = {Tail(s)[i] : i \in 1..Len(Tail(s))}
    BY <1>1, Members
  <2> QED BY <2>1, <2>2, <1>2
<1>6. {Head(s)} \cup ToSet(Tail(s)) \subseteq ToSet(s)
  BY <1>2, <1>4, <1>5
<1>7. ToSet(s) \subseteq {Head(s)} \cup ToSet(Tail(s))
  BY <1>2, <1>3, <1>5
<1> QED BY <1>1, <1>6, <1>7

LEMMA AppendedMembers ==
  ASSUME NEW s \in Seq(Change), NEW e \in Change
  PROVE  /\ Append(s, e) \in Seq(Change) /\ Len(Append(s, e)) = Len(s) + 1
         /\ ToSet(Append(s, e)) = ToSet(s) \cup {e}
<1>1. Append(s, e) = s \o <<e>> /\ <<e>> \in Seq(Change) /\ Len(<<e>>) = 1
  BY AppendIsConcat
<1>2. ToSet(<<e>>) = {e}
  <2>1. ToSet(<<e>>) = {<<e>>[i] : i \in 1..Len(<<e>>)}
    BY <1>1, Members
  <2>2. 1..Len(<<e>>) = {1} /\ <<e>>[1] = e
    BY <1>1
  <2> QED BY <2>1, <2>2
<1>3. /\ s \o <<e>> \in Seq(Change) /\ Len(s \o <<e>>) = Len(s) + Len(<<e>>)
      /\ ToSet(s \o <<e>>) = ToSet(s) \cup ToSet(<<e>>)
  BY <1>1, JoinedMembers
<1> QED BY <1>1, <1>2, <1>3

LEMMA EventType ==
  ASSUME NEW f \in Files, NEW kind \in Kinds
  PROVE  Event(f, kind) \in Change /\ Event(f, kind).file = f /\ Event(f, kind).kind = kind
BY DEF Event, Change

LEMMA MergedKind ==
  ASSUME NEW existing \in Kinds \cup {None}, NEW incoming \in Kinds
  PROVE  merge_kind(existing, incoming) \in Kinds
BY DEF merge_kind, Kinds

LEMMA EmittedKind ==
  ASSUME NEW kind \in Kinds, NEW exists
  PROVE  reconcile_emit_kind(kind, exists) \in Kinds
<1>1. CASE kind = "Removed" /\ exists = "yes"
  BY <1>1 DEF reconcile_emit_kind, Kinds
<1>2. CASE exists = "no"
  BY <1>2 DEF reconcile_emit_kind, Kinds
<1>3. CASE ~(kind = "Removed" /\ exists = "yes") /\ exists # "no"
  BY <1>3 DEF reconcile_emit_kind, Kinds
<1> QED BY <1>1, <1>2, <1>3

(* What is sent after the signal fits the channel. *)
LEMMA SentAtShutdown ==
  ASSUME out \in Seq(Change), Len(out) <= OutCapacity,
         NEW burst \in [Files -> Kinds \cup {None}], TrySend(burst)
  PROVE  out' \in Seq(Change) /\ Len(out') <= OutCapacity
<1> DEFINE due == {f \in Files : burst[f] # None}
<1>1. PICK order \in SetToSeqs(due) :
        LET room == OutCapacity - Len(out)
            fits == SubSeq(order, 1, IF room < Len(order) THEN room ELSE Len(order))
        IN  out' = out \o [i \in DOMAIN fits |->
                     Event(fits[i], reconcile_emit_kind(burst[fits[i]], Exists(fits[i])))]
  BY DEF TrySend
<1> DEFINE room == OutCapacity - Len(out)
           last == IF room < Len(order) THEN room ELSE Len(order)
           fits == SubSeq(order, 1, last)
           tail == [i \in DOMAIN fits |->
                     Event(fits[i], reconcile_emit_kind(burst[fits[i]], Exists(fits[i])))]
<1>2. Cardinality(due) \in Nat
  BY FS_Subset, FS_CardinalityType, WatchAssumption
<1>3. order \in Seq(due)
  <2>1. order \in [1..Cardinality(due) -> due]
    BY DEF SetToSeqs
  <2> HIDE DEF due
  <2> QED BY <2>1, <1>2
<1>4. Len(order) \in Nat /\ Len(out) \in Nat /\ room \in Nat
  BY <1>3, WatchAssumption
<1>5. last \in 0..Len(order) /\ last <= room
  BY <1>4
<1>6. \A i \in 1..last : order[i] \in due
  BY <1>3, <1>4, <1>5, ElementOfSeq
<1> HIDE DEF due, room, last
<1>7. fits \in Seq(due) /\ Len(fits) = last
  <2>1. 1 \in Int /\ last \in Int
    BY <1>5
  <2>2. fits \in Seq(due) /\ Len(fits) = IF 1 <= last THEN last - 1 + 1 ELSE 0
    BY <2>1, <1>6, SubSeqProperties
  <2> QED BY <2>2, <1>5
<1> HIDE DEF fits
<1>8. DOMAIN fits = 1..last /\ \A i \in 1..last : fits[i] \in due
  BY <1>7, ElementOfSeq, LenProperties
<1>9. \A i \in 1..last : tail[i] \in Change
  <2> SUFFICES ASSUME NEW i \in 1..last PROVE tail[i] \in Change
    OBVIOUS
  <2>1. fits[i] \in Files /\ burst[fits[i]] \in Kinds
    BY <1>8 DEF due
  <2>2. reconcile_emit_kind(burst[fits[i]], Exists(fits[i])) \in Kinds
    BY <2>1, EmittedKind
  <2> QED BY <2>1, <2>2, <1>8, EventType
<1>10. tail \in Seq(Change) /\ Len(tail) = last
  <2>1. tail \in [1..last -> Change]
    BY <1>8, <1>9
  <2> QED BY <2>1, <1>5
<1>11. out' = out \o tail
  BY <1>1 DEF room, last, fits
<1> HIDE DEF tail
<1>12. Len(out) + last <= OutCapacity
  BY <1>4, <1>5, WatchAssumption DEF room
<1> QED BY <1>10, <1>11, <1>12, JoinedMembers

-----------------------------------------------------------------------------
(* Types *)

LEMMA CountType ==
  ASSUME NEW burst \in [Files -> Kinds \cup {None}]
  PROVE  Cardinality({f \in Files : burst[f] # None}) \in Nat
BY FS_Subset, FS_CardinalityType, WatchAssumption

LEMMA ReportedType ==
  ASSUME TypeOK, NEW f \in Files, NEW events \in Seq(Change), Reported(f, events)
  PROVE  raw' \in Seq(Change) /\ Len(raw') <= RawCapacity
<1>1. CASE f \in watching
  <2>1. raw \in Seq(Change) /\ Len(raw) + Len(events) <= RawCapacity /\ raw' = raw \o events
    BY <1>1 DEF Reported, TypeOK
  <2>2. raw \o events \in Seq(Change) /\ Len(raw \o events) = Len(raw) + Len(events)
    BY <2>1, JoinedMembers
  <2> QED BY <2>1, <2>2
<1>2. CASE f \notin watching
  BY <1>2 DEF Reported, TypeOK
<1> QED BY <1>1, <1>2

LEMMA EditedType ==
  ASSUME TypeOK, NEW f \in Files, Edited(f),
         raw' \in Seq(Change), Len(raw') <= RawCapacity,
         disk' \subseteq Files, wanted' \subseteq Dependencies, edits' \in 0..MaxEdits,
         fresh' \subseteq Files, unseen' \subseteq Files
  PROVE  TypeOK'
<1>1. Bursting' = Bursting
  BY DEF Bursting, Edited
<1>2. touched' \subseteq Files /\ since' \subseteq Files /\ accounted' \subseteq Files
      /\ told' \in [Files -> SUBSET {"present", "absent"}]
  BY DEF Edited, TypeOK
<1> QED BY <1>1, <1>2 DEF TypeOK, Edited

LEMMA FlushType ==
  ASSUME TypeOK, NEW burst \in [Files -> Kinds \cup {None}], Flush(burst)
  PROVE  /\ pending' \in [Files -> Kinds \cup {None}] /\ flush' \in [Files -> Kinds \cup {None}]
         /\ Cardinality(Bursting') < MaxPending
         /\ age' = "new" /\ debouncer' = "emit"
<1>1. pending' = NoBurst /\ Bursting' = {}
  BY DEF Flush, NoBurst, Bursting
<1>2. Cardinality({}) = 0
  BY FS_EmptySet
<1> QED BY <1>1, <1>2, WatchAssumption DEF Flush, NoBurst

LEMMA PassType ==
  ASSUME TypeOK, NEW batch \in SUBSET Files, NEW says,
         \A f \in batch : says[f] \in SUBSET {"present", "absent"},
         Pass(batch, says)
  PROVE  /\ loop' = "running"
         /\ reads' \subseteq Files /\ touched' \subseteq Files /\ accounted' \subseteq Files
         /\ told' \in [Files -> SUBSET {"present", "absent"}]
<1>1. reads' \subseteq Files
  BY WatchAssumption DEF Pass, TypeOK, Dependencies
<1>2. \A f \in Files : State(f) \in {"present", "absent"}
  BY DEF State
<1>3. told' \in [Files -> SUBSET {"present", "absent"}]
  BY <1>2 DEF Pass, TypeOK
<1> QED BY <1>1, <1>3 DEF Pass, TypeOK

LEMMA BatchType ==
  ASSUME TypeOK
  PROVE  Batch \subseteq Change
<1>1. ToSet(out) \subseteq Change
  BY Members DEF TypeOK
<1>2. "Modified" \in Kinds
  BY DEF Kinds
<1> QED BY <1>1, <1>2, EventType DEF Batch, TypeOK

LEMMA TypeInit == Init => TypeOK
<1> SUFFICES ASSUME Init PROVE TypeOK
  OBVIOUS
<1>1. Bursting = {} /\ Cardinality({}) = 0
  BY FS_EmptySet DEF Init, Bursting, NoBurst
<1>2. raw \in Seq(Change) /\ Len(raw) = 0 /\ out \in Seq(Change) /\ Len(out) = 0
  BY DEF Init
<1>3. Rooted \cup wanted \subseteq Files
  BY WatchAssumption DEF Init, Dependencies
<1>4. told \in [Files -> SUBSET {"present", "absent"}]
  BY DEF Init
<1>5. pending \in [Files -> Kinds \cup {None}] /\ flush \in [Files -> Kinds \cup {None}]
  BY DEF Init, NoBurst
<1>6. {synth, reads, touched, published, since, accounted, fresh, unseen, misread}
        \subseteq SUBSET Files
  BY <1>3 DEF Init
<1>7. Cardinality(Bursting) < MaxPending
  BY <1>1, WatchAssumption
<1>8. Len(raw) <= RawCapacity /\ Len(out) <= OutCapacity /\ edits \in 0..MaxEdits
  BY <1>2, WatchAssumption DEF Init
<1> QED BY <1>2, <1>4, <1>5, <1>6, <1>7, <1>8, WatchAssumption DEF Init, TypeOK

LEMMA TypeStep == TypeOK /\ [Next]_vars => TypeOK'
<1> SUFFICES ASSUME TypeOK, [Next]_vars PROVE TypeOK'
  OBVIOUS
<1> USE WatchAssumption
<1>1. ASSUME NEW f \in Files, Modify(f) PROVE TypeOK'
  <2>1. PICK kind \in {"Modified", "Created"} : Reported(f, <<Event(f, kind)>>)
    BY <1>1 DEF Modify
  <2>2. <<Event(f, kind)>> \in Seq(Change)
    BY EventType DEF Kinds
  <2>3. raw' \in Seq(Change) /\ Len(raw') <= RawCapacity
    BY <2>1, <2>2, ReportedType
  <2>4. wanted' \subseteq Dependencies
    BY <1>1 DEF Modify, TypeOK
  <2>5. /\ disk' \subseteq Files /\ fresh' \subseteq Files /\ unseen' \subseteq Files
        /\ edits' \in 0..MaxEdits /\ Edited(f)
    BY <1>1 DEF Modify, Counted, TypeOK
  <2> QED BY <2>3, <2>4, <2>5, EditedType
<1>2. ASSUME NEW f \in Files, Create(f) PROVE TypeOK'
  <2>1. <<Event(f, "Created")>> \in Seq(Change)
    BY EventType DEF Kinds
  <2>2. raw' \in Seq(Change) /\ Len(raw') <= RawCapacity
    BY <1>2, <2>1, ReportedType DEF Create
  <2>3. /\ disk' \subseteq Files /\ fresh' \subseteq Files /\ unseen' \subseteq Files
        /\ wanted' \subseteq Dependencies /\ edits' \in 0..MaxEdits /\ Edited(f)
    BY <1>2 DEF Create, CameOrWent, Counted, TypeOK
  <2> QED BY <2>2, <2>3, EditedType
<1>3. ASSUME NEW f \in Files, Delete(f) PROVE TypeOK'
  <2>1. PICK late \in {<<>>, <<Event(f, "Modified")>>} :
          Reported(f, <<Event(f, "Removed")>> \o late)
    BY <1>3 DEF Delete
  <2>2. <<Event(f, "Removed")>> \in Seq(Change) /\ late \in Seq(Change)
    <3>1. Event(f, "Removed") \in Change /\ Event(f, "Modified") \in Change
      BY EventType DEF Kinds
    <3>2. <<>> \in Seq(Change) /\ <<Event(f, "Modified")>> \in Seq(Change)
      BY <3>1
    <3>3. late = <<>> \/ late = <<Event(f, "Modified")>>
      OBVIOUS
    <3>4. <<Event(f, "Removed")>> \in Seq(Change)
      BY <3>1
    <3> QED BY <3>2, <3>3, <3>4
  <2>3. <<Event(f, "Removed")>> \o late \in Seq(Change)
    BY <2>2, JoinedMembers
  <2>4. raw' \in Seq(Change) /\ Len(raw') <= RawCapacity
    BY <2>1, <2>3, ReportedType
  <2>5. /\ disk' \subseteq Files /\ fresh' \subseteq Files /\ unseen' \subseteq Files
        /\ wanted' \subseteq Dependencies /\ edits' \in 0..MaxEdits /\ Edited(f)
    BY <1>3 DEF Delete, CameOrWent, Counted, TypeOK
  <2> QED BY <2>4, <2>5, EditedType
<1>4. ASSUME NEW f \in Files, Restore(f) PROVE TypeOK'
  <2>1. <<Event(f, "Removed")>> \in Seq(Change)
    BY EventType DEF Kinds
  <2>2. raw' \in Seq(Change) /\ Len(raw') <= RawCapacity
    BY <1>4, <2>1, ReportedType DEF Restore
  <2>3. /\ disk' \subseteq Files /\ fresh' \subseteq Files /\ unseen' \subseteq Files
        /\ wanted' \subseteq Dependencies /\ edits' \in 0..MaxEdits /\ Edited(f)
    BY <1>4 DEF Restore, Counted, TypeOK, disks
  <2> QED BY <2>2, <2>3, EditedType
<1>5. ASSUME NEW f \in Hot, ModifyHot(f) PROVE TypeOK'
  <2>1. f \in Files /\ <<Event(f, "Modified")>> \in Seq(Change)
    BY EventType DEF Kinds
  <2>2. raw' \in Seq(Change) /\ Len(raw') <= RawCapacity
    BY <1>5, <2>1, ReportedType DEF ModifyHot
  <2>3. /\ disk' \subseteq Files /\ fresh' \subseteq Files /\ unseen' \subseteq Files
        /\ wanted' \subseteq Dependencies /\ edits' \in 0..MaxEdits /\ Edited(f)
    BY <1>5 DEF ModifyHot, TypeOK, disks
  <2> QED BY <2>1, <2>2, <2>3, EditedType
<1>6. ASSUME Recv PROVE TypeOK'
  <2> DEFINE e == Head(raw)
             burst == [pending EXCEPT ![e.file] = merge_kind(@, e.kind)]
  <2>1. /\ e \in Change /\ raw' \in Seq(Change) /\ Len(raw') = Len(raw) - 1
        /\ Len(raw) \in Nat
    BY <1>6, PoppedMembers DEF Recv, TypeOK
  <2>2. e.file \in Files /\ e.kind \in Kinds
    BY <2>1 DEF Change
  <2>3. pending \in [Files -> Kinds \cup {None}]
    BY DEF TypeOK
  <2>4. merge_kind(pending[e.file], e.kind) \in Kinds
    BY <2>2, <2>3, MergedKind
  <2>5. burst \in [Files -> Kinds \cup {None}]
    BY <2>3, <2>4
  <2>6. IF Forced(burst) THEN Flush(burst)
        ELSE pending' = burst /\ UNCHANGED <<age, flush, debouncer>>
    BY <1>6 DEF Recv
  <2> HIDE DEF burst, e
  <2>7. /\ pending' \in [Files -> Kinds \cup {None}] /\ flush' \in [Files -> Kinds \cup {None}]
        /\ Cardinality(Bursting') < MaxPending
        /\ age' \in {"new", "elapsed", "quiet"} /\ debouncer' \in {"select", "emit", "done"}
    <3>1. CASE Forced(burst)
      BY <3>1, <2>5, <2>6, FlushType
    <3>2. CASE ~Forced(burst)
      <4>1. Bursting' = {f \in Files : burst[f] # None}
        BY <3>2, <2>6 DEF Bursting
      <4>2. Cardinality({f \in Files : burst[f] # None}) < MaxPending
        BY <3>2, <2>5, CountType DEF Forced
      <4> QED BY <3>2, <4>1, <4>2, <2>5, <2>6 DEF TypeOK
    <3> QED BY <3>1, <3>2
  <2> QED BY <1>6, <2>1, <2>7 DEF Recv, TypeOK, disks, registry, history
<1>7. ASSUME Elapse PROVE TypeOK'
  <2>1. Bursting' = Bursting
    BY <1>7 DEF Elapse, Bursting
  <2> QED BY <1>7, <2>1 DEF Elapse, TypeOK, disks, registry, history
<1>8. ASSUME QuietTick PROVE TypeOK'
  <2>1. /\ pending' \in [Files -> Kinds \cup {None}] /\ flush' \in [Files -> Kinds \cup {None}]
        /\ Cardinality(Bursting') < MaxPending /\ age' = "new" /\ debouncer' = "emit"
    BY <1>8, FlushType DEF QuietTick, TypeOK
  <2> QED BY <1>8, <2>1 DEF QuietTick, TypeOK, disks, registry, history
<1>9. ASSUME NEW f \in Files, EmitNext(f) PROVE TypeOK'
  <2>1. PICK exists \in {Exists(f), "error"} :
          /\ inflight' = Event(f, reconcile_emit_kind(flush[f], exists))
          /\ misread' = IF exists = "error" /\ Misreads(f, reconcile_emit_kind(flush[f], exists))
                        THEN misread \cup {f} ELSE misread
    BY <1>9 DEF EmitNext
  <2>2. flush[f] \in Kinds
    BY <1>9 DEF EmitNext, TypeOK
  <2>3. inflight' \in Change
    BY <2>1, <2>2, EmittedKind, EventType
  <2>4. misread' \subseteq Files
    BY <2>1 DEF TypeOK
  <2>5. Bursting' = Bursting /\ flush' \in [Files -> Kinds \cup {None}]
    BY <1>9 DEF EmitNext, Bursting, TypeOK
  <2> QED BY <1>9, <2>3, <2>4, <2>5 DEF EmitNext, TypeOK, disks, registry
<1>10. ASSUME SendChange PROVE TypeOK'
  <2>1. out' \in Seq(Change) /\ Len(out') = Len(out) + 1 /\ Len(out) \in Nat
    BY <1>10, AppendedMembers DEF SendChange, TypeOK
  <2>2. Len(out') <= OutCapacity
    BY <1>10, <2>1 DEF SendChange
  <2>3. Bursting' = Bursting
    BY <1>10 DEF SendChange, Bursting
  <2>4. debouncer' \in {"select", "emit", "done"}
    BY <1>10 DEF SendChange
  <2> QED BY <1>10, <2>1, <2>2, <2>3, <2>4 DEF SendChange, TypeOK, disks, registry, history
<1>11. ASSUME ShutdownSeen PROVE TypeOK'
  <2> DEFINE burst == IF debouncer = "select" THEN pending ELSE flush
  <2>1. burst \in [Files -> Kinds \cup {None}] /\ TrySend(burst)
    BY <1>11 DEF ShutdownSeen, TypeOK
  <2> HIDE DEF burst
  <2>2. out' \in Seq(Change) /\ Len(out') <= OutCapacity
    BY <2>1, SentAtShutdown DEF TypeOK
  <2>3. Bursting' = {} /\ Cardinality({}) = 0
    BY <1>11, FS_EmptySet DEF ShutdownSeen, Bursting, NoBurst
  <2>4. pending' \in [Files -> Kinds \cup {None}] /\ flush' \in [Files -> Kinds \cup {None}]
    BY <1>11 DEF ShutdownSeen, NoBurst
  <2> QED BY <1>11, <2>2, <2>3, <2>4 DEF ShutdownSeen, TypeOK, disks, registry, history
<1>12. ASSUME Shutdown PROVE TypeOK'
  BY <1>12 DEF Shutdown, TypeOK, Bursting, disks, buffers, registry, history
<1>13. ASSUME StartWatcher PROVE TypeOK'
  BY <1>13 DEF StartWatcher, TypeOK, Bursting, disks, buffers, registry, history
<1>14. ASSUME NEW armed \in SUBSET Dependencies, BootArm(armed) PROVE TypeOK'
  <2>1. watching' \subseteq Files /\ synth' \subseteq Files /\ accounted' \subseteq Files
    BY <1>14 DEF BootArm, Arm, Unobserved, TypeOK, Dependencies
  <2>2. Bursting' = Bursting
    BY <1>14 DEF BootArm, Bursting, buffers
  <2> QED BY <1>14, <2>1, <2>2 DEF BootArm, TypeOK, disks, buffers, history
<1>15. ASSUME NEW eager \in BOOLEAN, Boot(eager) PROVE TypeOK'
  <2>1. /\ loop' \in {"idle", "running"} /\ told' \in [Files -> SUBSET {"present", "absent"}]
        /\ reads' \subseteq Files /\ touched' \subseteq Files /\ accounted' \subseteq Files
    <3>1. CASE eager
      BY <1>15, <3>1, PassType DEF Boot
    <3>2. CASE ~eager
      BY <1>15, <3>2 DEF Boot, TypeOK
    <3> QED BY <3>1, <3>2
  <2>2. Bursting' = Bursting
    BY <1>15 DEF Boot, Bursting, buffers
  <2> QED BY <1>15, <2>1, <2>2 DEF Boot, TypeOK, disks, buffers
<1>16. ASSUME TickStart PROVE TypeOK'
  <2> DEFINE batch == {c.file : c \in Batch}
             says == [f \in batch |-> {Says(c) : c \in {b \in Batch : b.file = f}}]
  <2>1. batch \subseteq Files
    BY BatchType DEF Change
  <2>2. \A f \in batch : says[f] \in SUBSET {"present", "absent"}
    BY DEF Says
  <2>3. Pass(batch, says)
    BY <1>16 DEF TickStart
  <2> HIDE DEF batch, says
  <2>4. /\ loop' = "running" /\ told' \in [Files -> SUBSET {"present", "absent"}]
        /\ reads' \subseteq Files /\ touched' \subseteq Files /\ accounted' \subseteq Files
    BY <2>1, <2>2, <2>3, PassType
  <2>5. Bursting' = Bursting
    BY <1>16 DEF TickStart, Bursting
  <2>6. out' \in Seq(Change) /\ Len(out') <= OutCapacity
    BY <1>16 DEF TickStart
  <2>7. fresh' \subseteq Files /\ synth' = {}
    BY <1>16 DEF TickStart, TypeOK
  <2> QED BY <1>16, <2>4, <2>5, <2>6, <2>7 DEF TickStart, TypeOK, disks
<1>17. ASSUME NEW succeeds \in BOOLEAN, NEW armed \in SUBSET Dependencies,
              EndPass(succeeds, armed)
       PROVE  TypeOK'
  <2>1. /\ published' \subseteq Files /\ since' \subseteq Files /\ watching' \subseteq Files
        /\ synth' \subseteq Files /\ accounted' \subseteq Files
    BY <1>17 DEF EndPass, Arm, Unobserved, TypeOK, Dependencies
  <2>2. Bursting' = Bursting
    BY <1>17 DEF EndPass, Bursting, buffers
  <2>3. /\ loop' = "idle"
        /\ UNCHANGED <<disks, buffers, shutdown, reads, touched, history>>
    BY <1>17 DEF EndPass
  <2> QED BY <2>1, <2>2, <2>3 DEF TypeOK, disks, buffers, history
<1>18. ASSUME Stall PROVE TypeOK'
  BY <1>18 DEF Stall, TypeOK, Bursting, disks, buffers, registry, history
<1>19. ASSUME UNCHANGED vars PROVE TypeOK'
  BY <1>19 DEF vars, TypeOK, Bursting, disks, buffers, registry, history
<1> QED BY <1>1, <1>2, <1>3, <1>4, <1>5, <1>6, <1>7, <1>8, <1>9, <1>10, <1>11, <1>12, <1>13,
           <1>14, <1>15, <1>16, <1>17, <1>18, <1>19 DEF Next, Debouncer, DrainLoop

(* No queue exceeds its bound: the burst stays below the threshold that    *)
(* flushes it, the channel within its capacity, also when the rest of a    *)
(* burst is sent at shutdown.                                              *)
THEOREM TypeCorrect == Spec => []TypeOK
<1> QED BY TypeInit, TypeStep, PTL DEF Spec

-----------------------------------------------------------------------------
(* The inductive invariant: where the news of a file is, until it is told. *)

Control ==
  /\ debouncer = "select" => flush = NoBurst /\ inflight = None
  /\ Rooted \subseteq reads \cap published
  /\ loop = "unwatched" => watching = {}
  /\ loop \in {"unwatched", "armed"} => synth = {} /\ accounted = {} /\ watching \subseteq Rooted

Mentions(s, f) == \E e \in ToSet(s) : e.file = f

(* Before the probe of the disk, after it, and sent. *)
Up(f)      == Mentions(raw, f) \/ pending[f] # None \/ flush[f] # None
Carried(f) == inflight # None /\ inflight.file = f
Queued(f)  == Mentions(out, f)

(* Only a watched file has events, and an unwatched file that is gone was  *)
(* seen to go by nobody, or is a manifest.                                 *)
FromWatch == \A f \in Files : Up(f) \/ Carried(f) \/ Queued(f) => f \in watching
Hidden    == Files \ watching \subseteq disk \cup unseen \cup Manifests

(* What is accounted for, and what the last pass or the running one read,  *)
(* is told or will be by a synthesized change.                             *)
Heard(f) == f \in synth \/ State(f) \in told[f]
Unwatched(f) ==
  f \notin watching \cup unseen =>
    /\ f \in accounted => Heard(f)
    /\ f \in published \ since => Heard(f)
    /\ loop = "running" /\ f \in reads \ touched => Heard(f)

(* Past the probe, the last word on a watched file is right. *)
Right(c) == (c.kind = "Removed") <=> (c.file \notin disk)
Known(f) ==
  IF Carried(f) THEN Right(inflight)
  ELSE IF Queued(f) THEN \E c \in ToSet(out) : c.file = f /\ Right(c)
  ELSE IF f \in synth THEN f \in disk \cup Manifests
  ELSE State(f) \in told[f] \/ (loop = "armed" /\ f \in since \cap disk)
Watched(f) == f \in watching \ (unseen \cup misread) => Up(f) \/ Known(f)

(* The creation of a fresh file is on its way, with no removal behind it. *)
Telling(s, f) ==
  \E i \in 1..Len(s) :
    s[i] = Event(f, "Created") /\ \A j \in i + 1..Len(s) : s[j] # Event(f, "Removed")
Announced(f) ==
  f \in fresh =>
    \/ Telling(raw, f)
    \/ pending[f] = "Created" /\ Event(f, "Removed") \notin ToSet(raw)
    \/ flush[f] = "Created"
    \/ inflight = Event(f, "Created")
    \/ Event(f, "Created") \in ToSet(out)

Live ==
  /\ fresh \subseteq disk /\ FromWatch /\ Hidden
  /\ \A f \in Files : Unwatched(f) /\ Watched(f) /\ Announced(f)

WatchInv == TypeOK /\ Control /\ (~shutdown => Live)

-----------------------------------------------------------------------------
(* Announcements along a queue. *)

LEMMA TellingAppended ==
  ASSUME NEW s \in Seq(Change), NEW f \in Files, NEW e \in Change,
         \/ e = Event(f, "Created")
         \/ Telling(s, f) /\ e # Event(f, "Removed")
  PROVE  Telling(s \o <<e>>, f)
<1> DEFINE t == s \o <<e>>
<1>1. /\ t \in Seq(Change) /\ Len(t) = Len(s) + 1 /\ Len(s) \in Nat
      /\ \A i \in 1..Len(s) : t[i] = s[i]
      /\ t[Len(s) + 1] = e
  BY AppendProperties, AppendIsConcat
<1> HIDE DEF t
<1>2. CASE e = Event(f, "Created")
  <2>1. /\ Len(s) + 1 \in 1..Len(t) /\ t[Len(s) + 1] = Event(f, "Created")
        /\ (Len(s) + 1) + 1..Len(t) = {}
    BY <1>1, <1>2
  <2> QED BY <2>1 DEF Telling, t
<1>3. CASE Telling(s, f) /\ e # Event(f, "Removed")
  <2>1. PICK i \in 1..Len(s) :
          s[i] = Event(f, "Created") /\ \A j \in i + 1..Len(s) : s[j] # Event(f, "Removed")
    BY <1>3 DEF Telling
  <2>2. i \in 1..Len(t) /\ t[i] = Event(f, "Created")
    BY <1>1, <2>1
  <2>3. ASSUME NEW j \in i + 1..Len(t) PROVE t[j] # Event(f, "Removed")
    <3>1. CASE j = Len(s) + 1
      BY <1>1, <1>3, <3>1
    <3>2. CASE j # Len(s) + 1
      <4>1. j \in i + 1..Len(s) /\ j \in 1..Len(s)
        BY <1>1, <3>2
      <4> QED BY <1>1, <2>1, <4>1
    <3> QED BY <3>1, <3>2
  <2> QED BY <2>2, <2>3 DEF Telling, t
<1> QED BY <1>2, <1>3

LEMMA TellingJoined ==
  ASSUME NEW s \in Seq(Change), NEW t \in Seq(Change), NEW f \in Files,
         Telling(s, f), \A e \in ToSet(t) : e # Event(f, "Removed")
  PROVE  Telling(s \o t, f)
<1> DEFINE u == s \o t
<1>1. /\ Len(u) = Len(s) + Len(t) /\ Len(s) \in Nat /\ Len(t) \in Nat
      /\ \A i \in 1..Len(s) + Len(t) : u[i] = IF i <= Len(s) THEN s[i] ELSE t[i - Len(s)]
  BY ConcatProperties
<1>2. \A k \in 1..Len(t) : t[k] # Event(f, "Removed")
  BY Members
<1>3. PICK i \in 1..Len(s) :
        s[i] = Event(f, "Created") /\ \A j \in i + 1..Len(s) : s[j] # Event(f, "Removed")
  BY DEF Telling
<1> HIDE DEF u
<1>4. i \in 1..Len(u) /\ u[i] = Event(f, "Created")
  BY <1>1, <1>3
<1>5. ASSUME NEW j \in i + 1..Len(u) PROVE u[j] # Event(f, "Removed")
  <2>1. CASE j <= Len(s)
    BY <1>1, <1>3, <2>1
  <2>2. CASE ~(j <= Len(s))
    <3>1. j - Len(s) \in 1..Len(t) /\ u[j] = t[j - Len(s)]
      BY <1>1, <1>3, <2>2
    <3> QED BY <3>1, <1>2
  <2> QED BY <2>1, <2>2
<1> QED BY <1>4, <1>5 DEF Telling, u

LEMMA TellingPopped ==
  ASSUME NEW s \in Seq(Change), NEW f \in Files, s # <<>>, Telling(s, f)
  PROVE  \/ Head(s) = Event(f, "Created") /\ Event(f, "Removed") \notin ToSet(Tail(s))
         \/ Telling(Tail(s), f)
<1>1. PICK i \in 1..Len(s) :
        s[i] = Event(f, "Created") /\ \A j \in i + 1..Len(s) : s[j] # Event(f, "Removed")
  BY DEF Telling
<1>2. /\ Tail(s) \in Seq(Change) /\ Len(Tail(s)) = Len(s) - 1
      /\ \A k \in 1..Len(Tail(s)) : Tail(s)[k] = s[k + 1]
  BY HeadTailProperties
<1>3. Len(s) \in Nat /\ Head(s) = s[1]
  BY EmptySeq
<1>4. CASE i = 1
  <2>1. ToSet(Tail(s)) = {Tail(s)[k] : k \in 1..Len(Tail(s))}
    BY <1>2, Members
  <2>2. \A k \in 1..Len(Tail(s)) : Tail(s)[k] # Event(f, "Removed")
    BY <1>1, <1>2, <1>3, <1>4
  <2> QED BY <1>1, <1>3, <1>4, <2>1, <2>2
<1>5. CASE i # 1
  <2>1. i - 1 \in 1..Len(Tail(s)) /\ Tail(s)[i - 1] = Event(f, "Created")
    BY <1>1, <1>2, <1>3, <1>5
  <2>2. \A k \in (i - 1) + 1..Len(Tail(s)) : Tail(s)[k] # Event(f, "Removed")
    BY <1>1, <1>2, <1>3, <1>5
  <2> QED BY <2>1, <2>2 DEF Telling
<1> QED BY <1>4, <1>5

LEMMA EmptyMentions == ToSet(<<>>) = {} /\ \A f : ~Mentions(<<>>, f) /\ ~Telling(<<>>, f)
<1>1. ToSet(<<>>) = {}
  BY DEF ToSet
<1>2. 1..Len(<<>>) = {}
  OBVIOUS
<1> QED BY <1>1, <1>2 DEF Mentions, Telling

-----------------------------------------------------------------------------
(* The initial state and control. *)

LEMMA InvInit == Init => WatchInv
<1> SUFFICES ASSUME Init PROVE WatchInv
  OBVIOUS
<1> USE WatchAssumption
<1>1. Control
  BY DEF Init, Control
<1>2. FromWatch
  BY EmptyMentions DEF Init, FromWatch, Up, Carried, Queued, NoBurst
<1>3. \A f \in Files : told[f] = {"present"}
  BY DEF Init
<1>4. Hidden /\ fresh = {} /\ watching = {}
  BY DEF Init, Hidden
<1>5. \A f \in Files : Unwatched(f) /\ Watched(f) /\ Announced(f)
  <2>1. \A f \in Files : State(f) = "present" /\ f \notin accounted /\ f \notin fresh
    BY <1>4 DEF Init, State
  <2> QED BY <1>3, <1>4, <2>1 DEF Unwatched, Watched, Announced, Heard
<1> QED BY <1>1, <1>2, <1>4, <1>5, TypeInit DEF WatchInv, Live

LEMMA ControlStep == TypeOK /\ Control /\ [Next]_vars => Control'
<1> SUFFICES ASSUME TypeOK, Control, [Next]_vars PROVE Control'
  OBVIOUS
<1> USE WatchAssumption
<1>1. ASSUME NEW f \in Files, Edited(f), UNCHANGED watching, accounted' \subseteq accounted
      PROVE  Control'
  BY <1>1 DEF Edited, Control, NoBurst
<1>2. ASSUME NEW f \in Files, Modify(f) \/ Create(f) \/ Delete(f) \/ Restore(f) PROVE Control'
  <2>1. Edited(f) /\ UNCHANGED watching /\ accounted' \subseteq accounted
    BY <1>2 DEF Modify, Create, Delete, Restore, Edited
  <2> QED BY <2>1, <1>1
<1>3. ASSUME NEW f \in Hot, ModifyHot(f) PROVE Control'
  <2>1. f \in Files /\ Edited(f) /\ UNCHANGED watching /\ accounted' \subseteq accounted
    BY <1>3 DEF ModifyHot, Edited
  <2> QED BY <2>1, <1>1
<1>4. CASE Recv
  BY <1>4 DEF Recv, Flush, Control, NoBurst, registry
<1>5. CASE QuietTick
  BY <1>5 DEF QuietTick, Flush, Control, NoBurst, registry
<1>6. CASE SendChange
  BY <1>6 DEF SendChange, Control, NoBurst, registry
<1>7. CASE ShutdownSeen
  BY <1>7 DEF ShutdownSeen, Control, NoBurst, registry
<1>8. ASSUME NEW f \in Files, EmitNext(f) PROVE Control'
  BY <1>8 DEF EmitNext, Control, NoBurst, registry
<1>9. CASE Elapse \/ Shutdown \/ UNCHANGED vars
  BY <1>9 DEF Elapse, Shutdown, vars, Control, NoBurst, buffers, registry
<1>10. CASE StartWatcher
  BY <1>10 DEF StartWatcher, Control, NoBurst, buffers, registry
<1>11. ASSUME NEW armed \in SUBSET Dependencies, BootArm(armed) PROVE Control'
  BY <1>11 DEF BootArm, Control, NoBurst, buffers
<1>12. ASSUME NEW eager \in BOOLEAN, Boot(eager) PROVE Control'
  <2>1. CASE eager
    BY <1>12, <2>1 DEF Boot, Pass, Control, NoBurst, buffers
  <2>2. CASE ~eager
    BY <1>12, <2>2 DEF Boot, Control, NoBurst, buffers
  <2> QED BY <2>1, <2>2
<1>13. CASE TickStart
  BY <1>13 DEF TickStart, Pass, Control, NoBurst
<1>14. ASSUME NEW succeeds \in BOOLEAN, NEW armed \in SUBSET Dependencies,
              EndPass(succeeds, armed)
       PROVE  Control'
  BY <1>14 DEF EndPass, Control, NoBurst, buffers
<1>15. CASE Stall
  BY <1>15 DEF Stall, Control, NoBurst, buffers, registry
<1> QED BY <1>2, <1>3, <1>4, <1>5, <1>6, <1>7, <1>8, <1>9, <1>10, <1>11, <1>12, <1>13, <1>14,
           <1>15 DEF Next, Debouncer, DrainLoop

-----------------------------------------------------------------------------
(* An edit: the event of a watched file goes up, an unwatched one is dated. *)

LEMMA EditStep ==
  ASSUME TypeOK, Control, Live, NEW g \in Files, NEW events \in Seq(Change),
         events # <<>>, \A e \in ToSet(events) : e.file = g,
         Reported(g, events), Edited(g),
         \A f \in Files \ {g} : /\ f \in disk' <=> f \in disk
                                /\ f \in unseen' <=> f \in unseen
                                /\ f \in fresh' <=> f \in fresh,
         fresh' \subseteq disk', g \in watching \cup disk' \cup unseen' \cup Manifests,
         \A f \in Files : Announced(f)'
  PROVE  Live'
<1>1. /\ UNCHANGED <<watching, pending, flush, inflight, out, loop, synth, reads, published, misread>>
      /\ touched' = touched \cup {g} /\ since' = since \cup {g}
      /\ accounted' = accounted \ {g}
      /\ \A f \in Files \ {g} : told'[f] = told[f]
  BY DEF Edited, TypeOK
<1>2. raw \in Seq(Change)
  BY DEF TypeOK
<1>3. CASE g \in watching
  <2>1. ToSet(raw)' = ToSet(raw) \cup ToSet(events)
    BY <1>2, <1>3, JoinedMembers DEF Reported
  <2>2. ToSet(events) # {}
    BY Members
  <2>3. Up(g)'
    BY <2>1, <2>2 DEF Up, Mentions
  <2>4. ASSUME NEW f \in Files \ {g}
        PROVE  /\ Up(f)' <=> Up(f)
               /\ Carried(f)' <=> Carried(f)
               /\ Queued(f)' <=> Queued(f)
               /\ Unwatched(f)' /\ Watched(f)'
    <3>1. Mentions(raw, f)' <=> Mentions(raw, f)
      BY <2>1, <2>4 DEF Mentions
    <3>2. (Up(f)' <=> Up(f)) /\ (Carried(f)' <=> Carried(f)) /\ (Queued(f)' <=> Queued(f))
      BY <3>1, <1>1 DEF Up, Carried, Queued, Mentions
    <3>3. Unwatched(f)'
      BY <1>1 DEF Live, Unwatched, Heard, State
    <3>4. Known(f)' <=> Known(f)
      <4>1. State(f)' = State(f) /\ (f \in since' \cap disk' <=> f \in since \cap disk)
        BY <1>1 DEF State
      <4>2. Carried(f) => (Right(inflight)' <=> Right(inflight))
        BY <1>1 DEF Right, Carried
      <4>3. (\E c \in ToSet(out) : c.file = f /\ Right(c))' <=>
              \E c \in ToSet(out) : c.file = f /\ Right(c)
        BY <1>1 DEF Right
      <4> QED BY <3>2, <4>1, <4>2, <4>3, <1>1 DEF Known
    <3>5. Watched(f)'
      BY <3>2, <3>4, <1>1 DEF Live, Watched
    <3> QED BY <3>2, <3>3, <3>5
  <2>5. FromWatch'
    BY <1>1, <1>3, <2>4 DEF Live, FromWatch
  <2>6. Hidden'
    BY <1>1, <1>3 DEF Live, Hidden
  <2>7. Unwatched(g)' /\ Watched(g)'
    BY <1>1, <1>3, <2>3 DEF Unwatched, Watched
  <2> QED BY <2>4, <2>5, <2>6, <2>7 DEF Live
<1>4. CASE g \notin watching
  <2>1. UNCHANGED raw
    BY <1>4 DEF Reported
  <2>2. ASSUME NEW f \in Files
        PROVE  (Up(f)' <=> Up(f)) /\ (Carried(f)' <=> Carried(f)) /\ (Queued(f)' <=> Queued(f))
    BY <1>1, <2>1 DEF Up, Carried, Queued, Mentions
  <2>3. ASSUME NEW f \in Files \ {g} PROVE Unwatched(f)' /\ Watched(f)'
    <3>3. Unwatched(f)'
      BY <1>1 DEF Live, Unwatched, Heard, State
    <3>4. Known(f)' <=> Known(f)
      <4>1. State(f)' = State(f) /\ (f \in since' \cap disk' <=> f \in since \cap disk)
        BY <1>1 DEF State
      <4>2. Carried(f) => (Right(inflight)' <=> Right(inflight))
        BY <1>1 DEF Right, Carried
      <4>3. (\E c \in ToSet(out) : c.file = f /\ Right(c))' <=>
              \E c \in ToSet(out) : c.file = f /\ Right(c)
        BY <1>1 DEF Right
      <4> QED BY <2>2, <4>1, <4>2, <4>3, <1>1 DEF Known
    <3>5. Watched(f)'
      BY <2>2, <3>4, <1>1 DEF Live, Watched
    <3> QED BY <3>3, <3>5
  <2>4. Unwatched(g)' /\ Watched(g)'
    BY <1>1, <1>4 DEF Unwatched, Watched
  <2>5. FromWatch'
    BY <1>1, <2>2 DEF Live, FromWatch
  <2>6. Hidden'
    BY <1>1, <1>4 DEF Live, Hidden
  <2> QED BY <2>3, <2>4, <2>5, <2>6 DEF Live
<1> QED BY <1>3, <1>4

(* An announcement survives the event of another file, or of another kind. *)
LEMMA AnnouncedAfter ==
  ASSUME TypeOK, NEW g \in Files, NEW f \in Files, NEW e \in Change,
         Reported(g, <<e>>), Edited(g), Announced(f), f \in fresh' <=> f \in fresh,
         e # Event(f, "Removed")
  PROVE  Announced(f)'
<1> SUFFICES ASSUME f \in fresh PROVE Announced(f)'
  BY DEF Announced
<1>1. UNCHANGED <<pending, flush, inflight, out>> /\ raw \in Seq(Change)
  BY DEF Edited, TypeOK
<1>2. CASE g \in watching
  <2>1. raw' = raw \o <<e>> /\ raw \o <<e>> = Append(raw, e)
    BY <1>1, <1>2, AppendIsConcat DEF Reported
  <2>2. ToSet(raw)' = ToSet(raw) \cup {e}
    BY <1>1, <2>1, AppendedMembers
  <2>3. Telling(raw, f) => Telling(raw, f)'
    BY <1>1, <2>1, TellingAppended DEF Telling
  <2> QED BY <1>1, <2>2, <2>3 DEF Announced
<1>3. CASE g \notin watching
  BY <1>1, <1>3 DEF Reported, Announced, Telling
<1> QED BY <1>2, <1>3

LEMMA OneEvent ==
  ASSUME NEW f \in Files, NEW kind \in Kinds
  PROVE  /\ <<Event(f, kind)>> \in Seq(Change) /\ <<Event(f, kind)>> # <<>>
         /\ ToSet(<<Event(f, kind)>>) = {Event(f, kind)}
         /\ Event(f, kind) \in Change /\ Event(f, kind).file = f
<1>1. Event(f, kind) \in Change /\ Event(f, kind).file = f
  BY EventType
<1>2. <<>> \in Seq(Change) /\ ToSet(<<>>) = {} /\ Append(<<>>, Event(f, kind)) = <<Event(f, kind)>>
  BY EmptyMentions
<1>3. ToSet(<<Event(f, kind)>>) = {} \cup {Event(f, kind)}
  BY <1>1, <1>2, AppendedMembers
<1>4. <<Event(f, kind)>> \in Seq(Change) /\ <<Event(f, kind)>> # <<>>
  BY <1>1
<1> QED BY <1>1, <1>3, <1>4

LEMMA DistinctEvents ==
  ASSUME NEW f \in Files, NEW g \in Files, NEW k \in Kinds, NEW l \in Kinds
  PROVE  Event(f, k) = Event(g, l) <=> f = g /\ k = l
BY DEF Event

LEMMA ModifyStep ==
  ASSUME TypeOK, Control, Live, NEW g \in Files,
         Edited(g), g \in disk, UNCHANGED <<disk, fresh>>,
         NEW kind \in {"Modified", "Created"}, Reported(g, <<Event(g, kind)>>),
         unseen' = IF g \in watching THEN unseen \ {g} ELSE unseen
  PROVE  Live'
<1>1. kind \in Kinds /\ kind # "Removed" /\ "Removed" \in Kinds
  BY DEF Kinds
<1>2. /\ <<Event(g, kind)>> \in Seq(Change) /\ <<Event(g, kind)>> # <<>>
      /\ Event(g, kind) \in Change
      /\ \A e \in ToSet(<<Event(g, kind)>>) : e.file = g
  BY <1>1, OneEvent
<1>3. \A f \in Files : Announced(f)'
  BY <1>1, <1>2, DistinctEvents, AnnouncedAfter DEF Live
<1>4. /\ \A f \in Files \ {g} : /\ f \in disk' <=> f \in disk
                                /\ f \in unseen' <=> f \in unseen
                                /\ f \in fresh' <=> f \in fresh
      /\ fresh' \subseteq disk' /\ g \in watching \cup disk' \cup unseen' \cup Manifests
  BY DEF Live
<1> QED BY <1>2, <1>3, <1>4, EditStep

LEMMA CreateStep ==
  ASSUME TypeOK, Control, Live, NEW g \in Files, Create(g)
  PROVE  Live'
<1>1. "Created" \in Kinds /\ "Removed" \in Kinds
  BY DEF Kinds
<1> DEFINE e == Event(g, "Created")
<1>2. /\ <<e>> \in Seq(Change) /\ <<e>> # <<>> /\ e \in Change
      /\ \A c \in ToSet(<<e>>) : c.file = g
  BY <1>1, OneEvent
<1>3. /\ Reported(g, <<e>>) /\ Edited(g) /\ g \notin fresh
      /\ g \in fresh' => g \in watching
      /\ \A f \in Files \ {g} : /\ f \in disk' <=> f \in disk
                                /\ f \in unseen' <=> f \in unseen
                                /\ f \in fresh' <=> f \in fresh
      /\ fresh' \subseteq disk' /\ g \in watching \cup disk' \cup unseen' \cup Manifests
  BY DEF Create, CameOrWent, Live
<1>4. \A f \in Files : e # Event(f, "Removed")
  BY <1>1, DistinctEvents
<1> HIDE DEF e
<1>5. ASSUME NEW f \in Files \ {g} PROVE Announced(f)'
  BY <1>2, <1>3, <1>4, AnnouncedAfter DEF Live
<1>6. Announced(g)'
  <2>1. CASE g \in watching
    <3>1. Telling(raw \o <<e>>, g)
      BY <1>2, TellingAppended DEF TypeOK, e
    <3>2. raw' = raw \o <<e>>
      BY <1>3, <2>1 DEF Reported
    <3> QED BY <3>1, <3>2 DEF Announced, Telling
  <2>2. CASE g \notin watching
    BY <1>3, <2>2 DEF Announced
  <2> QED BY <2>1, <2>2
<1> QED BY <1>2, <1>3, <1>5, <1>6, EditStep

LEMMA DeleteStep ==
  ASSUME TypeOK, Control, Live, NEW g \in Files, Delete(g)
  PROVE  Live'
<1>1. "Removed" \in Kinds /\ "Modified" \in Kinds
  BY DEF Kinds
<1>2. PICK late \in {<<>>, <<Event(g, "Modified")>>} :
        Reported(g, <<Event(g, "Removed")>> \o late)
  BY DEF Delete
<1> DEFINE events == <<Event(g, "Removed")>> \o late
<1>3. late = <<>> \/ late = <<Event(g, "Modified")>>
  OBVIOUS
<1>4. /\ <<Event(g, "Removed")>> \in Seq(Change)
      /\ ToSet(<<Event(g, "Removed")>>) = {Event(g, "Removed")}
      /\ <<Event(g, "Modified")>> \in Seq(Change)
      /\ ToSet(<<Event(g, "Modified")>>) = {Event(g, "Modified")}
      /\ Event(g, "Removed").file = g /\ Event(g, "Modified").file = g
  BY <1>1, OneEvent
<1>5. late \in Seq(Change) /\ ToSet(late) \subseteq {Event(g, "Modified")}
  <2>1. CASE late = <<>>
    BY <2>1, EmptyMentions
  <2>2. CASE late = <<Event(g, "Modified")>>
    BY <2>2, <1>4
  <2> QED BY <1>3, <2>1, <2>2
<1>6. events \in Seq(Change) /\ ToSet(events) = {Event(g, "Removed")} \cup ToSet(late)
  BY <1>4, <1>5, JoinedMembers
<1>7. events # <<>> /\ \A e \in ToSet(events) : e.file = g
  BY <1>4, <1>5, <1>6, Members
<1>8. /\ Reported(g, events) /\ Edited(g) /\ g \notin fresh'
      /\ \A f \in Files \ {g} : /\ f \in disk' <=> f \in disk
                                /\ f \in unseen' <=> f \in unseen
                                /\ f \in fresh' <=> f \in fresh
      /\ fresh' \subseteq disk' /\ g \in watching \cup disk' \cup unseen' \cup Manifests
  BY <1>2 DEF Delete, CameOrWent, Live
<1> HIDE DEF events
<1>9. ASSUME NEW f \in Files PROVE Announced(f)'
  <2> SUFFICES ASSUME f \in fresh' PROVE Announced(f)'
    BY DEF Announced
  <2>1. f # g /\ f \in fresh
    BY <1>8
  <2>2. UNCHANGED <<pending, flush, inflight, out>> /\ raw \in Seq(Change)
    BY <1>8 DEF Edited, TypeOK
  <2>3. CASE g \in watching
    <3>1. raw' = raw \o events
      BY <1>8, <2>3 DEF Reported
    <3>2. ToSet(raw)' = ToSet(raw) \cup ToSet(events)
      BY <1>6, <2>2, <3>1, JoinedMembers
    <3>3. \A e \in ToSet(events) : e # Event(f, "Removed")
      BY <1>1, <1>7, <2>1, EventType
    <3>4. Telling(raw, f) => Telling(raw, f)'
      <4>1. Telling(raw, f) => Telling(raw \o events, f)
        BY <1>6, <2>2, <3>3, TellingJoined
      <4> QED BY <3>1, <4>1 DEF Telling
    <3> QED BY <2>1, <2>2, <3>2, <3>3, <3>4 DEF Live, Announced
  <2>4. CASE g \notin watching
    BY <1>8, <2>1, <2>2, <2>4 DEF Reported, Live, Announced, Telling
  <2> QED BY <2>3, <2>4
<1> QED BY <1>6, <1>7, <1>8, <1>9, EditStep

LEMMA RestoreStep ==
  ASSUME TypeOK, Control, Live, NEW g \in Files, Restore(g)
  PROVE  Live'
<1>1. "Removed" \in Kinds
  BY DEF Kinds
<1> DEFINE e == Event(g, "Removed")
<1>2. /\ <<e>> \in Seq(Change) /\ <<e>> # <<>> /\ e \in Change
      /\ \A c \in ToSet(<<e>>) : c.file = g
  BY <1>1, OneEvent
<1>3. /\ Reported(g, <<e>>) /\ Edited(g) /\ g \notin fresh'
      /\ \A f \in Files \ {g} : /\ f \in disk' <=> f \in disk
                                /\ f \in unseen' <=> f \in unseen
                                /\ f \in fresh' <=> f \in fresh
      /\ fresh' \subseteq disk' /\ g \in watching \cup disk' \cup unseen' \cup Manifests
  BY DEF Restore, Live, disks
<1>4. ASSUME NEW f \in Files \ {g} PROVE Announced(f)'
  <2>1. e # Event(f, "Removed")
    BY <1>1, DistinctEvents
  <2> HIDE DEF e
  <2> QED BY <1>2, <1>3, <2>1, AnnouncedAfter DEF Live
<1>5. Announced(g)'
  BY <1>3 DEF Announced
<1> HIDE DEF e
<1> QED BY <1>2, <1>3, <1>4, <1>5, EditStep

-----------------------------------------------------------------------------
(* The debouncer: what comes from the disk goes up, and out after a probe. *)

LEMMA RecvStep ==
  ASSUME TypeOK, Control, Live, Recv
  PROVE  Live'
<1> USE WatchAssumption
<1> DEFINE e == Head(raw)
           burst == [pending EXCEPT ![e.file] = merge_kind(@, e.kind)]
<1>1. /\ raw \in Seq(Change) /\ raw # <<>> /\ raw' = Tail(raw)
      /\ pending \in [Files -> Kinds \cup {None}]
  BY DEF Recv, TypeOK
<1>2. e \in Change /\ ToSet(raw) = {e} \cup ToSet(raw')
  BY <1>1, PoppedMembers
<1>3. e.file \in Files /\ e.kind \in Kinds
  BY <1>2 DEF Change
<1>4. merge_kind(pending[e.file], e.kind) \in Kinds
  BY <1>1, <1>3, MergedKind
<1>5. /\ burst[e.file] = merge_kind(pending[e.file], e.kind)
      /\ \A f \in Files \ {e.file} : burst[f] = pending[f]
  BY <1>1, <1>3
<1>6. \/ pending' = burst /\ flush' = flush
      \/ pending' = NoBurst /\ flush' = burst /\ flush = NoBurst
  BY DEF Recv, Flush, Control
<1>7. UNCHANGED <<disk, watching, inflight, out, loop, synth, registry, history>>
  BY DEF Recv, disks
<1> HIDE DEF burst, e
<1>8. ASSUME NEW f \in Files
      PROVE  Up(f)' <=> Up(f)
  <2>1. burst[f] # None <=> (f = e.file \/ pending[f] # None)
    BY <1>4, <1>5
  <2>2. Mentions(raw, f) <=> (f = e.file \/ Mentions(raw, f)')
    BY <1>2 DEF Mentions
  <2> QED BY <2>1, <2>2, <1>6 DEF Up, NoBurst
<1>9. ASSUME NEW f \in Files
      PROVE  /\ Carried(f)' <=> Carried(f)
             /\ Queued(f)' <=> Queued(f)
             /\ Unwatched(f)' <=> Unwatched(f)
             /\ Known(f)' <=> Known(f)
  BY <1>7 DEF Carried, Queued, Mentions, Unwatched, Heard, Known, Right, State, registry, history
<1>10. ASSUME NEW f \in Files PROVE Watched(f)'
  BY <1>7, <1>8, <1>9 DEF Live, Watched, history
<1>11. FromWatch' /\ Hidden' /\ fresh' \subseteq disk'
  BY <1>7, <1>8, <1>9 DEF Live, FromWatch, Hidden, history
<1>12. ASSUME NEW f \in Files PROVE Announced(f)'
  <2> SUFFICES ASSUME f \in fresh PROVE Announced(f)'
    BY <1>7 DEF Announced, history
  <2>1. Announced(f)
    BY DEF Live
  <2>2. ASSUME burst[f] = "Created", Event(f, "Removed") \notin ToSet(raw')
        PROVE  Announced(f)'
    BY <2>2, <1>6 DEF Announced
  <2>3. CASE Telling(raw, f)
    <3>1. CASE e = Event(f, "Created") /\ Event(f, "Removed") \notin ToSet(raw')
      <4>1. f = e.file /\ e.kind = "Created"
        BY <3>1 DEF Event
      <4>2. burst[f] = "Created"
        BY <1>5, <4>1 DEF merge_kind
      <4> QED BY <2>2, <3>1, <4>2
    <3>2. CASE Telling(raw', f)
      BY <3>2 DEF Announced, Telling
    <3> QED BY <1>1, <2>3, <3>1, <3>2, TellingPopped DEF e
  <2>4. CASE pending[f] = "Created" /\ Event(f, "Removed") \notin ToSet(raw)
    <3>1. e # Event(f, "Removed")
      BY <1>2, <2>4
    <3>2. f = e.file => e.kind # "Removed"
      BY <1>2, <3>1 DEF Event, Change
    <3>3. burst[f] = "Created"
      BY <1>3, <1>5, <2>4, <3>2 DEF merge_kind, Kinds
    <3> QED BY <1>2, <2>2, <2>4, <3>3
  <2>5. CASE flush[f] = "Created"
    <3>1. flush # NoBurst
      BY <2>5 DEF NoBurst, Kinds
    <3> QED BY <1>6, <2>5, <3>1 DEF Announced
  <2>6. CASE inflight = Event(f, "Created") \/ Event(f, "Created") \in ToSet(out)
    BY <1>7, <2>6 DEF Announced
  <2> QED BY <2>1, <2>3, <2>4, <2>5, <2>6 DEF Announced
<1> QED BY <1>9, <1>10, <1>11, <1>12 DEF Live

LEMMA QuietStep ==
  ASSUME TypeOK, Control, Live, QuietTick
  PROVE  Live'
<1>1. /\ flush = NoBurst /\ flush' = pending /\ pending' = NoBurst
      /\ UNCHANGED <<disk, watching, raw, inflight, out, loop, synth, registry, history>>
  BY DEF QuietTick, Flush, Control, disks
<1>2. None # "Created"
  BY WatchAssumption DEF Kinds
<1>3. ASSUME NEW f \in Files
      PROVE  /\ Up(f)' <=> Up(f)
             /\ Carried(f)' <=> Carried(f)
             /\ Queued(f)' <=> Queued(f)
  BY <1>1 DEF Up, Carried, Queued, Mentions, NoBurst
<1>4. ASSUME NEW f \in Files
      PROVE  (Unwatched(f)' <=> Unwatched(f)) /\ (Known(f)' <=> Known(f))
  BY <1>1, <1>3 DEF Unwatched, Heard, Known, Right, State, registry, history
<1>5. ASSUME NEW f \in Files PROVE Watched(f)'
  BY <1>1, <1>3, <1>4 DEF Live, Watched, history
<1>6. ASSUME NEW f \in Files PROVE Announced(f)'
  BY <1>1, <1>2 DEF Live, Announced, Telling, NoBurst, history
<1>7. FromWatch' /\ Hidden' /\ fresh' \subseteq disk'
  BY <1>1, <1>3 DEF Live, FromWatch, Hidden, history
<1> QED BY <1>4, <1>5, <1>6, <1>7 DEF Live

(* The probe corrects the kind, or fails and is noted. *)
LEMMA EmitStep ==
  ASSUME TypeOK, Control, Live, NEW g \in Files, EmitNext(g)
  PROVE  Live'
<1> USE WatchAssumption
<1>1. PICK exists \in {Exists(g), "error"} :
        /\ inflight' = Event(g, reconcile_emit_kind(flush[g], exists))
        /\ misread' = IF exists = "error" /\ Misreads(g, reconcile_emit_kind(flush[g], exists))
                      THEN misread \cup {g} ELSE misread
  BY DEF EmitNext
<1> DEFINE kind == reconcile_emit_kind(flush[g], exists)
<1>2. /\ flush[g] \in Kinds /\ inflight = None
      /\ flush' = [flush EXCEPT ![g] = None] /\ flush \in [Files -> Kinds \cup {None}]
      /\ UNCHANGED <<disk, watching, raw, pending, out, loop, synth, registry, told, fresh, unseen>>
  BY DEF EmitNext, TypeOK, disks
<1>3. kind \in Kinds
  BY <1>2, EmittedKind
<1>4. exists = Exists(g) => Right(Event(g, kind))
  <2>1. CASE g \in disk
    BY <1>2, <2>1 DEF Exists, reconcile_emit_kind, Right, Event, Kinds
  <2>2. CASE g \notin disk
    BY <1>2, <2>2 DEF Exists, reconcile_emit_kind, Right, Event, Kinds
  <2> QED BY <2>1, <2>2
<1>5. flush[g] = "Created" /\ g \in disk => kind = "Created"
  BY DEF Exists, reconcile_emit_kind
<1>6. Right(Event(g, kind)) \/ g \in misread'
  BY <1>1, <1>4 DEF Misreads, Right, Event
<1>7. inflight' = Event(g, kind) /\ Event(g, kind) \in Change /\ inflight' # None
  BY <1>1, <1>3, EventType
<1> HIDE DEF kind
<1>8. g \in watching
  BY <1>2 DEF Live, FromWatch, Up, Kinds
<1>9. Carried(g)' /\ (Right(inflight)' <=> Right(Event(g, kind)))
  BY <1>2, <1>7, EventType, <1>3 DEF Carried, Right
<1>10. ASSUME NEW f \in Files \ {g}
       PROVE  /\ Up(f)' <=> Up(f)
              /\ ~Carried(f) /\ ~Carried(f)'
              /\ Queued(f)' <=> Queued(f)
  BY <1>2, <1>3, <1>7, EventType DEF Up, Carried, Queued, Mentions
<1>11. Queued(g)' <=> Queued(g)
  BY <1>2 DEF Queued, Mentions
<1>12. ASSUME NEW f \in Files PROVE Unwatched(f)'
  BY <1>2 DEF Live, Unwatched, Heard, State, registry
<1>13. ASSUME NEW f \in Files PROVE Watched(f)'
  <2>1. CASE f = g
    BY <2>1, <1>6, <1>9 DEF Watched, Known
  <2>2. CASE f # g
    <3>1. Known(f)' <=> Known(f)
      BY <2>2, <1>2, <1>10 DEF Known, Right, State, registry
    <3>2. misread \subseteq misread'
      BY <1>1
    <3> QED BY <2>2, <1>2, <1>10, <3>1, <3>2 DEF Live, Watched
  <2> QED BY <2>1, <2>2
<1>14. FromWatch' /\ Hidden' /\ fresh' \subseteq disk'
  <2>1. Hidden' /\ fresh' \subseteq disk'
    BY <1>2 DEF Live, Hidden
  <2>2. FromWatch'
    BY <1>2, <1>8, <1>10 DEF Live, FromWatch
  <2> QED BY <2>1, <2>2
<1>15. ASSUME NEW f \in Files PROVE Announced(f)'
  <2> SUFFICES ASSUME f \in fresh PROVE Announced(f)'
    BY <1>2 DEF Announced
  <2>1. Announced(f) /\ f \in disk
    BY DEF Live
  <2>2. CASE flush[f] = "Created" /\ f = g
    BY <1>5, <1>7, <2>1, <2>2 DEF Announced
  <2>3. CASE flush[f] = "Created" /\ f # g
    BY <1>2, <2>3 DEF Announced
  <2>4. inflight # Event(f, "Created")
    BY <1>2, EventType DEF Kinds
  <2> QED BY <1>2, <2>1, <2>2, <2>3, <2>4 DEF Announced, Telling
<1> QED BY <1>12, <1>13, <1>14, <1>15 DEF Live

LEMMA SendStep ==
  ASSUME TypeOK, Control, Live, SendChange
  PROVE  Live'
<1> USE WatchAssumption
<1>1. /\ inflight \in Change /\ inflight' = None /\ out' = Append(out, inflight)
      /\ out \in Seq(Change)
      /\ UNCHANGED <<disk, watching, raw, pending, flush, loop, synth, registry, history>>
  BY DEF SendChange, TypeOK, disks
<1>2. ToSet(out)' = ToSet(out) \cup {inflight}
  BY <1>1, AppendedMembers
<1>3. ASSUME NEW f \in Files
      PROVE  /\ Up(f)' <=> Up(f)
             /\ ~Carried(f)'
             /\ Queued(f)' <=> Queued(f) \/ Carried(f)
             /\ Carried(f) <=> inflight.file = f
  <2>1. Up(f)' <=> Up(f)
    BY <1>1 DEF Up, Mentions
  <2>2. ~Carried(f)' /\ (Carried(f) <=> inflight.file = f)
    BY <1>1 DEF Carried
  <2>3. Queued(f)' <=> Queued(f) \/ inflight.file = f
    BY <1>2 DEF Queued, Mentions
  <2> QED BY <2>1, <2>2, <2>3
<1>4. ASSUME NEW f \in Files PROVE Unwatched(f)'
  BY <1>1 DEF Live, Unwatched, Heard, State, registry, history
<1>5. ASSUME NEW f \in Files, Known(f) PROVE Known(f)'
  <2>1. \A c : Right(c)' <=> Right(c)
    BY <1>1 DEF Right
  <2>2. CASE Carried(f)
    <3>1. inflight \in ToSet(out)' /\ inflight.file = f /\ Right(inflight)
      BY <1>2, <1>3, <1>5, <2>2 DEF Known
    <3>2. \E c \in ToSet(out)' : c.file = f /\ Right(c)'
      BY <2>1, <3>1
    <3> QED BY <1>3, <2>2, <3>2 DEF Known
  <2>3. CASE ~Carried(f) /\ Queued(f)
    <3>1. PICK c \in ToSet(out) : c.file = f /\ Right(c)
      BY <1>5, <2>3 DEF Known
    <3>2. \E d \in ToSet(out)' : d.file = f /\ Right(d)'
      BY <1>2, <2>1, <3>1
    <3> QED BY <1>3, <2>3, <3>2 DEF Known
  <2>4. CASE ~Carried(f) /\ ~Queued(f)
    BY <1>1, <1>3, <1>5, <2>4 DEF Known, State, registry, history
  <2> QED BY <2>2, <2>3, <2>4
<1>6. ASSUME NEW f \in Files PROVE Watched(f)'
  BY <1>1, <1>3, <1>5 DEF Live, Watched, history
<1>7. FromWatch' /\ Hidden' /\ fresh' \subseteq disk'
  BY <1>1, <1>3 DEF Live, FromWatch, Hidden, history
<1>8. ASSUME NEW f \in Files PROVE Announced(f)'
  BY <1>1, <1>2 DEF Live, Announced, Telling, history
<1> QED BY <1>4, <1>6, <1>7, <1>8 DEF Live

-----------------------------------------------------------------------------
(* The drain loop: watches are armed, batches are taken, passes read.      *)

(* Nothing of the way from the disk to the drain loop changes. *)
Still == UNCHANGED <<disk, raw, pending, flush, inflight, fresh, unseen, misread>>

LEMMA StillFacts ==
  ASSUME Still, NEW f \in Files
  PROVE  /\ Up(f)' <=> Up(f)
         /\ Carried(f)' <=> Carried(f)
         /\ State(f)' = State(f)
         /\ Carried(f) => (Right(inflight)' <=> Right(inflight))
         /\ UNCHANGED out => (Queued(f)' <=> Queued(f)) /\ (Announced(f) => Announced(f)')
         /\ UNCHANGED out => ((\E c \in ToSet(out) : c.file = f /\ Right(c))' <=>
                                \E c \in ToSet(out) : c.file = f /\ Right(c))
<1>1. Up(f)' <=> Up(f)
  BY DEF Still, Up, Mentions
<1>2. (Carried(f)' <=> Carried(f)) /\ State(f)' = State(f)
  BY DEF Still, Carried, State
<1>3. Carried(f) => (Right(inflight)' <=> Right(inflight))
  BY DEF Still, Carried, Right
<1>4. UNCHANGED out => (Queued(f)' <=> Queued(f)) /\ (Announced(f) => Announced(f)')
  BY DEF Still, Queued, Mentions, Announced, Telling
<1>5. UNCHANGED out => ((\E c \in ToSet(out) : c.file = f /\ Right(c))' <=>
                          \E c \in ToSet(out) : c.file = f /\ Right(c))
  BY DEF Still, Right
<1> QED BY <1>1, <1>2, <1>3, <1>4, <1>5

LEMMA StartStep ==
  ASSUME TypeOK, Control, Live, StartWatcher
  PROVE  Live'
<1> USE WatchAssumption
<1>1. /\ watching = {} /\ watching' = Rooted /\ synth = {} /\ loop' = "armed"
      /\ Rooted \subseteq published
      /\ UNCHANGED <<out, synth, registry, told>>
  BY DEF StartWatcher, Control, buffers, history
<1>2. Still
  BY DEF StartWatcher, Still, disks, buffers, history
<1>3. ASSUME NEW f \in Files
      PROVE  ~Up(f)' /\ ~Carried(f)' /\ ~Queued(f)' /\ Announced(f)'
  <2>1. ~Up(f) /\ ~Carried(f) /\ ~Queued(f) /\ Announced(f)
    BY <1>1 DEF Live, FromWatch
  <2> QED BY <2>1, <1>1, <1>2, StillFacts
<1>4. FromWatch' /\ Hidden' /\ fresh' \subseteq disk'
  BY <1>1, <1>2, <1>3 DEF Live, FromWatch, Hidden, Still
<1>5. ASSUME NEW f \in Files PROVE Unwatched(f)'
  BY <1>1, <1>2 DEF Live, Unwatched, Heard, State, registry, Still
<1>6. ASSUME NEW f \in Files PROVE Watched(f)'
  <2> SUFFICES ASSUME f \in Rooted, f \notin unseen PROVE Known(f)'
    BY <1>1, <1>2 DEF Watched, Still
  <2>1. f \in disk
    BY <1>1 DEF Live, Hidden
  <2>2. f \in since \/ State(f) \in told[f]
    BY <1>1 DEF Live, Unwatched, Heard
  <2>3. State(f) \in told[f] \/ f \in since \cap disk
    BY <2>1, <2>2
  <2>4. State(f)' = State(f) /\ disk' = disk /\ since' = since
    BY <1>1, <1>2 DEF Still, State, registry
  <2> QED BY <1>1, <1>3, <2>3, <2>4 DEF Known
<1> QED BY <1>3, <1>4, <1>5, <1>6 DEF Live

(* A file armed now has nothing on its way: it is told, or synthesized. *)
LEMMA ArmedKnown ==
  ASSUME Live, Still, NEW f \in Files, f \notin watching \cup unseen, UNCHANGED <<out, told>>,
         f \in synth' \/ Heard(f), f \in synth => f \in synth'
  PROVE  Known(f)'
<1>1. ~Carried(f)' /\ ~Queued(f)'
  BY StillFacts DEF Live, FromWatch
<1>2. f \in disk' \cup Manifests
  BY DEF Live, Hidden, Still
<1>3. CASE f \in synth'
  BY <1>1, <1>2, <1>3 DEF Known
<1>4. CASE f \notin synth'
  <2>1. State(f)' \in told'[f]
    BY <1>4, StillFacts DEF Heard
  <2> QED BY <1>1, <1>4, <2>1 DEF Known
<1> QED BY <1>3, <1>4

LEMMA BootArmStep ==
  ASSUME TypeOK, Control, Live, NEW armed \in SUBSET Dependencies, BootArm(armed)
  PROVE  Live'
<1> USE WatchAssumption
<1>1. /\ loop = "armed" /\ loop' = "boot" /\ synth = {} /\ watching \subseteq Rooted
      /\ Rooted \subseteq published /\ accounted = {}
      /\ armed \subseteq published \ watching /\ watching' = watching \cup armed
      /\ UNCHANGED <<out, reads, touched, published, since, told>>
  BY DEF BootArm, Arm, Control, buffers, history
<1>2. /\ \A f \in Files :
           f \in synth' <=> f \in published \cap ((since \cap disk) \cup (Manifests \ disk))
      /\ accounted' = synth'
  BY <1>1 DEF BootArm, Unobserved
<1>3. Still
  BY DEF BootArm, Still, disks, buffers, history
<1>4. FromWatch' /\ Hidden' /\ fresh' \subseteq disk'
  BY <1>1, <1>3, StillFacts DEF Live, FromWatch, Hidden, Still
<1>5. ASSUME NEW f \in Files PROVE Unwatched(f)'
  BY <1>1, <1>2, <1>3, StillFacts DEF Live, Unwatched, Heard, Still
<1>6. ASSUME NEW f \in Files PROVE Watched(f)'
  <2> SUFFICES ASSUME f \in watching', f \notin unseen \cup misread PROVE Up(f)' \/ Known(f)'
    BY <1>3 DEF Watched, Still
  <2>1. CASE f \in watching
    <3>1. Up(f) \/ Known(f)
      BY <2>1 DEF Live, Watched
    <3>2. f \in published
      BY <1>1, <2>1
    <3>3. CASE Up(f)
      BY <1>3, <3>3, StillFacts
    <3>4. CASE Known(f) /\ (Carried(f) \/ Queued(f))
      BY <1>1, <1>3, <3>4, StillFacts DEF Known
    <3>5. CASE Known(f) /\ ~Carried(f) /\ ~Queued(f)
      <4>1. State(f) \in told[f] \/ f \in since \cap disk
        BY <1>1, <3>5 DEF Known
      <4>2. ~Carried(f)' /\ ~Queued(f)' /\ State(f)' = State(f) /\ disk' = disk
        BY <1>1, <1>3, <3>5, StillFacts DEF Still
      <4> QED BY <1>1, <1>2, <3>2, <4>1, <4>2 DEF Known
    <3> QED BY <3>1, <3>3, <3>4, <3>5
  <2>2. CASE f \notin watching
    <3>1. f \in published /\ f \in disk \cup Manifests
      BY <1>1, <2>2 DEF Live, Hidden
    <3>2. f \in synth' \/ Heard(f)
      BY <1>2, <2>2, <3>1 DEF Live, Unwatched
    <3> QED BY <1>1, <1>3, <2>2, <3>2, ArmedKnown
  <2> QED BY <2>1, <2>2
<1>7. ASSUME NEW f \in Files PROVE Announced(f)'
  BY <1>1, <1>3, StillFacts DEF Live
<1> QED BY <1>4, <1>5, <1>6, <1>7 DEF Live

LEMMA BootStep ==
  ASSUME TypeOK, Control, Live, NEW eager \in BOOLEAN, Boot(eager)
  PROVE  Live'
<1>1. /\ loop = "boot" /\ UNCHANGED <<watching, out, synth, published, since>> /\ Still
      /\ loop' \in {"idle", "running"}
  BY DEF Boot, Pass, Still, disks, buffers
<1>2. \A f \in Files :
        /\ told'[f] = told[f] \/ told'[f] = {State(f)}
        /\ loop' = "running" /\ f \in reads' => told'[f] = {State(f)}
        /\ f \in accounted' => f \in accounted
  <2>1. CASE eager
    BY <2>1 DEF Boot, Pass, TypeOK
  <2>2. CASE ~eager
    BY <2>2 DEF Boot
  <2> QED BY <2>1, <2>2
<1>3. FromWatch' /\ Hidden' /\ fresh' \subseteq disk'
  BY <1>1, StillFacts DEF Live, FromWatch, Hidden, Still
<1>4. ASSUME NEW f \in Files PROVE Unwatched(f)'
  <2> SUFFICES ASSUME f \notin watching \cup unseen PROVE Unwatched(f)'
    BY <1>1 DEF Unwatched, Still
  <2>1. State(f)' = State(f)
    BY <1>1, StillFacts
  <2>2. Heard(f) => Heard(f)'
    BY <1>1, <1>2, <2>1 DEF Heard
  <2>3. loop' = "running" /\ f \in reads' => Heard(f)'
    BY <1>2, <2>1 DEF Heard
  <2> QED BY <1>1, <1>2, <2>2, <2>3 DEF Live, Unwatched
<1>5. ASSUME NEW f \in Files PROVE Watched(f)'
  <2>1. Known(f) => Known(f)'
    <3>1. State(f) \in told[f] => State(f)' \in told'[f]
      BY <1>1, <1>2, StillFacts
    <3>2. disk' = disk
      BY <1>1 DEF Still
    <3> QED BY <1>1, <3>1, <3>2, StillFacts DEF Known
  <2> QED BY <1>1, <2>1, StillFacts DEF Live, Watched, Still
<1>6. ASSUME NEW f \in Files PROVE Announced(f)'
  BY <1>1, StillFacts DEF Live
<1> QED BY <1>3, <1>4, <1>5, <1>6 DEF Live

(* A batch says of each of its files at least what its last change says,   *)
(* and a pass reads what is not in the batch.                              *)
LEMMA TickStep ==
  ASSUME TypeOK, Control, Live, TickStart
  PROVE  Live'
<1> USE WatchAssumption
<1> DEFINE batch == {c.file : c \in Batch}
           says(f) == {Says(c) : c \in {b \in Batch : b.file = f}}
<1>1. /\ loop = "idle" /\ loop' = "running" /\ out' = <<>> /\ synth' = {}
      /\ touched' = {} /\ UNCHANGED <<disk, watching, raw, pending, flush, inflight,
                                      published, since, unseen, misread>>
  BY DEF TickStart, Pass, disks
<1>2. ASSUME NEW f \in Files
      PROVE  /\ f \in batch => told'[f] = says(f)
             /\ f \notin batch => told'[f] \in {told[f], {State(f)}}
             /\ f \notin batch /\ f \in reads' /\ f \notin watching => told'[f] = {State(f)}
             /\ f \in accounted' => f \in accounted \/ f \in batch
  BY DEF TickStart, Pass
<1>3. ASSUME NEW f \in Files
      PROVE  f \in batch <=> Queued(f) \/ f \in synth
  <2>1. \A g \in Files : Event(g, "Modified").file = g
    BY EventType DEF Kinds
  <2>2. synth \subseteq Files
    BY DEF TypeOK
  <2> QED BY <2>1, <2>2 DEF Batch, Queued, Mentions
<1>4. ASSUME NEW f \in Files, f \in synth, f \in disk \cup Manifests PROVE State(f) \in says(f)
  <2>1. Event(f, "Modified") \in Batch
    BY <1>4 DEF Batch
  <2>2. Event(f, "Modified").file = f /\ Event(f, "Modified").kind # "Removed"
    BY EventType DEF Kinds
  <2>3. Says(Event(f, "Modified")) = State(f)
    BY <1>4, <2>2 DEF Says, State
  <2> QED BY <2>1, <2>2, <2>3
<1>5. ASSUME NEW f \in Files, NEW c \in ToSet(out), c.file = f, Right(c)
      PROVE  State(f) \in says(f)
  <2>1. c \in Batch /\ State(f) = Says(c)
    BY <1>5 DEF Batch, Right, State, Says
  <2> QED BY <2>1, <1>5
<1> HIDE DEF batch, says
<1>6. ASSUME NEW f \in Files
      PROVE  /\ Up(f)' <=> Up(f)
             /\ Carried(f)' <=> Carried(f)
             /\ ~Queued(f)' /\ State(f)' = State(f)
             /\ Carried(f) => (Right(inflight)' <=> Right(inflight))
  BY <1>1, EmptyMentions DEF Up, Carried, Queued, Mentions, State, Right
<1>7. FromWatch' /\ Hidden'
  BY <1>1, <1>6 DEF Live, FromWatch, Hidden
<1>8. fresh' \subseteq fresh /\ fresh' \subseteq disk'
  BY <1>1 DEF TickStart, Live
<1>9. ASSUME NEW f \in Files PROVE Unwatched(f)'
  <2> SUFFICES ASSUME f \notin watching \cup unseen PROVE Unwatched(f)'
    BY <1>1 DEF Unwatched
  <2>1. f \in disk \cup Manifests /\ ~Queued(f) /\ State(f)' = State(f)
    BY <1>6 DEF Live, Hidden, FromWatch
  <2>2. f \in batch => State(f) \in told'[f]
    BY <1>2, <1>3, <1>4, <2>1
  <2>3. Heard(f) => State(f) \in told'[f]
    BY <1>2, <1>3, <2>1, <2>2 DEF Heard
  <2>4. f \in reads' => State(f) \in told'[f]
    BY <1>2, <2>1, <2>2
  <2> QED BY <1>1, <1>2, <2>1, <2>2, <2>3, <2>4 DEF Live, Unwatched, Heard
<1>10. ASSUME NEW f \in Files PROVE Watched(f)'
  <2> SUFFICES ASSUME f \in watching \ (unseen \cup misread), ~Up(f) PROVE Known(f)'
    BY <1>1, <1>6 DEF Watched
  <2>1. Known(f)
    BY DEF Live, Watched
  <2>2. CASE Carried(f)
    BY <1>6, <2>1, <2>2 DEF Known
  <2>3. CASE ~Carried(f)
    <3>1. State(f) \in told'[f]
      <4>1. CASE Queued(f)
        BY <1>2, <1>3, <1>5, <2>1, <2>3, <4>1 DEF Known
      <4>2. CASE ~Queued(f) /\ f \in synth
        BY <1>2, <1>3, <1>4, <2>1, <2>3, <4>2 DEF Known
      <4>3. CASE ~Queued(f) /\ f \notin synth
        BY <1>1, <1>2, <1>3, <2>1, <2>3, <4>3 DEF Known
      <4> QED BY <4>1, <4>2, <4>3
    <3> QED BY <1>1, <1>6, <2>3, <3>1 DEF Known
  <2> QED BY <2>2, <2>3
<1>11. ASSUME NEW f \in Files PROVE Announced(f)'
  <2> SUFFICES ASSUME f \in fresh' PROVE Announced(f)'
    BY DEF Announced
  <2>1. Event(f, "Created") \notin ToSet(out)
    <3>1. SUFFICES ASSUME Event(f, "Created") \in ToSet(out) PROVE FALSE
      OBVIOUS
    <3>2. /\ Event(f, "Created") \in Batch /\ Event(f, "Created").file = f
          /\ Event(f, "Created").kind = "Created"
      BY <3>1, EventType DEF Batch, Kinds
    <3> QED BY <3>2 DEF TickStart
  <2> QED BY <1>1, <1>8, <2>1 DEF Live, Announced, Telling
<1> QED BY <1>7, <1>8, <1>9, <1>10, <1>11 DEF Live

LEMMA EndPassStep ==
  ASSUME TypeOK, Control, Live,
         NEW succeeds \in BOOLEAN, NEW armed \in SUBSET Dependencies, EndPass(succeeds, armed)
  PROVE  Live'
<1> DEFINE stamped == IF succeeds THEN Files ELSE Manifests
<1>1. /\ loop = "running" /\ loop' = "idle"
      /\ published' = (published \ stamped) \cup (reads \cap stamped)
      /\ since' = (since \ stamped) \cup (touched \cap stamped)
      /\ armed \subseteq published' \ watching /\ watching' = watching \cup armed
      /\ UNCHANGED <<out, told>>
  BY DEF EndPass, Arm, buffers, history
<1>2. Still
  BY DEF EndPass, Still, disks, buffers, history
<1>3. ASSUME NEW f \in Files
      PROVE  LET found == /\ f \in armed /\ f \in published' /\ f \notin accounted
                          /\ f \in (since' \cap disk) \cup (Manifests \ disk)
             IN  /\ f \in synth' <=> f \in synth \/ found
                 /\ f \in accounted' <=> f \in accounted \/ found
  BY <1>1 DEF EndPass, Unobserved
<1>4. ASSUME NEW f \in Files, f \notin watching \cup unseen, f \in published' \ since'
      PROVE  Heard(f)
  BY <1>1, <1>4 DEF Live, Unwatched
<1>5. FromWatch' /\ Hidden' /\ fresh' \subseteq disk'
  BY <1>1, <1>2, StillFacts DEF Live, FromWatch, Hidden, Still
<1>6. ASSUME NEW f \in Files PROVE Unwatched(f)'
  <2> SUFFICES ASSUME f \notin watching' \cup unseen PROVE Unwatched(f)'
    BY <1>2 DEF Unwatched, Still
  <2>1. f \notin watching \cup unseen /\ f \notin armed
    BY <1>1
  <2>2. Heard(f) => Heard(f)'
    BY <1>1, <1>2, <1>3, StillFacts DEF Heard
  <2> QED BY <1>1, <1>3, <1>4, <2>1, <2>2 DEF Live, Unwatched
<1>7. ASSUME NEW f \in Files PROVE Watched(f)'
  <2> SUFFICES ASSUME f \in watching' \ (unseen \cup misread) PROVE Up(f)' \/ Known(f)'
    BY <1>2 DEF Watched, Still
  <2>1. CASE f \in watching
    <3>1. f \in synth' <=> f \in synth
      BY <1>1, <1>3, <2>1
    <3>2. Known(f) => Known(f)'
      <4>1. disk' = disk
        BY <1>2 DEF Still
      <4> QED BY <1>1, <1>2, <3>1, <4>1, StillFacts DEF Known
    <3> QED BY <1>2, <2>1, <3>2, StillFacts DEF Live, Watched
  <2>2. CASE f \notin watching
    <3>1. f \in armed /\ f \in published' /\ f \in disk \cup Manifests
      BY <1>1, <2>2 DEF Live, Hidden
    <3>2. f \in synth' \/ Heard(f)
      BY <1>3, <1>4, <2>2, <3>1 DEF Live, Unwatched
    <3> QED BY <1>1, <1>2, <1>3, <2>2, <3>2, ArmedKnown
  <2> QED BY <2>1, <2>2
<1>8. ASSUME NEW f \in Files PROVE Announced(f)'
  BY <1>1, <1>2, StillFacts DEF Live
<1> QED BY <1>5, <1>6, <1>7, <1>8 DEF Live

(* Nothing that the invariant speaks of changes, or the tick that never    *)
(* ends is given up.                                                       *)
LEMMA IdleStep ==
  ASSUME Live, Still, loop' = loop \/ (loop = "running" /\ loop' = "stalled"),
         UNCHANGED <<watching, out, synth, registry, told>>
  PROVE  Live'
<1>1. FromWatch' /\ Hidden' /\ fresh' \subseteq disk'
  BY StillFacts DEF Live, FromWatch, Hidden, Still
<1>2. ASSUME NEW f \in Files PROVE Unwatched(f)'
  BY DEF Live, Unwatched, Heard, State, registry, Still
<1>3. ASSUME NEW f \in Files PROVE Watched(f)'
  <2>1. disk' = disk /\ since' = since
    BY DEF Still, registry
  <2>2. Known(f) => Known(f)'
    BY <2>1, StillFacts DEF Known
  <2> QED BY <2>2, StillFacts DEF Live, Watched, Still
<1>4. ASSUME NEW f \in Files PROVE Announced(f)'
  BY StillFacts DEF Live
<1> QED BY <1>1, <1>2, <1>3, <1>4 DEF Live

-----------------------------------------------------------------------------
LEMMA LiveStep == TypeOK /\ Control /\ Live /\ [Next]_vars /\ ~shutdown' => Live'
<1> SUFFICES ASSUME TypeOK, Control, Live, [Next]_vars, ~shutdown' PROVE Live'
  OBVIOUS
<1>1. ASSUME NEW f \in Files, Modify(f) PROVE Live'
  <2>1. PICK kind \in {"Modified", "Created"} : Reported(f, <<Event(f, kind)>>)
    BY <1>1 DEF Modify
  <2>2. /\ Edited(f) /\ f \in disk /\ UNCHANGED <<disk, fresh>>
        /\ unseen' = IF f \in watching THEN unseen \ {f} ELSE unseen
    BY <1>1 DEF Modify
  <2> QED BY <2>1, <2>2, ModifyStep
<1>2. ASSUME NEW f \in Files, Create(f) PROVE Live'
  BY <1>2, CreateStep
<1>3. ASSUME NEW f \in Files, Delete(f) PROVE Live'
  BY <1>3, DeleteStep
<1>4. ASSUME NEW f \in Files, Restore(f) PROVE Live'
  BY <1>4, RestoreStep
<1>5. ASSUME NEW f \in Hot, ModifyHot(f) PROVE Live'
  <2>1. /\ f \in Files /\ Edited(f) /\ f \in disk /\ UNCHANGED <<disk, fresh>>
        /\ Reported(f, <<Event(f, "Modified")>>)
        /\ unseen' = IF f \in watching THEN unseen \ {f} ELSE unseen
    BY <1>5, WatchAssumption DEF ModifyHot, disks
  <2> QED BY <2>1, ModifyStep
<1>6. CASE Recv
  BY <1>6, RecvStep
<1>7. CASE QuietTick
  BY <1>7, QuietStep
<1>8. CASE SendChange
  BY <1>8, SendStep
<1>9. ASSUME NEW f \in Files, EmitNext(f) PROVE Live'
  BY <1>9, EmitStep
<1>10. CASE ShutdownSeen \/ Shutdown
  BY <1>10 DEF ShutdownSeen, Shutdown
<1>11. CASE Elapse \/ Stall \/ UNCHANGED vars
  <2>1. /\ Still /\ UNCHANGED <<watching, out, synth, registry, told>>
        /\ loop' = loop \/ (loop = "running" /\ loop' = "stalled")
    BY <1>11 DEF Elapse, Stall, vars, Still, disks, buffers, registry, history
  <2> QED BY <2>1, IdleStep
<1>12. CASE StartWatcher
  BY <1>12, StartStep
<1>13. ASSUME NEW armed \in SUBSET Dependencies, BootArm(armed) PROVE Live'
  BY <1>13, BootArmStep
<1>14. ASSUME NEW eager \in BOOLEAN, Boot(eager) PROVE Live'
  BY <1>14, BootStep
<1>15. CASE TickStart
  BY <1>15, TickStep
<1>16. ASSUME NEW succeeds \in BOOLEAN, NEW armed \in SUBSET Dependencies,
              EndPass(succeeds, armed)
       PROVE  Live'
  BY <1>16, EndPassStep
<1> QED BY <1>1, <1>2, <1>3, <1>4, <1>5, <1>6, <1>7, <1>8, <1>9, <1>10, <1>11, <1>12, <1>13,
           <1>14, <1>15, <1>16 DEF Next, Debouncer, DrainLoop

(* After the signal nothing revives the watcher. *)
LEMMA SignalStays == TypeOK /\ shutdown /\ [Next]_vars => shutdown'
<1> SUFFICES ASSUME TypeOK, shutdown, [Next]_vars PROVE shutdown'
  OBVIOUS
<1>1. ASSUME NEW f \in Files, Modify(f) \/ Create(f) \/ Delete(f) \/ Restore(f) PROVE shutdown'
  BY <1>1 DEF Modify, Create, Delete, Restore, Edited
<1>2. ASSUME NEW f \in Hot, ModifyHot(f) PROVE shutdown'
  BY <1>2 DEF ModifyHot
<1>3. CASE Debouncer \/ Elapse \/ Stall \/ Shutdown \/ UNCHANGED vars
  BY <1>3 DEF Debouncer, Recv, QuietTick, SendChange, ShutdownSeen, EmitNext, Elapse, Stall,
              Shutdown, vars
<1>4. CASE DrainLoop
  BY <1>4 DEF DrainLoop, StartWatcher, TickStart, BootArm, Boot, EndPass
<1> QED BY <1>1, <1>2, <1>3, <1>4 DEF Next

(* Every edit of a file is in an event, in a change, in the facts about    *)
(* modification times, or told.                                            *)
THEOREM WatchInvariant == Spec => []WatchInv
<1>1. Init => WatchInv
  BY InvInit
<1>2. WatchInv /\ [Next]_vars => WatchInv'
  <2> SUFFICES ASSUME WatchInv, [Next]_vars PROVE WatchInv'
    OBVIOUS
  <2>1. TypeOK' /\ Control'
    BY TypeStep, ControlStep DEF WatchInv
  <2>2. ~shutdown' => Live'
    BY SignalStays, LiveStep DEF WatchInv
  <2> QED BY <2>1, <2>2 DEF WatchInv
<1> QED BY <1>1, <1>2, PTL DEF Spec

(* When nothing is on its way, a tick has taken every edit of a watched    *)
(* file that a build depends on, and was told what the disk says.          *)
THEOREM EditsAreTaken == Spec => []NoEditIsLost
<1>1. WatchInv => NoEditIsLost
  <2> SUFFICES ASSUME WatchInv, Settled,
                      NEW f \in (watching \cap (Rooted \cup published)) \ (unseen \cup misread)
               PROVE  State(f) \in told[f]
    BY DEF NoEditIsLost
  <2>1. Control /\ Live /\ f \in Files
    BY WatchAssumption DEF WatchInv, Settled, TypeOK
  <2>2. ~Up(f) /\ ~Carried(f) /\ ~Queued(f) /\ f \notin synth /\ loop = "idle"
    BY <2>1, EmptyMentions DEF Settled, Control, Up, Carried, Queued, Mentions, Bursting, NoBurst
  <2>3. Known(f)
    BY <2>1, <2>2 DEF Live, Watched
  <2> QED BY <2>2, <2>3 DEF Known
<1> QED BY <1>1, WatchInvariant, PTL

(* When nothing is on its way, every new file that a watch reported has    *)
(* been in a batch as a creation, whatever came after it in its burst.     *)
THEOREM CreationsAreTold == Spec => []CreationIsTold
<1>1. WatchInv => CreationIsTold
  <2> SUFFICES ASSUME WatchInv, Settled, NEW f \in fresh \cap disk PROVE FALSE
    BY DEF CreationIsTold
  <2>1. Control /\ Live /\ f \in Files
    BY DEF WatchInv, Settled, TypeOK
  <2>2. /\ None # "Created" /\ Event(f, "Created") \in Change /\ None \notin Change
        /\ pending[f] = None /\ flush[f] = None /\ inflight = None
        /\ ~Telling(raw, f) /\ ToSet(out) = {}
    BY <2>1, WatchAssumption, EventType, EmptyMentions
       DEF Settled, Control, Bursting, NoBurst, Kinds
  <2> QED BY <2>1, <2>2 DEF Live, Announced
<1> QED BY <1>1, WatchInvariant, PTL
=============================================================================
