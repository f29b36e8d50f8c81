--------------------------- MODULE ShadowTreeProofs ---------------------------
(***************************************************************************)
(* Theorems about the shadow tree, for any project, any kinds of files and *)
(* any number of edits, calls and failures.                                *)
(***************************************************************************)
EXTENDS ShadowTree, SequenceTheorems, TLAPS

-----------------------------------------------------------------------------
(* The operations of ShadowWriter, on trees whose sources are not garbage  *)
(* and whose remembered files are there.                                   *)

Sources == [Paths -> Texts \cup {Absent, Dir}]
Trees == [src : Sources, shadow : [Places -> Contents \cup {Absent, Dir, Link, Garbage}],
          written : [Places -> Contents \cup {None}]]
Synced(t) == \A x \in Places : t.written[x] # None => t.shadow[x] = t.written[x]
Sound(t) == t \in Trees /\ Synced(t)

LEMMA WithSound ==
  ASSUME NEW t, Sound(t), NEW x \in Places,
         NEW c \in Contents \cup {Absent, Dir, Link, Garbage}, NEW w \in Contents \cup {None},
         w # None => c = w
  PROVE  Sound(With(t, x, c, w)) /\ With(t, x, c, w).src = t.src
<1>1. With(t, x, c, w) \in Trees
  BY DEF Sound, Trees, With
<1>2. Synced(With(t, x, c, w))
  BY DEF Sound, Synced, Trees, With
<1>3. With(t, x, c, w).src = t.src
  BY DEF With
<1> QED BY <1>1, <1>2, <1>3 DEF Sound

LEMMA ClearDirSound ==
  ASSUME NEW t, Sound(t), NEW x \in Places
  PROVE  /\ Sound(ClearDir(t, x)) /\ ClearDir(t, x).src = t.src
         /\ t.shadow[x] = Dir => ClearDir(t, x).written[x] = None
<1> USE DEF Sound, Trees
<1>1. CASE t.shadow[x] # Dir
  BY <1>1 DEF ClearDir
<1>2. CASE t.shadow[x] = Dir
  <2> DEFINE gone == {x} \cup {y \in Places : x \in Above[y]}
             u == [src |-> t.src,
                   shadow |-> [y \in Places |-> IF y \in gone THEN Absent ELSE t.shadow[y]],
                   written |-> [y \in Places |-> IF y \in gone THEN None ELSE t.written[y]]]
  <2>1. ClearDir(t, x) = u
    BY <1>2 DEF ClearDir
  <2>2. u \in Trees
    OBVIOUS
  <2>3. Synced(u)
    BY DEF Synced
  <2>4. u.written[x] = None
    OBVIOUS
  <2> HIDE DEF u
  <2> QED BY <2>1, <2>2, <2>3, <2>4 DEF u
<1> QED BY <1>1, <1>2

LEMMA WriteSound ==
  ASSUME NEW t, Sound(t), NEW x \in Places, NEW c \in Contents
  PROVE  Sound(write_if_changed(t, x, c)) /\ write_if_changed(t, x, c).src = t.src
<1>0. c # None /\ \A d \in Contents : d # Link
  BY ShadowAssumption
<1>1. CASE t.written[x] = c
  BY <1>1 DEF write_if_changed
<1>2. CASE t.written[x] # c /\ t.written[x] # None
  <2>1. t.shadow[x] # Link
    BY <1>0, <1>2 DEF Sound, Synced, Trees
  <2>2. write_if_changed(t, x, c) = With(t, x, c, c)
    BY <1>2, <2>1 DEF write_if_changed
  <2> QED BY <2>2, WithSound
<1>3. CASE t.written[x] = None
  <2> DEFINE u == ClearDir(t, x)
  <2>1. Sound(u) /\ u.src = t.src
    BY ClearDirSound
  <2>2. write_if_changed(t, x, c) = With(u, x, c, c)
    BY <1>0, <1>3, <2>1 DEF write_if_changed
  <2> HIDE DEF u
  <2> QED BY <2>1, <2>2, WithSound
<1> QED BY <1>1, <1>2, <1>3

LEMMA LinkSound ==
  ASSUME NEW t, Sound(t), NEW x \in Places
  PROVE  Sound(symlink_if_absent(t, x)) /\ symlink_if_absent(t, x).src = t.src
<1>1. CASE t.shadow[x] = Link
  BY <1>1 DEF symlink_if_absent
<1>2. CASE t.shadow[x] # Link
  <2> DEFINE u == ClearDir(t, x)
  <2>1. Sound(u) /\ u.src = t.src
    BY ClearDirSound
  <2>2. symlink_if_absent(t, x) = With(u, x, Link, None)
    BY <1>2, <2>1 DEF symlink_if_absent
  <2> HIDE DEF u
  <2> QED BY <2>1, <2>2, WithSound
<1> QED BY <1>1, <1>2

LEMMA EnsureDirSound ==
  ASSUME NEW t, Sound(t), NEW x \in Places
  PROVE  Sound(ensure_dir(t, x)) /\ ensure_dir(t, x).src = t.src
<1>1. CASE t.shadow[x] = Dir
  BY <1>1 DEF ensure_dir
<1>2. CASE t.shadow[x] # Dir
  <2>1. t.shadow[x] = Absent => t.written[x] = None
    BY ShadowAssumption DEF Sound, Synced, Trees
  <2>2. ensure_dir(t, x) = With(t, x, Dir, None)
    BY <1>2, <2>1 DEF ensure_dir
  <2> QED BY <2>2, WithSound
<1> QED BY <1>1, <1>2

-----------------------------------------------------------------------------
(* The steps of a call, and what it writes.                                *)

Passes == {"walk", "mirror", "enrol", "css"}

LEMMA StepIsASeq ==
  ASSUME NEW pass \in Passes, NEW order \in Seq(Paths)
  PROVE  Step(pass, order) \in Seq(Passes \X Paths)
BY DEF Step

LEMMA PlanIsASeq ==
  /\ Plan \in Seq(Passes \X Paths) /\ Len(Plan) \in Nat
  /\ \A i \in 1..Len(Plan) : Plan[i][2] \in Paths
<1>1. WalkOrder \in Seq(Paths) /\ MirrorOrder \in Seq(Paths)
  BY ShadowAssumption, SeqMonotonic
<1>2. WalkOrder \o MirrorOrder \in Seq(Paths)
  BY <1>1, ConcatProperties
<1> DEFINE S(pass, order) == Step(pass, order)
<1>3. /\ S("walk", WalkOrder) \in Seq(Passes \X Paths)
      /\ S("mirror", MirrorOrder) \in Seq(Passes \X Paths)
      /\ S("enrol", MirrorOrder) \in Seq(Passes \X Paths)
      /\ S("css", WalkOrder \o MirrorOrder) \in Seq(Passes \X Paths)
  BY <1>1, <1>2, StepIsASeq DEF Passes
<1>4. Plan = S("walk", WalkOrder) \o S("mirror", MirrorOrder) \o S("enrol", MirrorOrder)
               \o S("css", WalkOrder \o MirrorOrder)
  BY DEF Plan
<1> HIDE DEF S
<1>5. Plan \in Seq(Passes \X Paths)
  BY <1>3, <1>4, ConcatProperties
<1>6. Len(Plan) \in Nat /\ \A i \in 1..Len(Plan) : Plan[i] \in Passes \X Paths
  BY <1>5, LenProperties
<1> HIDE DEF Plan
<1> QED BY <1>5, <1>6

LEMMA RenderIsContents ==
  ASSUME NEW p \in Paths, NEW targets, src \in Sources, src[p] \in Texts, settings \in Settings
  PROVE  Render(src, p, targets) \in Contents
<1>1. Compiled(src, src[p]) \in Contents
  BY ShadowAssumption DEF Compiled, Content, Contents, Sources
<1>2. Expanded(src, src[p]) \in Contents
  BY DEF Expanded, Content, Contents, Sources
<1>3. Raw(src[p]) \in Contents
  BY DEF Raw, Content, Contents
<1> QED BY <1>1, <1>2, <1>3 DEF Render

-----------------------------------------------------------------------------
(* The inductive invariant.                                                *)

\* No source that a call has read or will read is garbage.
Read == src \in Sources /\ seen \in Sources
Kept == aside = None \/ aside \in [path : Paths, text : Texts, stamp : Nat]

\* A running call has armed the dirty flag and has settings.
Running ==
    /\ at # 0 => dirty = TRUE /\ settings \in Settings
    /\ pending # None => at \in 1..Len(Plan)

Inv == TypeOK /\ Read /\ Kept /\ Running /\ WrittenIsOnDisk

LEMMA TreeIsSound == TypeOK /\ Read /\ WrittenIsOnDisk /\ (at # 0 \/ ~dirty) => Sound(Tree)
BY DEF TypeOK, Read, WrittenIsOnDisk, Sound, Synced, Trees, Tree

LEMMA InstallSound ==
  ASSUME NEW t, Sound(t), t.src = src, Install(t)
  PROVE  /\ src' = src
         /\ shadow' \in [Places -> Contents \cup {Absent, Dir, Link, Garbage}]
         /\ written' \in [Places -> Contents \cup {None}]
         /\ \A x \in Places : written'[x] # None => shadow'[x] = written'[x]
BY DEF Sound, Synced, Trees, Install

LEMMA InitInv == Init => Inv
<1> SUFFICES ASSUME Init PROVE Inv
  OBVIOUS
<1>1. src \in Sources
  BY ShadowAssumption DEF Init, Sources
<1>2. TypeOK
  <2>1. src \in [Paths -> Texts \cup {Absent, Dir, Garbage}]
    BY <1>1 DEF Sources
  <2>2. 0 \in 0..Len(Plan) + 2
    BY PlanIsASeq
  <2>3. shadow \in [Places -> Contents \cup {Absent, Dir, Link, Garbage}]
        /\ written \in [Places -> Contents \cup {None}]
    BY DEF Init
  <2>4. stamp \in [Paths -> Nat] /\ clock \in Nat /\ opened \in 1..clock
    BY DEF Init
  <2>5. prevVisited \subseteq Places /\ visited \subseteq Places /\ entered \subseteq Paths
        /\ edges \subseteq Paths
    BY DEF Init
  <2>6. DOMAIN skip = Paths /\ mirrorSkip \in [Paths -> Nat \cup {None}]
    BY DEF Init, NoEntries
  <2>7. dirty \in BOOLEAN /\ copyMode \in BOOLEAN \cup {None} /\ settings \in Settings \cup {None}
    BY DEF Init
  <2>8. at \in 0..Len(Plan) + 2
    BY <2>2 DEF Init
  <2> QED BY <2>1, <2>3, <2>4, <2>5, <2>6, <2>7, <2>8 DEF TypeOK
<1>3. WrittenIsOnDisk
  BY DEF Init, WrittenIsOnDisk
<1> QED BY <1>1, <1>2, <1>3 DEF Init, Inv, Read, Kept, Running

LEMMA EditStep == Inv /\ Edit => Inv'
<1> SUFFICES ASSUME Inv, Edit PROVE Inv'
  OBVIOUS
<1> DEFINE Tidy == /\ \E s \in Sources : Edited(s)
                   /\ stamp' \in [Paths -> Nat]
                   /\ Kept'
<1>1. ASSUME Tidy PROVE Inv'
  <2>1. PICK s \in Sources : Edited(s)
    BY <1>1
  <2>2. UNCHANGED <<shadow, written, prevVisited, dirty, copyMode, settings, skip, mirrorSkip,
                    at, visited, entered, edges, seen, opened, pending>> /\ clock' = clock + 1 /\ src' = s
    BY <2>1 DEF Edited, session, caches, walk, input
  <2>3. s \in [Paths -> Texts \cup {Absent, Dir, Garbage}]
    BY DEF Sources
  <2>4. TypeOK'
    BY <1>1, <2>2, <2>3 DEF Inv, TypeOK, Plan
  <2>5. Read' /\ Running' /\ WrittenIsOnDisk'
    BY <2>2 DEF Inv, Read, Running, WrittenIsOnDisk
  <2> QED BY <1>1, <2>4, <2>5 DEF Inv
<1>2. clock + 1 \in Nat /\ stamp \in [Paths -> Nat] /\ src \in Sources /\ Kept
  BY DEF Inv, TypeOK, Read
<1>3. ASSUME NEW p \in Paths, Save(p) PROVE Tidy
  <2>1. PICK t \in TextsOf[p] : Edited([src EXCEPT ![p] = t])
    BY <1>3 DEF Save
  <2>2. [src EXCEPT ![p] = t] \in Sources
    BY <1>2, <2>1, ShadowAssumption DEF Sources
  <2>3. stamp' \in [Paths -> Nat] /\ aside' = aside
    BY <1>2, <1>3 DEF Save
  <2> QED BY <1>2, <2>1, <2>2, <2>3 DEF Kept
<1>4. ASSUME NEW p \in Paths, MakeDir(p) PROVE Tidy
  <2>1. [src EXCEPT ![p] = Dir] \in Sources
    BY <1>2 DEF Sources
  <2> QED BY <1>2, <1>4, <2>1 DEF MakeDir, Kept
<1>5. ASSUME NEW p \in Paths, Delete(p) PROVE Tidy
  <2>1. [q \in Paths |-> IF q = p \/ p \in Above[q] THEN Absent ELSE src[q]] \in Sources
    BY <1>2 DEF Sources
  <2> QED BY <1>2, <1>5, <2>1 DEF Delete, Kept
<1>6. ASSUME NEW p \in Paths, MoveAway(p) PROVE Tidy
  <2>1. [src EXCEPT ![p] = Absent] \in Sources
    BY <1>2 DEF Sources
  <2>2. [path |-> p, text |-> src[p], stamp |-> stamp[p]] \in [path : Paths, text : Texts, stamp : Nat]
    BY <1>2, <1>6 DEF MoveAway, IsFile
  <2> QED BY <1>2, <1>6, <2>1, <2>2 DEF MoveAway, Kept
<1>7. ASSUME MoveBack PROVE Tidy
  <2>1. aside \in [path : Paths, text : Texts, stamp : Nat]
    BY <1>2, <1>7 DEF MoveBack, Kept
  <2>2. [src EXCEPT ![aside.path] = aside.text] \in Sources
    BY <1>2, <2>1 DEF Sources
  <2> QED BY <1>2, <1>7, <2>1, <2>2 DEF MoveBack, Kept
<1> QED BY <1>1, <1>3, <1>4, <1>5, <1>6, <1>7 DEF Edit

-----------------------------------------------------------------------------
(* A step of a call that installs a sound tree, or none, keeps the         *)
(* invariant.                                                              *)

Moves ==
    /\ at' \in 1..Len(Plan) + 2 /\ (pending' # None => at' = at /\ at \in 1..Len(Plan))
    /\ visited' \subseteq Places /\ entered' \subseteq Paths /\ edges' \subseteq Paths
    /\ UNCHANGED <<stamp, clock, aside, session, input>>
    /\ DOMAIN skip' = Paths /\ mirrorSkip' \in [Paths -> Nat \cup {None}]

LEMMA InstallStep ==
  ASSUME Inv, at # 0, Moves, NEW t, Sound(t), t.src = src, Install(t)
  PROVE  Inv' /\ src' = src
<1>1. /\ src' = src
      /\ shadow' \in [Places -> Contents \cup {Absent, Dir, Link, Garbage}]
      /\ written' \in [Places -> Contents \cup {None}]
      /\ \A x \in Places : written'[x] # None => shadow'[x] = written'[x]
  BY InstallSound
<1>2. at' \in 0..Len(Plan) + 2
  BY PlanIsASeq DEF Moves
<1>3. TypeOK'
  BY <1>1, <1>2 DEF Inv, TypeOK, Moves, session, input, Plan
<1>4. Read' /\ Kept' /\ Running' /\ WrittenIsOnDisk'
  BY <1>1 DEF Inv, Read, Kept, Running, WrittenIsOnDisk, Moves, session, input, Plan
<1> QED BY <1>1, <1>3, <1>4 DEF Inv

LEMMA IdleStep ==
  ASSUME Inv, at # 0, Moves, UNCHANGED <<src, shadow, written>>
  PROVE  Inv' /\ src' = src
<1>1. Sound(Tree) /\ Tree.src = src /\ Install(Tree)
  BY TreeIsSound DEF Inv, Tree, Install
<1> QED BY <1>1, InstallStep

LEMMA HereMeans ==
  ASSUME Inv, NEW pass, NEW p, Here(pass, p)
  PROVE  /\ at \in 1..Len(Plan) /\ at # 0 /\ pending = None
         /\ at \in 1..Len(Plan) + 2 /\ at + 1 \in 1..Len(Plan) + 2
         /\ settings \in Settings
BY PlanIsASeq DEF Inv, Running, Here

LEMMA PutSound ==
  ASSUME NEW t, Sound(t), NEW x \in Places, NEW c \in Contents
  PROVE  Sound(Put(t, x, c)) /\ Put(t, x, c).src = t.src
BY LinkSound, WriteSound DEF Put

LEMMA VisitStep ==
  ASSUME Inv, NEW p \in Paths, Visit(p)
  PROVE  Inv' /\ src' = src
<1>0. /\ p \in Places /\ visited \subseteq Places /\ entered \subseteq Paths /\ edges \subseteq Paths
      /\ DOMAIN skip = Paths /\ mirrorSkip \in [Paths -> Nat \cup {None}]
      /\ \A e \in Extra : e \in Places
  BY DEF Inv, TypeOK, Places
<1>1. CASE EnterDir(p)
  <2>1. Here("walk", p)
    BY <1>1 DEF EnterDir
  <2>2. Sound(Tree) /\ Tree.src = src
    BY <2>1, HereMeans, TreeIsSound DEF Inv, Tree
  <2>3. Sound(ensure_dir(Tree, p)) /\ ensure_dir(Tree, p).src = src
    BY <1>0, <2>2, EnsureDirSound
  <2>4. Moves
    BY <1>0, <1>1, <2>1, HereMeans DEF EnterDir, Advance, Moves, caches
  <2> QED BY <1>1, <2>1, <2>3, <2>4, HereMeans, InstallStep DEF EnterDir
<1>2. CASE PassBy(p)
  <2>1. PICK pass \in Passes : Here(pass, p)
    BY <1>2 DEF PassBy, Passes
  <2>2. Moves
    BY <1>0, <1>2, <2>1, HereMeans DEF PassBy, Advance, Moves, caches, walk, disk
  <2> QED BY <1>2, <2>1, <2>2, HereMeans, IdleStep DEF PassBy, disk
<1>3. CASE Reuse(p)
  <2>1. PICK pass \in Passes : Here(pass, p)
    BY <1>3 DEF Reuse, Due, Passes
  <2>2. Moves
    BY <1>0, <1>3, <2>1, HereMeans DEF Reuse, Advance, Moves, caches, disk
  <2> QED BY <1>3, <2>1, <2>2, HereMeans, IdleStep DEF Reuse, disk
<1>4. CASE KeepMirror(p)
  <2>1. Here("enrol", p)
    BY <1>4 DEF KeepMirror
  <2>2. Moves
    BY <1>0, <1>4, <2>1, HereMeans DEF KeepMirror, Advance, Moves, caches, walk, disk
  <2> QED BY <1>4, <2>1, <2>2, HereMeans, IdleStep DEF KeepMirror, disk
<1>5. CASE Materialise(p)
  <2> DEFINE c == Render(src, p, Targets)
             t == Put(Tree, p, c)
             u == PutSatellite(t, p, c)
  <2>1. PICK pass \in Passes : Here(pass, p)
    BY <1>5 DEF Materialise, Due, Passes
  <2>2. src[p] \in Texts /\ src \in Sources
    BY <1>5 DEF Materialise, Due, IsFile, Inv, Read
  <2>3. c \in Contents
    BY <2>1, <2>2, HereMeans, RenderIsContents
  <2>4. Sound(t) /\ t.src = src
    <3>1. Sound(Tree) /\ Tree.src = src
      BY <2>1, HereMeans, TreeIsSound DEF Inv, Tree
    <3> QED BY <1>0, <2>3, <3>1, PutSound
  <2>5. Satellites(p, c) # {} =>
          /\ Ref[src[p]] \in Paths /\ Generated[p][Ref[src[p]]] \in Places
          /\ src[Ref[src[p]]] \in Texts \cup {Absent, Dir}
          /\ Satellites(p, c) = {Generated[p][Ref[src[p]]]}
    BY <1>0, <2>2, ShadowAssumption DEF Satellites, Sources
  <2>6. Satellites(p, c) # {} => Content("module", src[Ref[src[p]]], {}) \in Contents
    BY <2>5 DEF Content, Contents
  <2>7. Sound(u) /\ u.src = src
    BY <2>4, <2>5, <2>6, WriteSound DEF PutSatellite
  <2>8. Install(u) /\ UNCHANGED <<stamp, clock, aside, session, caches, at, entered, input>>
    BY <1>5 DEF Materialise
  <2>9. visited' = visited \cup {p} \cup Satellites(p, c)
    BY <1>5 DEF Materialise
  <2>10. edges' \subseteq Paths
    <3>1. edges' = edges \/ edges' = edges \cup ({Ref[src[p]]} \ {None})
      BY <1>5 DEF Materialise
    <3>2. Ref[src[p]] \in Paths \cup {None}
      BY <2>2, ShadowAssumption
    <3> QED BY <1>0, <3>1, <3>2
  <2>11. Moves
    BY <1>0, <2>1, <2>5, <2>8, <2>9, <2>10, HereMeans DEF Moves, caches
  <2> QED BY <2>1, <2>7, <2>8, <2>11, HereMeans, InstallStep
<1>6. CASE Mirror(p)
  <2>1. Here("mirror", p)
    BY <1>6 DEF Mirror
  <2>2. Sound(Tree) /\ Tree.src = src
    BY <2>1, HereMeans, TreeIsSound DEF Inv, Tree
  <2>3. CASE Advance /\ UNCHANGED <<src, shadow, written, pending>>
    <3>1. Moves
      BY <1>0, <1>6, <2>1, <2>3, HereMeans DEF Mirror, Advance, Moves, caches
    <3> QED BY <2>1, <2>3, <3>1, HereMeans, IdleStep
  <2>4. CASE Install(write_if_changed(Tree, p, Raw(src[p]))) /\ UNCHANGED at
    <3>1. Raw(src[p]) \in Contents
      BY <1>6 DEF Mirror, IsFile, Raw, Content, Contents
    <3>2. Moves
      BY <1>0, <1>6, <2>1, <2>4, HereMeans DEF Mirror, Moves, caches
    <3> QED BY <1>0, <2>1, <2>2, <2>4, <3>1, <3>2, HereMeans, WriteSound, InstallStep
  <2> QED BY <1>6, <2>3, <2>4 DEF Mirror
<1>7. CASE RewriteCss(p)
  <2>1. Here("css", p)
    BY <1>7 DEF RewriteCss
  <2>2. Sound(Tree) /\ Tree.src = src
    BY <2>1, HereMeans, TreeIsSound DEF Inv, Tree
  <2>3. Shim(seen[p]) \in Contents
    BY DEF Inv, Read, Sources, Shim, Content, Contents
  <2>4. Moves
    BY <1>0, <1>7, <2>1, HereMeans DEF RewriteCss, Advance, Moves, caches, walk
  <2>5. Install(write_if_changed(Tree, p, Shim(seen[p])))
    BY <1>7 DEF RewriteCss
  <2> QED BY <1>0, <2>1, <2>2, <2>3, <2>4, <2>5, HereMeans, WriteSound, InstallStep
<1> QED BY <1>1, <1>2, <1>3, <1>4, <1>5, <1>6, <1>7 DEF Visit

LEMMA StoreStep == Inv /\ Store => Inv' /\ src' = src
<1> SUFFICES ASSUME Inv, Store PROVE Inv' /\ src' = src
  OBVIOUS
<1>1. at \in 1..Len(Plan) /\ at # 0 /\ at + 1 \in 1..Len(Plan) + 2 /\ Plan[at][2] \in Paths
  BY PlanIsASeq DEF Inv, Running, Store
<1>2. stamp \in [Paths -> Nat] /\ mirrorSkip \in [Paths -> Nat \cup {None}] /\ DOMAIN skip = Paths
  BY DEF Inv, TypeOK
<1>3. DOMAIN skip' = Paths
  BY <1>2 DEF Store
<1>4. mirrorSkip' \in [Paths -> Nat \cup {None}]
  BY <1>1, <1>2 DEF Store, Evict
<1>5. visited \subseteq Places /\ entered \subseteq Paths /\ edges \subseteq Paths
  BY DEF Inv, TypeOK
<1>6. Moves
  BY <1>1, <1>3, <1>4, <1>5 DEF Store, Advance, Moves, disk, walk
<1>7. UNCHANGED <<src, shadow, written>>
  BY DEF Store, disk
<1> QED BY <1>1, <1>6, <1>7, IdleStep

LEMMA BeginStep ==
  ASSUME Inv, NEW mode \in Modes, NEW set \in Settings, Begin(mode, set)
  PROVE  Inv' /\ src' = src
<1>1. UNCHANGED <<src, stamp, clock, aside, pending>> /\ seen' = src /\ opened' = clock
      /\ visited' = {} /\ entered' = {} /\ edges' = {} /\ settings' = set /\ copyMode' = mode /\ dirty' = TRUE
      /\ at = 0 /\ at' = 1
  BY DEF Begin, disk
<1>2. 1 \in 0..Len(Plan) + 2
  BY PlanIsASeq
<1>3. shadow' \in [Places -> Contents \cup {Absent, Dir, Link, Garbage}]
      /\ written' \in [Places -> Contents \cup {None}]
  BY DEF Begin, Inv, TypeOK
<1>4. DOMAIN skip' = Paths /\ mirrorSkip' \in [Paths -> Nat \cup {None}]
  BY DEF Begin, Inv, TypeOK, NoEntries
<1>5. prevVisited' \subseteq Places
  BY DEF Begin, Inv, TypeOK
<1>6. mode \in BOOLEAN /\ clock \in Nat /\ clock \in 1..clock
  BY ShadowAssumption DEF Inv, TypeOK
<1>7. TypeOK'
  BY <1>1, <1>2, <1>3, <1>4, <1>5, <1>6 DEF Inv, TypeOK, Plan
<1>8. WrittenIsOnDisk'
  <2>1. CASE MustWipe(mode)
    BY <2>1 DEF Begin, WrittenIsOnDisk
  <2>2. CASE ~MustWipe(mode)
    <3>1. UNCHANGED <<shadow, written>> /\ ~dirty
      BY <2>2 DEF Begin, MustWipe
    <3> QED BY <3>1 DEF Inv, WrittenIsOnDisk
  <2> QED BY <2>1, <2>2
<1>9. pending' = None
  BY <1>1, PlanIsASeq DEF Inv, Running
<1> QED BY <1>1, <1>7, <1>8, <1>9 DEF Inv, Read, Kept, Running

LEMMA BeginFailsStep ==
  ASSUME ~FlipWipeFails, Inv, NEW mode, BeginFails(mode)
  PROVE  Inv' /\ src' = src
<1>1. UNCHANGED <<disk, written, session, caches, at, walk, input, pending>> /\ at = 0 /\ dirty
  BY DEF BeginFails
<1>2. shadow' \in [Places -> Contents \cup {Absent, Dir, Link, Garbage}]
  BY DEF BeginFails, Inv, TypeOK
<1>3. TypeOK'
  BY <1>1, <1>2 DEF Inv, TypeOK, Plan, disk, session, caches, walk, input
<1> QED BY <1>1, <1>3 DEF Inv, Read, Kept, Running, WrittenIsOnDisk, Plan,
                          disk, session, caches, walk, input

LEMMA PruneStep == Inv /\ prune_stale => Inv' /\ src' = src
<1> SUFFICES ASSUME Inv, prune_stale PROVE Inv' /\ src' = src
  OBVIOUS
<1>1. at \in 1..Len(Plan) + 1 /\ at # 0 /\ at' \in 1..Len(Plan) + 2 /\ at' \in 0..Len(Plan) + 2
      /\ at' # 0 /\ at \notin 1..Len(Plan)
  BY PlanIsASeq DEF prune_stale, Pruning, Advance
<1>2. UNCHANGED <<disk, dirty, copyMode, settings, caches, walk, input, pending>>
      /\ prevVisited' = visited
  BY DEF prune_stale
<1>3. shadow' \in [Places -> Contents \cup {Absent, Dir, Link, Garbage}]
      /\ written' \in [Places -> Contents \cup {None}]
  BY DEF prune_stale, Inv, TypeOK
<1>4. TypeOK'
  BY <1>1, <1>2, <1>3 DEF Inv, TypeOK, Plan, disk, caches, walk, input
<1>5. WrittenIsOnDisk'
  <2>1. \A x \in Places : written[x] # None => shadow[x] = written[x]
    BY <1>1 DEF Inv, WrittenIsOnDisk
  <2> QED BY <2>1 DEF prune_stale, WrittenIsOnDisk
<1> QED BY <1>1, <1>2, <1>4, <1>5 DEF Inv, Read, Kept, Running, Plan, disk, caches, walk, input

LEMMA BundledStep == Inv /\ Bundled => Inv' /\ src' = src
<1> SUFFICES ASSUME Inv, Bundled PROVE Inv' /\ src' = src
  OBVIOUS
<1>1. at # 0 /\ at \notin 1..Len(Plan) /\ 0 \in 0..Len(Plan) + 2
  BY PlanIsASeq DEF Bundled, Esbuild
<1>2. at' = 0 /\ dirty' = FALSE
      /\ UNCHANGED <<disk, shadow, written, prevVisited, copyMode, settings, caches, walk, input, pending>>
  BY DEF Bundled
<1>3. TypeOK'
  BY <1>1, <1>2 DEF Inv, TypeOK, Plan, disk, caches, walk, input
<1> QED BY <1>1, <1>2, <1>3 DEF Inv, Read, Kept, Running, WrittenIsOnDisk, Plan,
                                disk, caches, walk, input

LEMMA FailStep == Inv /\ Fail => Inv' /\ src' = src
<1> SUFFICES ASSUME Inv, Fail PROVE Inv' /\ src' = src
  OBVIOUS
<1>1. at' = 0 /\ pending' = None /\ dirty = TRUE
      /\ UNCHANGED <<disk, written, session, caches, walk, input>>
  BY DEF Fail, Inv, Running
<1>2. shadow' \in [Places -> Contents \cup {Absent, Dir, Link, Garbage}]
  BY DEF Fail, Inv, TypeOK
<1>3. 0 \in 0..Len(Plan) + 2
  BY PlanIsASeq
<1>4. TypeOK'
  BY <1>1, <1>2, <1>3 DEF Inv, TypeOK, Plan, disk, session, caches, walk, input
<1> QED BY <1>1, <1>4 DEF Inv, Read, Kept, Running, WrittenIsOnDisk,
                          disk, session, caches, walk, input

LEMMA CallStep == ~FlipWipeFails /\ Inv /\ Call => Inv' /\ src' = src
<1> SUFFICES ASSUME ~FlipWipeFails, Inv, Call PROVE Inv' /\ src' = src
  OBVIOUS
<1>1. ASSUME NEW mode \in Modes, BeginFails(mode) PROVE Inv' /\ src' = src
  BY <1>1, BeginFailsStep
<1>2. ASSUME NEW mode \in Modes, NEW set \in Settings, Begin(mode, set) PROVE Inv' /\ src' = src
  BY <1>2, BeginStep
<1>3. ASSUME NEW p \in Paths, Visit(p) PROVE Inv' /\ src' = src
  BY <1>3, VisitStep
<1> QED BY <1>1, <1>2, <1>3, StoreStep, PruneStep, BundledStep, FailStep DEF Call

LEMMA InvStep == ~FlipWipeFails /\ Inv /\ [Next]_vars => Inv'
<1> SUFFICES ASSUME ~FlipWipeFails, Inv, [Next]_vars PROVE Inv'
  OBVIOUS
<1>1. CASE Edit
  BY <1>1, EditStep
<1>2. CASE Call
  BY <1>2, CallStep
<1>3. CASE UNCHANGED vars
  BY <1>3 DEF vars, disk, session, caches, walk, input, Inv, TypeOK, Read, Kept, Running,
              WrittenIsOnDisk, Plan
<1> QED BY <1>1, <1>2, <1>3 DEF Next

-----------------------------------------------------------------------------
\* The invariant holds as long as no wipe for a change of mode fails.
THEOREM ShadowInvariant ==
  ASSUME ~FlipWipeFails
  PROVE  Spec => []Inv
<1>1. Inv /\ [Next]_vars => Inv'
  BY InvStep
<1> QED BY <1>1, InitInv, PTL DEF Spec

\* Every variable keeps its type: a call stays within its plan, and what it
\* records belongs to places and paths of the project.
THEOREM TypeCorrect ==
  ASSUME ~FlipWipeFails
  PROVE  Spec => []TypeOK
<1>1. Inv => TypeOK
  BY DEF Inv
<1> QED BY <1>1, ShadowInvariant, PTL

\* What write_if_changed takes for written is on disk, whatever was edited,
\* moved or replaced by a directory, and whichever calls failed.
THEOREM HashesAreTrue ==
  ASSUME ~FlipWipeFails
  PROVE  Spec => []WrittenIsOnDisk
<1>1. Inv => WrittenIsOnDisk
  BY DEF Inv
<1> QED BY <1>1, ShadowInvariant, PTL

\* No write of the bundler follows a link of the shadow into the project.
THEOREM NoWriteThroughLinks ==
  ASSUME ~FlipWipeFails
  PROVE  Spec => SourcesUntouched
<1>1. Inv /\ [Next]_vars => [clock' = clock => src' = src]_vars
  <2> SUFFICES ASSUME Inv, [Next]_vars PROVE [clock' = clock => src' = src]_vars
    OBVIOUS
  <2>1. CASE Edit
    <3>1. clock' = clock + 1 /\ clock \in Nat
      BY <2>1 DEF Edit, Save, MakeDir, Delete, MoveAway, MoveBack, Edited, Inv, TypeOK
    <3> QED BY <3>1
  <2>2. CASE Call
    BY <2>2, CallStep
  <2> QED BY <2>1, <2>2 DEF Next
<1> QED BY <1>1, ShadowInvariant, PTL DEF Spec, SourcesUntouched

-----------------------------------------------------------------------------
(* Where the passes lie in the plan.                                       *)

W == Len(WalkOrder)
M == Len(MirrorOrder)
Both == WalkOrder \o MirrorOrder

LEMMA OrdersAreSeqs ==
  /\ WalkOrder \in Seq(Paths) /\ MirrorOrder \in Seq(Paths) /\ W \in Nat /\ M \in Nat
  /\ Both \in Seq(Paths) /\ Len(Both) = W + M
  /\ \A i \in 1..W : Both[i] = WalkOrder[i] /\ WalkOrder[i] \in Paths
  /\ \A i \in 1..M : Both[W + i] = MirrorOrder[i] /\ MirrorOrder[i] \in Paths
<1>1. WalkOrder \in Seq(Paths) /\ MirrorOrder \in Seq(Paths)
  BY ShadowAssumption, SeqMonotonic
<1>2. W \in Nat /\ M \in Nat /\ (\A i \in 1..W : WalkOrder[i] \in Paths)
      /\ \A i \in 1..M : MirrorOrder[i] \in Paths
  BY <1>1, LenProperties DEF W, M
<1>3. /\ Both \in Seq(Paths) /\ Len(Both) = W + M
      /\ \A i \in 1..W + M : Both[i] = IF i <= W THEN WalkOrder[i] ELSE MirrorOrder[i - W]
  BY <1>1, ConcatProperties DEF W, M, Both
<1>4. \A i \in 1..W : Both[i] = WalkOrder[i]
  BY <1>2, <1>3
<1>5. ASSUME NEW i \in 1..M PROVE Both[W + i] = MirrorOrder[i]
  <2>1. W + i \in 1..W + M /\ ~(W + i <= W) /\ (W + i) - W = i
    BY <1>2
  <2> QED BY <1>3, <2>1
<1> QED BY <1>1, <1>2, <1>3, <1>4, <1>5

LEMMA StepAt ==
  ASSUME NEW pass, NEW order \in Seq(Paths)
  PROVE  /\ Len(Step(pass, order)) = Len(order)
         /\ \A i \in 1..Len(order) : Step(pass, order)[i] = <<pass, order[i]>>
<1>1. Len(order) \in Nat
  BY LenProperties
<1> QED BY <1>1 DEF Step

LEMMA PlanAt ==
  /\ Len(Plan) = W + M + M + (W + M)
  /\ \A i \in 1..W : Plan[i] = <<"walk", WalkOrder[i]>>
  /\ \A i \in 1..M : Plan[W + i] = <<"mirror", MirrorOrder[i]>>
  /\ \A i \in 1..M : Plan[W + M + i] = <<"enrol", MirrorOrder[i]>>
  /\ \A i \in 1..W + M : Plan[W + M + M + i] = <<"css", Both[i]>>
<1> DEFINE S == Passes \X Paths
           a == Step("walk", WalkOrder)
           b == Step("mirror", MirrorOrder)
           c == Step("enrol", MirrorOrder)
           d == Step("css", Both)
<1>0. W \in Nat /\ M \in Nat
  BY OrdersAreSeqs
<1>1. /\ a \in Seq(S) /\ b \in Seq(S) /\ c \in Seq(S) /\ d \in Seq(S)
      /\ Plan = ((a \o b) \o c) \o d
  BY OrdersAreSeqs, StepIsASeq DEF Plan, Passes, Both
<1>2. Len(a) = W /\ Len(b) = M /\ Len(c) = M /\ Len(d) = W + M
  BY OrdersAreSeqs, StepAt DEF W, M
<1>3. /\ \A i \in 1..W : a[i] = <<"walk", WalkOrder[i]>>
      /\ \A i \in 1..M : b[i] = <<"mirror", MirrorOrder[i]>>
      /\ \A i \in 1..M : c[i] = <<"enrol", MirrorOrder[i]>>
      /\ \A i \in 1..W + M : d[i] = <<"css", Both[i]>>
  BY OrdersAreSeqs, StepAt DEF W, M
<1> HIDE DEF a, b, c, d, S
<1>4. /\ a \o b \in Seq(S) /\ Len(a \o b) = W + M
      /\ \A i \in 1..W + M : (a \o b)[i] = IF i <= W THEN a[i] ELSE b[i - W]
  BY <1>1, <1>2, ConcatProperties
<1> DEFINE ab == a \o b
<1> HIDE DEF ab
<1>5. /\ ab \o c \in Seq(S) /\ Len(ab \o c) = W + M + M
      /\ \A i \in 1..W + M + M : (ab \o c)[i] = IF i <= W + M THEN ab[i] ELSE c[i - (W + M)]
  BY <1>1, <1>2, <1>4, ConcatProperties DEF ab
<1> DEFINE abc == ab \o c
<1> HIDE DEF abc
<1>6. /\ Len(Plan) = W + M + M + (W + M)
      /\ \A i \in 1..W + M + M + (W + M) :
           Plan[i] = IF i <= W + M + M THEN abc[i] ELSE d[i - (W + M + M)]
  <2>1. abc \in Seq(S) /\ Len(abc) = W + M + M /\ Plan = abc \o d
    BY <1>1, <1>5 DEF ab, abc
  <2>2. /\ Len(abc \o d) = Len(abc) + Len(d)
        /\ \A i \in 1..Len(abc) + Len(d) :
             (abc \o d)[i] = IF i <= Len(abc) THEN abc[i] ELSE d[i - Len(abc)]
    BY <1>1, <2>1, ConcatProperties
  <2> QED BY <1>2, <2>1, <2>2
<1>7. ASSUME NEW i \in 1..W PROVE Plan[i] = a[i]
  <2>1. i \in 1..W + M + M + (W + M) /\ i <= W + M + M /\ i \in 1..W + M + M /\ i <= W + M
        /\ i \in 1..W + M /\ i <= W
    BY <1>0
  <2>2. Plan[i] = abc[i]
    BY <1>6, <2>1
  <2>3. abc[i] = ab[i]
    BY <1>5, <2>1 DEF abc
  <2>4. ab[i] = a[i]
    BY <1>4, <2>1 DEF ab
  <2> QED BY <2>2, <2>3, <2>4
<1>8. ASSUME NEW i \in 1..M PROVE Plan[W + i] = b[i]
  <2> DEFINE j == W + i
  <2>1. j \in 1..W + M + M + (W + M) /\ j <= W + M + M /\ j \in 1..W + M + M /\ j <= W + M
        /\ j \in 1..W + M /\ ~(j <= W) /\ j - W = i
    BY <1>0
  <2> HIDE DEF j
  <2>2. Plan[j] = b[i]
    BY <1>4, <1>5, <1>6, <2>1 DEF ab, abc
  <2> QED BY <2>2 DEF j
<1>9. ASSUME NEW i \in 1..M PROVE Plan[W + M + i] = c[i]
  <2> DEFINE j == W + M + i
  <2>1. j \in 1..W + M + M + (W + M) /\ j <= W + M + M /\ j \in 1..W + M + M /\ ~(j <= W + M)
        /\ j - (W + M) = i
    BY <1>0
  <2> HIDE DEF j
  <2>2. Plan[j] = c[i]
    BY <1>5, <1>6, <2>1 DEF abc
  <2> QED BY <2>2 DEF j
<1>10. ASSUME NEW i \in 1..W + M PROVE Plan[W + M + M + i] = d[i]
  <2> DEFINE j == W + M + M + i
  <2>1. j \in 1..W + M + M + (W + M) /\ ~(j <= W + M + M) /\ j - (W + M + M) = i
    BY <1>0
  <2> HIDE DEF j
  <2>2. Plan[j] = d[i]
    BY <1>6, <2>1
  <2> QED BY <2>2 DEF j
<1> QED BY <1>3, <1>6, <1>7, <1>8, <1>9, <1>10

\* Each step of the plan, seen from its index.
LEMMA PlanParts ==
  ASSUME NEW i \in 1..Len(Plan)
  PROVE  \/ i <= W /\ i \in 1..W /\ Plan[i] = <<"walk", WalkOrder[i]>>
         \/ W < i /\ i <= W + M /\ i - W \in 1..M /\ Plan[i] = <<"mirror", MirrorOrder[i - W]>>
         \/ W + M < i /\ i <= W + M + M /\ i - W - M \in 1..M
            /\ Plan[i] = <<"enrol", MirrorOrder[i - W - M]>>
         \/ W + M + M < i /\ i - W - M - M \in 1..W + M
            /\ Plan[i] = <<"css", Both[i - W - M - M]>>
<1>0. W \in Nat /\ M \in Nat /\ Len(Plan) = W + M + M + (W + M)
  BY OrdersAreSeqs, PlanAt
<1>1. CASE i <= W
  BY <1>0, <1>1, PlanAt
<1>2. CASE W < i /\ i <= W + M
  <2>1. i - W \in 1..M /\ W + (i - W) = i
    BY <1>0, <1>2
  <2> QED BY <1>2, <2>1, PlanAt
<1>3. CASE W + M < i /\ i <= W + M + M
  <2>1. i - W - M \in 1..M /\ W + M + (i - W - M) = i
    BY <1>0, <1>3
  <2> QED BY <1>3, <2>1, PlanAt
<1>4. CASE W + M + M < i
  <2>1. i - W - M - M \in 1..W + M /\ W + M + M + (i - W - M - M) = i
    BY <1>0, <1>4
  <2> QED BY <1>4, <2>1, PlanAt
<1> QED BY <1>0, <1>1, <1>2, <1>3, <1>4

\* Which pass a step belongs to says where it lies, and which paths it is for.
LEMMA PlanMeans ==
  ASSUME NEW i \in 1..Len(Plan), NEW pass, NEW p, Plan[i] = <<pass, p>>
  PROVE  /\ pass \in Passes
         /\ pass = "walk" => i \in 1..W /\ p = WalkOrder[i] /\ p \in Walked
         /\ pass = "mirror" => W < i /\ i <= W + M /\ p = MirrorOrder[i - W] /\ p \in Mirrored
         /\ pass = "enrol" => W + M < i /\ i <= W + M + M /\ p = MirrorOrder[i - W - M]
                                /\ p \in Mirrored
         /\ pass = "css" => W + M + M < i /\ p = Both[i - W - M - M] /\ p \in Walked \cup Mirrored
<1>0. W \in Nat /\ M \in Nat /\ Len(Plan) \in Nat /\ DOMAIN WalkOrder = 1..W /\ DOMAIN MirrorOrder = 1..M
  BY OrdersAreSeqs, PlanAt DEF W, M
<1>1. \A j \in 1..W : WalkOrder[j] \in Walked
  BY <1>0 DEF Walked, ToSet
<1>2. \A j \in 1..M : MirrorOrder[j] \in Mirrored
  BY <1>0 DEF Mirrored, ToSet
<1>3. \A j \in 1..W + M : Both[j] \in Walked \cup Mirrored
  <2> SUFFICES ASSUME NEW j \in 1..W + M PROVE Both[j] \in Walked \cup Mirrored
    OBVIOUS
  <2>1. CASE j \in 1..W
    BY <1>1, <2>1, OrdersAreSeqs
  <2>2. CASE ~(j \in 1..W)
    <3>1. j - W \in 1..M /\ W + (j - W) = j
      BY <1>0, <2>2
    <3> QED BY <1>2, <3>1, OrdersAreSeqs
  <2> QED BY <2>1, <2>2
<1>4. CASE i <= W /\ i \in 1..W /\ Plan[i] = <<"walk", WalkOrder[i]>>
  BY <1>1, <1>4 DEF Passes
<1>5. CASE W < i /\ i <= W + M /\ i - W \in 1..M /\ Plan[i] = <<"mirror", MirrorOrder[i - W]>>
  BY <1>2, <1>5 DEF Passes
<1>6. CASE W + M < i /\ i <= W + M + M /\ i - W - M \in 1..M
           /\ Plan[i] = <<"enrol", MirrorOrder[i - W - M]>>
  BY <1>2, <1>6 DEF Passes
<1>7. CASE W + M + M < i /\ i - W - M - M \in 1..W + M
           /\ Plan[i] = <<"css", Both[i - W - M - M]>>
  BY <1>3, <1>7 DEF Passes
<1> QED BY <1>4, <1>5, <1>6, <1>7, PlanParts

LEMMA PlanHas ==
  /\ \A p \in Walked : \E i \in 1..Len(Plan) : i <= W /\ Plan[i] = <<"walk", p>>
  /\ \A p \in Mirrored : /\ \E i \in 1..Len(Plan) : i <= W + M /\ Plan[i] = <<"mirror", p>>
                         /\ \E i \in 1..Len(Plan) : i <= W + M + M /\ Plan[i] = <<"enrol", p>>
  /\ \A p \in Walked \cup Mirrored : \E i \in 1..Len(Plan) : Plan[i] = <<"css", p>>
<1>0. W \in Nat /\ M \in Nat /\ Len(Plan) = W + M + M + (W + M)
      /\ DOMAIN WalkOrder = 1..W /\ DOMAIN MirrorOrder = 1..M
  BY OrdersAreSeqs, PlanAt DEF W, M
<1>1. ASSUME NEW p \in Walked
      PROVE  /\ \E i \in 1..Len(Plan) : i <= W /\ Plan[i] = <<"walk", p>>
             /\ \E i \in 1..Len(Plan) : Plan[i] = <<"css", p>>
  <2>1. PICK j \in 1..W : WalkOrder[j] = p
    BY <1>0 DEF Walked, ToSet
  <2>2. j \in 1..Len(Plan) /\ j <= W /\ j \in 1..W + M /\ W + M + M + j \in 1..Len(Plan)
    BY <1>0
  <2>3. Plan[j] = <<"walk", p>> /\ Plan[W + M + M + j] = <<"css", p>>
    BY <2>1, <2>2, OrdersAreSeqs, PlanAt
  <2> QED BY <2>2, <2>3
<1>2. ASSUME NEW p \in Mirrored
      PROVE  /\ \E i \in 1..Len(Plan) : i <= W + M /\ Plan[i] = <<"mirror", p>>
             /\ \E i \in 1..Len(Plan) : i <= W + M + M /\ Plan[i] = <<"enrol", p>>
             /\ \E i \in 1..Len(Plan) : Plan[i] = <<"css", p>>
  <2>1. PICK j \in 1..M : MirrorOrder[j] = p
    BY <1>0 DEF Mirrored, ToSet
  <2>2. /\ W + j \in 1..Len(Plan) /\ W + j <= W + M /\ W + M + j \in 1..Len(Plan)
        /\ W + M + j <= W + M + M /\ W + j \in 1..W + M /\ W + M + M + (W + j) \in 1..Len(Plan)
    BY <1>0
  <2>3. Plan[W + j] = <<"mirror", p>> /\ Plan[W + M + j] = <<"enrol", p>>
    BY <2>1, PlanAt
  <2>4. Plan[W + M + M + (W + j)] = <<"css", p>>
    BY <2>1, <2>2, OrdersAreSeqs, PlanAt
  <2> QED BY <2>2, <2>3, <2>4
<1> QED BY <1>1, <1>2

\* No step is planned twice.
LEMMA PlanOnce ==
  ASSUME NEW i \in 1..Len(Plan), NEW j \in 1..Len(Plan), Plan[i] = Plan[j]
  PROVE  i = j
<1>0. W \in Nat /\ M \in Nat /\ DOMAIN Both = 1..W + M /\ Len(Plan) \in Nat
  BY OrdersAreSeqs, PlanAt
<1>1. \A k, l \in 1..W + M : Both[k] = Both[l] => k = l
  BY <1>0, WalkAssumption DEF IsInjective, Both
<1>2. \A k, l \in 1..W : WalkOrder[k] = WalkOrder[l] => k = l
  BY <1>0, <1>1, OrdersAreSeqs
<1>3. ASSUME NEW k \in 1..M, NEW l \in 1..M, MirrorOrder[k] = MirrorOrder[l] PROVE k = l
  <2>1. W + k \in 1..W + M /\ W + l \in 1..W + M /\ Both[W + k] = Both[W + l]
    BY <1>0, <1>3, OrdersAreSeqs
  <2> QED BY <1>0, <1>1, <2>1
<1>4. PICK pass, p : Plan[i] = <<pass, p>>
  BY PlanParts
<1>5. Plan[j] = <<pass, p>>
  BY <1>4
<1>6. pass \in Passes
  BY <1>4, PlanMeans
<1>7. CASE pass = "walk"
  <2>1. i \in 1..W /\ p = WalkOrder[i] /\ j \in 1..W /\ p = WalkOrder[j]
    BY <1>4, <1>5, <1>7, PlanMeans
  <2> QED BY <1>2, <2>1
<1>8. CASE pass = "mirror"
  <2>1. W < i /\ i <= W + M /\ p = MirrorOrder[i - W] /\ W < j /\ j <= W + M /\ p = MirrorOrder[j - W]
    BY <1>4, <1>5, <1>8, PlanMeans
  <2>2. i - W \in 1..M /\ j - W \in 1..M
    BY <1>0, <2>1
  <2>3. i - W = j - W
    BY <1>3, <2>1, <2>2
  <2> QED BY <1>0, <2>3
<1>9. CASE pass = "enrol"
  <2>1. /\ W + M < i /\ i <= W + M + M /\ p = MirrorOrder[i - W - M]
        /\ W + M < j /\ j <= W + M + M /\ p = MirrorOrder[j - W - M]
    BY <1>4, <1>5, <1>9, PlanMeans
  <2>2. i - W - M \in 1..M /\ j - W - M \in 1..M
    BY <1>0, <2>1
  <2>3. i - W - M = j - W - M
    BY <1>3, <2>1, <2>2
  <2> QED BY <1>0, <2>3
<1>10. CASE pass = "css"
  <2>1. /\ W + M + M < i /\ p = Both[i - W - M - M]
        /\ W + M + M < j /\ p = Both[j - W - M - M]
    BY <1>4, <1>5, <1>10, PlanMeans
  <2>2. i - W - M - M \in 1..W + M /\ j - W - M - M \in 1..W + M
    BY <1>0, <2>1, PlanAt
  <2>3. i - W - M - M = j - W - M - M
    BY <1>1, <2>1, <2>2
  <2> QED BY <1>0, <2>3
<1> QED BY <1>6, <1>7, <1>8, <1>9, <1>10 DEF Passes

LEMMA Disjoint == Walked \cap Mirrored = {} /\ Walked \subseteq Paths /\ Mirrored \subseteq Paths \ Dirs
<1>0. W \in Nat /\ M \in Nat /\ DOMAIN Both = 1..W + M
      /\ DOMAIN WalkOrder = 1..W /\ DOMAIN MirrorOrder = 1..M
  BY OrdersAreSeqs DEF W, M
<1>1. ASSUME NEW p \in Walked, p \in Mirrored PROVE FALSE
  <2>1. PICK k \in 1..W, l \in 1..M : WalkOrder[k] = p /\ MirrorOrder[l] = p
    BY <1>0, <1>1 DEF Walked, Mirrored, ToSet
  <2>2. k \in 1..W + M /\ W + l \in 1..W + M /\ Both[k] = Both[W + l]
    BY <1>0, <2>1, OrdersAreSeqs
  <2>3. k = W + l
    BY <1>0, <2>2, WalkAssumption DEF IsInjective, Both
  <2> QED BY <1>0, <2>3
<1>2. Walked \subseteq Paths
  BY <1>0, OrdersAreSeqs DEF Walked, ToSet
<1>3. Mirrored \subseteq Paths \ Dirs
  <2>1. \A l \in 1..M : MirrorOrder[l] \in Paths \ Dirs
    BY ShadowAssumption, LenProperties DEF M
  <2> QED BY <1>0, <2>1 DEF Mirrored, ToSet
<1> QED BY <1>1, <1>2, <1>3

-----------------------------------------------------------------------------
(* What a call has done.  A file that waits for its stat is materialised.  *)

Passed(pass, p) ==
    \E i \in 1..Len(Plan) : Plan[i] = <<pass, p>> /\ (i < at \/ (i = at /\ pending # None))

\* Of the steps that are not behind yet, a call does the one it is at.
Moved(pass, p) == \A q, r : Passed(q, r)' <=> Passed(q, r) \/ (q = pass /\ r = p)
Stayed == \A q, r : Passed(q, r)' <=> Passed(q, r)

LEMMA PlanIsConstant == Plan' = Plan /\ Len(Plan) \in Nat
BY PlanIsASeq DEF Plan

LEMMA VisitPasses ==
  ASSUME NEW pass, NEW p, Here(pass, p),
         \/ at' = at + 1 /\ pending' = None
         \/ at' = at /\ pending' # None
  PROVE  Moved(pass, p)
<1>1. at \in 1..Len(Plan) /\ pending = None /\ Plan[at] = <<pass, p>> /\ Len(Plan) \in Nat
  BY PlanIsConstant DEF Here
<1>2. \A i \in 1..Len(Plan) : (i < at' \/ (i = at' /\ pending' # None)) <=> (i < at \/ i = at)
  BY <1>1
<1> SUFFICES ASSUME NEW q, NEW r PROVE Passed(q, r)' <=> Passed(q, r) \/ (q = pass /\ r = p)
  BY DEF Moved
<1>3. Passed(q, r)' <=> \E i \in 1..Len(Plan) : Plan[i] = <<q, r>> /\ (i < at \/ i = at)
  BY <1>2, PlanIsConstant DEF Passed
<1>4. Passed(q, r) <=> \E i \in 1..Len(Plan) : Plan[i] = <<q, r>> /\ i < at
  BY <1>1 DEF Passed
<1> QED BY <1>1, <1>3, <1>4

LEMMA StorePasses ==
  ASSUME at \in 1..Len(Plan), pending # None, at' = at + 1, pending' = None
  PROVE  Stayed
<1>1. \A i \in 1..Len(Plan) : (i < at' \/ (i = at' /\ pending' # None)) <=> (i < at \/ (i = at /\ pending # None))
  BY PlanIsConstant
<1> QED BY <1>1, PlanIsConstant DEF Stayed, Passed

LEMMA RestPasses ==
  ASSUME UNCHANGED <<at, pending>>
  PROVE  Stayed
BY PlanIsConstant DEF Stayed, Passed

\* Past the plan every step is behind.
LEMMA AllPassed ==
  ASSUME at \in Nat, at > Len(Plan)
  PROVE  /\ \A p \in Walked : Passed("walk", p)
         /\ \A p \in Mirrored : Passed("mirror", p) /\ Passed("enrol", p)
         /\ \A p \in Walked \cup Mirrored : Passed("css", p)
<1>1. \A i \in 1..Len(Plan) : i < at
  BY PlanIsConstant
<1> QED BY <1>1, PlanHas DEF Passed

\* What lies before a step, and what behind.
LEMMA HereOrder ==
  ASSUME NEW pass, NEW p, Here(pass, p)
  PROVE  /\ pass \in Passes /\ ~Passed(pass, p)
         /\ pass = "walk" =>
              /\ p \in Walked /\ \A d \in Above[p] : d \in Walked /\ Passed("walk", d)
              /\ \A q : ~Passed("mirror", q) /\ ~Passed("enrol", q) /\ ~Passed("css", q)
         /\ pass = "mirror" =>
              /\ p \in Mirrored /\ \A q \in Walked : Passed("walk", q)
              /\ \A q : ~Passed("enrol", q) /\ ~Passed("css", q)
         /\ pass = "enrol" =>
              /\ p \in Mirrored /\ \A q \in Walked : Passed("walk", q)
              /\ \A q \in Mirrored : Passed("mirror", q)
              /\ \A q : ~Passed("css", q)
         /\ pass = "css" =>
              /\ p \in Walked \cup Mirrored /\ \A q \in Walked : Passed("walk", q)
              /\ \A q \in Mirrored : Passed("mirror", q) /\ Passed("enrol", q)
<1>0. /\ at \in 1..Len(Plan) /\ pending = None /\ Plan[at] = <<pass, p>> /\ Len(Plan) \in Nat
      /\ W \in Nat /\ M \in Nat
  BY PlanIsConstant, OrdersAreSeqs DEF Here
<1>1. \A q, r : Passed(q, r) <=> \E i \in 1..Len(Plan) : Plan[i] = <<q, r>> /\ i < at
  BY <1>0 DEF Passed
<1>2. pass \in Passes /\ ~Passed(pass, p)
  <2>1. pass \in Passes
    BY <1>0, PlanMeans
  <2>2. ASSUME NEW i \in 1..Len(Plan), Plan[i] = <<pass, p>>, i < at PROVE FALSE
    BY <1>0, <2>2, PlanOnce
  <2> QED BY <1>1, <2>1, <2>2
<1>4. /\ W < at => \A q \in Walked : Passed("walk", q)
      /\ W + M < at => \A q \in Mirrored : Passed("mirror", q)
      /\ W + M + M < at => \A q \in Mirrored : Passed("enrol", q)
  <2>1. ASSUME W < at, NEW q \in Walked PROVE Passed("walk", q)
    <3>1. PICK i \in 1..Len(Plan) : i <= W /\ Plan[i] = <<"walk", q>>
      BY PlanHas
    <3> QED BY <1>0, <1>1, <2>1, <3>1
  <2>2. ASSUME W + M < at, NEW q \in Mirrored PROVE Passed("mirror", q)
    <3>1. PICK i \in 1..Len(Plan) : i <= W + M /\ Plan[i] = <<"mirror", q>>
      BY PlanHas
    <3> QED BY <1>0, <1>1, <2>2, <3>1
  <2>3. ASSUME W + M + M < at, NEW q \in Mirrored PROVE Passed("enrol", q)
    <3>1. PICK i \in 1..Len(Plan) : i <= W + M + M /\ Plan[i] = <<"enrol", q>>
      BY PlanHas
    <3> QED BY <1>0, <1>1, <2>3, <3>1
  <2> QED BY <2>1, <2>2, <2>3
<1>5. /\ at <= W => \A q : ~Passed("mirror", q)
      /\ at <= W + M => \A q : ~Passed("enrol", q)
      /\ at <= W + M + M => \A q : ~Passed("css", q)
  <2>1. ASSUME at <= W, NEW q, Passed("mirror", q) PROVE FALSE
    <3>1. PICK i \in 1..Len(Plan) : Plan[i] = <<"mirror", q>> /\ i < at
      BY <1>1, <2>1
    <3>2. W < i
      BY <3>1, PlanMeans
    <3> QED BY <1>0, <2>1, <3>1, <3>2
  <2>2. ASSUME at <= W + M, NEW q, Passed("enrol", q) PROVE FALSE
    <3>1. PICK i \in 1..Len(Plan) : Plan[i] = <<"enrol", q>> /\ i < at
      BY <1>1, <2>2
    <3>2. W + M < i
      BY <3>1, PlanMeans
    <3> QED BY <1>0, <2>2, <3>1, <3>2
  <2>3. ASSUME at <= W + M + M, NEW q, Passed("css", q) PROVE FALSE
    <3>1. PICK i \in 1..Len(Plan) : Plan[i] = <<"css", q>> /\ i < at
      BY <1>1, <2>3
    <3>2. W + M + M < i
      BY <3>1, PlanMeans
    <3> QED BY <1>0, <2>3, <3>1, <3>2
  <2> QED BY <2>1, <2>2, <2>3
<1>6. CASE pass = "walk"
  <2>1. at \in 1..W /\ p = WalkOrder[at] /\ p \in Walked
    BY <1>0, <1>6, PlanMeans
  <2>2. ASSUME NEW d \in Above[p] PROVE d \in Walked /\ Passed("walk", d)
    <3>1. PICK j \in 1..at-1 : WalkOrder[j] = d
      BY <2>1, <2>2, WalkAssumption DEF W
    <3>2. j \in 1..Len(Plan) /\ j \in 1..W /\ j < at /\ Plan[j] = <<"walk", d>>
      BY <1>0, <2>1, <3>1, PlanAt
    <3> QED BY <1>1, <3>2, PlanMeans
  <2>3. at <= W /\ at <= W + M /\ at <= W + M + M
    BY <1>0, <2>1
  <2> QED BY <1>2, <1>5, <1>6, <2>1, <2>2, <2>3
<1>7. CASE pass = "mirror"
  <2>1. W < at /\ at <= W + M /\ p \in Mirrored
    BY <1>0, <1>7, PlanMeans
  <2>2. at <= W + M + M
    BY <1>0, <2>1
  <2> QED BY <1>2, <1>4, <1>5, <1>7, <2>1, <2>2
<1>8. CASE pass = "enrol"
  <2>1. W + M < at /\ at <= W + M + M /\ p \in Mirrored
    BY <1>0, <1>8, PlanMeans
  <2>2. W < at
    BY <1>0, <2>1
  <2> QED BY <1>2, <1>4, <1>5, <1>8, <2>1, <2>2
<1>9. CASE pass = "css"
  <2>1. W + M + M < at /\ p \in Walked \cup Mirrored
    BY <1>0, <1>9, PlanMeans
  <2>2. W < at /\ W + M < at
    BY <1>0, <2>1
  <2> QED BY <1>2, <1>4, <1>9, <2>1, <2>2
<1> QED BY <1>2, <1>6, <1>7, <1>8, <1>9 DEF Passes

-----------------------------------------------------------------------------
(* The sources and their stamps.                                           *)

Dated ==
    /\ IsTree(src) /\ IsTree(seen)
    /\ \A p \in Paths : stamp[p] \in 1..clock
    /\ aside # None =>
         /\ aside.path \in Movable /\ aside.text \in TextsOf[aside.path] /\ aside.stamp \in 1..clock
         /\ src[aside.path] # Absent => aside.stamp < stamp[aside.path]

\* As long as q has the stat k, it is v.
Agrees(q, k, v) ==
    /\ k \in 0..clock /\ (k = 0 => v = Absent)
    /\ Stat(q) = k => src[q] = v
    /\ aside # None /\ aside.path = q /\ aside.stamp = k => aside.text = v

\* No edit takes that back, unless it preserves the stamp; and a path that
\* becomes a directory has a stamp it never had.
Traced ==
    /\ \A q \in Paths : \A k, v : q \notin Preserving /\ Agrees(q, k, v) => Agrees(q, k, v)'
    /\ \A q \in Paths : /\ src'[q] = Dir => stamp'[q] = clock + 1 \/ (src[q] = Dir /\ stamp'[q] = stamp[q])
                        /\ q \notin Movable => stamp'[q] >= stamp[q]

LEMMA NewTree ==
  ASSUME NEW s \in Sources, IsTree(s), NEW p \in Paths, NEW c \in Texts \cup {Dir},
         \A d \in Above[p] : s[d] = Dir, s[p] # Dir,
         c = Dir => p \in Dirs, c \in Texts => c \in TextsOf[p]
  PROVE  IsTree([s EXCEPT ![p] = c])
<1> DEFINE u == [s EXCEPT ![p] = c]
<1>1. \A q \in Paths : u[q] = IF q = p THEN c ELSE s[q]
  BY DEF Sources
<1>2. p \notin Above[p] /\ \A q \in Paths : Above[q] \subseteq Paths
  BY ShadowAssumption DEF Places
<1>3. ASSUME NEW q \in Paths, u[q] # Absent, NEW d \in Above[q] PROVE u[d] = Dir
  <2>1. CASE q = p
    BY <1>1, <1>2, <1>3, <2>1
  <2>2. CASE q # p
    <3>1. s[q] # Absent /\ s[d] = Dir /\ d \in Paths
      BY <1>1, <1>2, <1>3, <2>2 DEF IsTree
    <3> QED BY <1>1, <3>1
  <2> QED BY <2>1, <2>2
<1>4. \A q \in Paths : (u[q] = Dir => q \in Dirs) /\ (u[q] \in Texts => u[q] \in TextsOf[q])
  BY <1>1, ShadowAssumption DEF IsTree
<1> HIDE DEF u
<1>5. IsTree(u)
  BY <1>3, <1>4 DEF IsTree
<1> QED BY <1>5 DEF u

LEMMA EditTraces ==
  ASSUME Inv, Dated, Edit
  PROVE  Dated' /\ Traced /\ clock' = clock + 1
<1>0. /\ clock \in Nat /\ stamp \in [Paths -> Nat] /\ src \in Sources /\ Kept
      /\ Absent \notin Texts /\ Dir \notin Texts /\ Absent # Dir
      /\ None \notin Paths /\ Dirs \subseteq Paths
      /\ \A q \in Paths : stamp[q] >= 1 /\ stamp[q] <= clock
      /\ \A q \in Paths : Above[q] \subseteq Dirs
  BY ShadowAssumption, WalkAssumption DEF Inv, TypeOK, Read, Dated, Places
<1>1. clock' = clock + 1 /\ seen' = seen /\ src' \in Sources
  <2>1. seen' = seen /\ clock' = clock + 1
    BY DEF Edit, Save, MakeDir, Delete, MoveAway, MoveBack, Edited, input
  <2>2. src' \in Sources
    BY EditStep DEF Inv, Read
  <2> QED BY <2>1, <2>2
<1> DEFINE Fine == /\ IsTree(src')
                   /\ \A q \in Paths : stamp'[q] \in 1..clock + 1
                   /\ (aside # None => aside.path \in Movable /\ aside.text \in TextsOf[aside.path]
                                        /\ aside.stamp \in 1..clock
                                        /\ (src[aside.path] # Absent => aside.stamp < stamp[aside.path]))'
<1>2. Fine => Dated'
  BY <1>1 DEF Dated
<1>3. ASSUME NEW p \in Paths, NEW c \in Texts \cup {Dir}, src' = [src EXCEPT ![p] = c], src[p] # Dir,
             \A d \in Above[p] : src[d] = Dir, c = Dir => p \in Dirs, c \in Texts => c \in TextsOf[p],
             \/ stamp' = [stamp EXCEPT ![p] = clock + 1]
             \/ stamp' = stamp /\ p \in Preserving /\ src[p] \in Texts /\ c \in Texts,
             aside' = aside
      PROVE  Fine /\ Traced
  <2>1. IsTree(src')
    BY <1>0, <1>3, NewTree DEF Dated
  <2>2. /\ \A q \in Paths : q # p => src'[q] = src[q] /\ stamp'[q] = stamp[q]
        /\ src'[p] = c
        /\ \/ stamp'[p] = clock + 1
           \/ stamp'[p] = stamp[p] /\ p \in Preserving /\ src[p] \in Texts /\ c \in Texts
    <3>1. \A q \in Paths : src'[q] = IF q = p THEN c ELSE src[q]
      BY <1>0, <1>3 DEF Sources
    <3>2. CASE stamp' = [stamp EXCEPT ![p] = clock + 1]
      <4>1. stamp \in [Paths -> Nat]
        BY <1>0
      <4>2. \A q \in Paths : stamp'[q] = IF q = p THEN clock + 1 ELSE stamp[q]
        BY <3>2, <4>1
      <4> QED BY <3>1, <4>2
    <3>3. CASE stamp' = stamp /\ p \in Preserving /\ src[p] \in Texts /\ c \in Texts
      BY <3>1, <3>3
    <3> QED BY <1>3, <3>2, <3>3
  <2>3. \A q \in Paths : stamp'[q] \in 1..clock + 1 /\ stamp'[q] >= stamp[q]
    BY <1>0, <2>2
  <2>4. (aside # None => aside.path \in Movable /\ aside.text \in TextsOf[aside.path]
                          /\ aside.stamp \in 1..clock
                          /\ (src[aside.path] # Absent => aside.stamp < stamp[aside.path]))'
    <3> SUFFICES ASSUME aside # None
                 PROVE  /\ aside.path \in Movable /\ aside.text \in TextsOf[aside.path]
                        /\ aside.stamp \in 1..clock + 1
                        /\ (src'[aside.path] # Absent => aside.stamp < stamp'[aside.path])
      BY <1>1, <1>3
    <3>1. /\ aside.path \in Movable /\ aside.text \in TextsOf[aside.path] /\ aside.stamp \in 1..clock
          /\ aside.path \in Paths
          /\ (src[aside.path] # Absent => aside.stamp < stamp[aside.path])
      BY ShadowAssumption DEF Dated
    <3>2. CASE aside.path # p
      BY <1>0, <2>2, <3>1, <3>2
    <3>3. CASE aside.path = p
      BY <1>0, <2>2, <3>1, <3>3
    <3> QED BY <3>2, <3>3
  <2>5. ASSUME NEW q \in Paths, NEW k, NEW v, q \notin Preserving, Agrees(q, k, v)
        PROVE  Agrees(q, k, v)'
    <3>1. k \in 0..clock + 1 /\ (k = 0 => v = Absent)
          /\ (aside # None /\ aside.path = q /\ aside.stamp = k => aside.text = v)
      BY <1>0, <2>5 DEF Agrees
    <3>2. CASE q # p
      <4>1. Stat(q)' = Stat(q) /\ src'[q] = src[q]
        BY <2>2, <3>2 DEF Stat
      <4> QED BY <1>1, <1>3, <2>5, <3>1, <4>1 DEF Agrees
    <3>3. CASE q = p
      <4>1. Stat(q)' = clock + 1 /\ k # clock + 1
        BY <1>0, <2>2, <2>5, <3>3 DEF Agrees, Stat
      <4> QED BY <1>1, <1>3, <3>1, <4>1 DEF Agrees
    <3> QED BY <3>2, <3>3
  <2>6. \A q \in Paths : src'[q] = Dir => stamp'[q] = clock + 1 \/ (src[q] = Dir /\ stamp'[q] = stamp[q])
    BY <1>0, <2>2
  <2> QED BY <2>1, <2>3, <2>4, <2>5, <2>6 DEF Traced
<1>4. ASSUME NEW p \in Paths, Save(p) PROVE Fine /\ Traced
  <2>1. PICK t \in TextsOf[p] \ {src[p]} : Edited([src EXCEPT ![p] = t])
    BY <1>4 DEF Save
  <2>2. t \in Texts /\ t # Dir /\ src' = [src EXCEPT ![p] = t]
    BY <1>0, <2>1, ShadowAssumption DEF Edited
  <2>3. src[p] # Dir /\ (\A d \in Above[p] : src[d] = Dir) /\ aside' = aside
        /\ (\/ stamp' = [stamp EXCEPT ![p] = clock + 1]
            \/ stamp' = stamp /\ p \in Preserving /\ src[p] \in Texts)
    BY <1>4 DEF Save, Reachable, IsFile
  <2> QED BY <1>3, <2>1, <2>2, <2>3
<1>5. ASSUME NEW p \in Paths, MakeDir(p) PROVE Fine /\ Traced
  <2>1. src' = [src EXCEPT ![p] = Dir] /\ src[p] # Dir /\ (\A d \in Above[p] : src[d] = Dir)
        /\ stamp' = [stamp EXCEPT ![p] = clock + 1] /\ aside' = aside /\ p \in Dirs
    BY <1>0, <1>5 DEF MakeDir, Edited, Reachable
  <2>2. Dir \in Texts \cup {Dir}
    OBVIOUS
  <2> QED BY <1>0, <1>3, <2>1, <2>2
<1>6. ASSUME NEW p \in Paths, Delete(p) PROVE Fine /\ Traced
  <2>1. stamp' = stamp /\ aside' = aside
        /\ src' = [q \in Paths |-> IF q = p \/ p \in Above[q] THEN Absent ELSE src[q]]
    BY <1>6 DEF Delete, Edited
  <2>2. \A q \in Paths : src'[q] = src[q] \/ src'[q] = Absent
    BY <2>1
  <2>3. IsTree(src')
    <3>1. ASSUME NEW q \in Paths, src'[q] # Absent, NEW d \in Above[q] PROVE src'[d] = Dir
      <4>1. q # p /\ p \notin Above[q] /\ src[q] # Absent /\ d \in Paths
        BY <1>0, <2>1, <3>1
      <4>2. d # p /\ p \notin Above[d] /\ src[d] = Dir
        BY <3>1, <4>1, WalkAssumption DEF Dated, IsTree
      <4> QED BY <2>1, <4>1, <4>2
    <3> QED BY <1>0, <2>2, <3>1 DEF Dated, IsTree
  <2>4. \A q \in Paths : stamp'[q] \in 1..clock + 1
    BY <1>0, <2>1
  <2>5. (aside # None => aside.path \in Movable /\ aside.text \in TextsOf[aside.path]
                          /\ aside.stamp \in 1..clock
                          /\ (src[aside.path] # Absent => aside.stamp < stamp[aside.path]))'
    <3>1. aside # None => aside.path \in Paths /\ aside.stamp \in 1..clock + 1
      BY <1>0, ShadowAssumption DEF Dated
    <3> QED BY <1>1, <2>1, <2>2, <3>1 DEF Dated
  <2>6. ASSUME NEW q \in Paths, NEW k, NEW v, Agrees(q, k, v) PROVE Agrees(q, k, v)'
    <3>1. k \in 0..clock + 1 /\ (k = 0 => v = Absent)
          /\ (aside # None /\ aside.path = q /\ aside.stamp = k => aside.text = v)
      BY <1>0, <2>6 DEF Agrees
    <3>2. CASE src'[q] = src[q]
      BY <1>0, <1>1, <2>1, <2>6, <3>1, <3>2 DEF Agrees, Stat
    <3>3. CASE src'[q] = Absent
      BY <1>0, <1>1, <2>1, <2>6, <3>1, <3>3 DEF Agrees, Stat
    <3> QED BY <2>2, <3>2, <3>3
  <2>7. \A q \in Paths : /\ src'[q] = Dir => src[q] = Dir /\ stamp'[q] = stamp[q]
                         /\ stamp'[q] >= stamp[q]
    BY <1>0, <2>1, <2>2
  <2> QED BY <2>3, <2>4, <2>5, <2>6, <2>7 DEF Traced
<1>7. ASSUME NEW p \in Paths, MoveAway(p) PROVE Fine /\ Traced
  <2>1. /\ stamp' = stamp /\ src' = [src EXCEPT ![p] = Absent] /\ src[p] \in Texts /\ p \in Movable
        /\ aside = None /\ aside' = [path |-> p, text |-> src[p], stamp |-> stamp[p]]
    BY <1>7 DEF MoveAway, Edited, IsFile
  <2>2. \A q \in Paths : src'[q] = IF q = p THEN Absent ELSE src[q]
    BY <1>0, <2>1 DEF Sources
  <2>3. IsTree(src')
    <3>1. ASSUME NEW q \in Paths, src'[q] # Absent, NEW d \in Above[q] PROVE src'[d] = Dir
      <4>1. src[q] # Absent /\ d \in Paths
        BY <1>0, <2>2, <3>1
      <4>2. src[d] = Dir /\ d # p
        BY <1>0, <2>1, <3>1, <4>1 DEF Dated, IsTree
      <4> QED BY <2>2, <4>1, <4>2
    <3> QED BY <1>0, <2>2, <3>1 DEF Dated, IsTree
  <2>4. /\ aside'.path = p /\ aside'.text = src[p] /\ aside'.stamp = stamp[p]
        /\ aside'.text \in TextsOf[p]
    BY <2>1 DEF Dated, IsTree
  <2>5. (aside # None => aside.path \in Movable /\ aside.text \in TextsOf[aside.path]
                          /\ aside.stamp \in 1..clock
                          /\ (src[aside.path] # Absent => aside.stamp < stamp[aside.path]))'
    <3>1. aside'.stamp \in 1..clock + 1 /\ aside'.path \in Movable /\ src'[aside'.path] = Absent
      BY <1>0, <2>1, <2>2, <2>4
    <3> QED BY <1>1, <2>4, <3>1
  <2>6. ASSUME NEW q \in Paths, NEW k, NEW v, Agrees(q, k, v) PROVE Agrees(q, k, v)'
    <3>1. k \in 0..clock + 1 /\ (k = 0 => v = Absent)
      BY <1>0, <2>6 DEF Agrees
    <3>2. CASE q # p
      BY <1>0, <1>1, <2>1, <2>2, <2>4, <2>6, <3>1, <3>2 DEF Agrees, Stat
    <3>3. CASE q = p
      <4>1. Stat(q)' = 0 /\ src'[q] = Absent
        BY <1>0, <2>2, <3>3 DEF Stat
      <4>2. Stat(q) = stamp[p] /\ (stamp[p] = k => src[p] = v)
        BY <1>0, <2>1, <2>6, <3>3 DEF Agrees, Stat
      <4> QED BY <1>1, <2>4, <3>1, <4>1, <4>2 DEF Agrees
    <3> QED BY <3>2, <3>3
  <2>7. \A q \in Paths : /\ stamp'[q] \in 1..clock + 1 /\ stamp'[q] >= stamp[q]
                         /\ src'[q] = Dir => src[q] = Dir /\ stamp'[q] = stamp[q]
    BY <1>0, <2>1, <2>2
  <2> QED BY <2>3, <2>5, <2>6, <2>7 DEF Traced
<1>8. ASSUME MoveBack PROVE Fine /\ Traced
  <2> DEFINE p == aside.path
  <2>1. /\ aside # None /\ aside' = None /\ p \in Paths /\ aside.text \in TextsOf[p] /\ p \in Movable
        /\ aside.stamp \in 1..clock /\ src[p] = Absent /\ \A d \in Above[p] : src[d] = Dir
        /\ stamp' = [stamp EXCEPT ![p] = aside.stamp] /\ src' = [src EXCEPT ![p] = aside.text]
    BY <1>8, ShadowAssumption DEF MoveBack, Edited, Reachable, Dated
  <2>2. aside.text \in Texts /\ aside.text # Dir
    BY <1>0, <2>1, ShadowAssumption
  <2>3. IsTree(src')
    BY <1>0, <2>1, <2>2, NewTree DEF Dated
  <2>4. \A q \in Paths : /\ src'[q] = IF q = p THEN aside.text ELSE src[q]
                         /\ stamp'[q] = IF q = p THEN aside.stamp ELSE stamp[q]
    BY <1>0, <2>1 DEF Sources
  <2>5. ASSUME NEW q \in Paths, NEW k, NEW v, Agrees(q, k, v) PROVE Agrees(q, k, v)'
    <3>1. k \in 0..clock + 1 /\ (k = 0 => v = Absent)
      BY <1>0, <2>5 DEF Agrees
    <3>2. CASE q # p
      BY <1>0, <1>1, <2>1, <2>4, <2>5, <3>1, <3>2 DEF Agrees, Stat
    <3>3. CASE q = p
      <4>1. Stat(q)' = aside.stamp /\ src'[q] = aside.text
        BY <1>0, <2>2, <2>4, <3>3 DEF Stat
      <4>2. aside.stamp = k => aside.text = v
        BY <2>1, <2>5, <3>3 DEF Agrees
      <4> QED BY <1>1, <2>1, <3>1, <4>1, <4>2 DEF Agrees
    <3> QED BY <3>2, <3>3
  <2>6. \A q \in Paths : /\ stamp'[q] \in 1..clock + 1 /\ (q \notin Movable => stamp'[q] >= stamp[q])
                         /\ src'[q] = Dir => src[q] = Dir /\ stamp'[q] = stamp[q]
    BY <1>0, <2>1, <2>2, <2>4
  <2> QED BY <2>1, <2>3, <2>5, <2>6 DEF Traced
<1> QED BY <1>1, <1>2, <1>4, <1>5, <1>6, <1>7, <1>8 DEF Edit

LEMMA CompiledIsContents ==
  ASSUME NEW s \in Sources, NEW t \in Texts, settings \in Settings
  PROVE  Compiled(s, t) \in Contents
BY ShadowAssumption DEF Compiled, Content, Contents, Sources

\* What Materialise leaves for Store.
LEMMA PendingIsUnstored ==
  ASSUME Inv, NEW p \in Paths, Materialise(p)
  PROVE  pending' \in Unstored /\ pending'.pass = "materialise"
<1>1. settings \in Settings /\ src \in Sources /\ src[p] \in Texts
  BY HereMeans DEF Inv, Read, Materialise, Due, IsFile
<1>2. Specifier(src, p) \in Paths \X Contents
  BY <1>1, CompiledIsContents DEF Specifier
<1>3. Ref[src[p]] \in Paths \cup {None}
  BY <1>1, ShadowAssumption
<1> QED BY <1>2, <1>3 DEF Materialise, Unstored

LEMMA PrunePasses ==
  ASSUME at \in Nat, at > Len(Plan), at' = at + 1, UNCHANGED pending
  PROVE  Stayed
<1>1. \A i \in 1..Len(Plan) : i < at /\ i < at'
  BY PlanIsConstant
<1> QED BY <1>1, PlanIsConstant DEF Stayed, Passed

Ahead == at' = at + 1 /\ pending' = None
Held  == at' = at /\ pending' # None

\* A visit is at one step, and leaves the sources and the session alone.
LEMMA VisitFrame ==
  ASSUME Inv, NEW p \in Paths, Visit(p)
  PROVE  /\ UNCHANGED <<src, stamp, clock, aside, session, input, skip>> /\ at # 0 /\ at' # 0
         /\ \E pass \in Passes : Here(pass, p) /\ (Ahead \/ Held) /\ Moved(pass, p)
<1>1. src' = src
  BY VisitStep
<1>2. UNCHANGED <<stamp, clock, aside, session, input, skip>>
  BY DEF Visit, EnterDir, PassBy, Reuse, Materialise, KeepMirror, Mirror, RewriteCss, disk, caches
<1>3. \E pass \in Passes : Here(pass, p) /\ (Ahead \/ Held)
  <2> USE DEF Ahead, Held, Advance, Here, Passes
  <2>1. CASE EnterDir(p)
    BY <2>1 DEF EnterDir
  <2>2. CASE PassBy(p)
    BY <2>2 DEF PassBy
  <2>3. CASE Reuse(p)
    BY <2>3 DEF Reuse, Due
  <2>4. CASE Materialise(p)
    <3>1. PICK pass \in Passes : Here(pass, p)
      BY <2>4 DEF Materialise, Due
    <3>2. at' = at
      BY <2>4 DEF Materialise
    <3>3. pending' # None
      BY <2>4, PendingIsUnstored, WalkAssumption
    <3> QED BY <3>1, <3>2, <3>3
  <2>5. CASE KeepMirror(p)
    BY <2>5 DEF KeepMirror
  <2>6. CASE Mirror(p)
    <3>1. [pass |-> "mirror"] # None
      BY WalkAssumption DEF Unstored
    <3> QED BY <2>6, <3>1 DEF Mirror
  <2>7. CASE RewriteCss(p)
    BY <2>7 DEF RewriteCss
  <2> QED BY <2>1, <2>2, <2>3, <2>4, <2>5, <2>6, <2>7 DEF Visit
<1>4. PICK pass \in Passes : Here(pass, p) /\ (Ahead \/ Held)
  BY <1>3
<1>5. Moved(pass, p)
  BY <1>4, VisitPasses DEF Ahead, Held
<1>6. at # 0 /\ at' # 0
  BY <1>4, PlanIsConstant DEF Here, Ahead, Held
<1> QED BY <1>1, <1>2, <1>4, <1>5, <1>6

-----------------------------------------------------------------------------
(* The bridge.                                                             *)

\* What is remembered of an entry names it, and a text that parsed.
Imported(p, i) ==
    IF Kind[p] = "collection" THEN i # None /\ i[1] = p /\ i[2].of \notin Broken ELSE i = None

Named ==
    /\ \A p \in Paths : skip[p] # None => Imported(p, skip[p].import)
    /\ pending # None =>
         /\ pending.pass \in {"mirror", "materialise"}
         /\ pending.pass = "materialise" /\ pending.keep => Imported(Plan[at][2], pending.import)

Parsed(p) == Kind[p] = "collection" /\ IsFile(p) /\ src[p] \notin Broken

\* As long as nothing is edited, the walk has entered the directories and
\* bridged the entries that are behind.
Collecting ==
    at # 0 /\ clock = opened =>
      /\ src = seen
      /\ \A p \in Walked : Passed("walk", p) /\ src[p] = Dir => p \in entered
      /\ bridge = {Specifier(src, p) : p \in {q \in Walked : Parsed(q) /\ Passed("walk", q)}}

LEMMA KindsDiffer == "source" \notin Markdown /\ "css" \notin Markdown /\ "source" # "collection"
BY DEF Markdown

LEMMA DatedFrame ==
  ASSUME Dated, UNCHANGED <<src, stamp, clock, aside, seen>>
  PROVE  Dated'
BY DEF Dated, IsTree

LEMMA Entered ==
  ASSUME Inv, Dated, Collecting, clock = opened, NEW p \in Paths, Here("walk", p), src[p] # Absent
  PROVE  Enumerated(p)
<1>1. \A d \in Above[p] : d \in Walked /\ Passed("walk", d) /\ src[d] = Dir
  BY HereOrder DEF Dated, IsTree
<1>2. at # 0
  BY HereMeans
<1> QED BY <1>1, <1>2 DEF Collecting, Enumerated

LEMMA CollectMove ==
  ASSUME Inv, Collecting, NEW pass, NEW p, Here(pass, p), Moved(pass, p),
         UNCHANGED <<src, clock, session, input>>, entered \subseteq entered',
         clock = opened => /\ pass = "walk" /\ src[p] = Dir => p \in entered'
                           /\ bridge' = bridge \cup (IF pass = "walk" /\ Parsed(p)
                                                       THEN {Specifier(src, p)} ELSE {})
  PROVE  Collecting'
<1> SUFFICES ASSUME clock = opened
             PROVE  /\ (src = seen)'
                    /\ \A q \in Walked : Passed("walk", q)' /\ src'[q] = Dir => q \in entered'
                    /\ bridge' = {Specifier(src, q) : q \in {r \in Walked : Parsed(r) /\ Passed("walk", r)}}'
  BY DEF Collecting, input
<1>1. at # 0
  BY HereMeans
<1>2. (src = seen)'
  BY <1>1 DEF Collecting, input
<1>3. \A q \in Walked : Passed("walk", q)' /\ src'[q] = Dir => q \in entered'
  BY <1>1 DEF Collecting, Moved
<1>4. \A q : Specifier(src, q)' = Specifier(src, q) /\ (Parsed(q)' <=> Parsed(q))
  BY DEF Specifier, Compiled, Parsed, IsFile, session
<1>5. pass = "walk" => p \in Walked
  BY HereOrder
<1>6. {r \in Walked : Parsed(r) /\ Passed("walk", r)}'
        = {r \in Walked : Parsed(r) /\ Passed("walk", r)}
            \cup (IF pass = "walk" /\ Parsed(p) THEN {p} ELSE {})
  BY <1>4, <1>5 DEF Moved
<1> DEFINE A == {r \in Walked : Parsed(r) /\ Passed("walk", r)}
           B == A'
<1>7. bridge = {Specifier(src, q) : q \in A}
  BY <1>1 DEF Collecting
<1>8. bridge' = {Specifier(src, q) : q \in B}
  <2>1. CASE pass = "walk" /\ Parsed(p)
    BY <1>6, <1>7, <2>1
  <2>2. CASE ~(pass = "walk" /\ Parsed(p))
    BY <1>6, <1>7, <2>2
  <2> QED BY <2>1, <2>2
<1>9. {Specifier(src, q) : q \in A}' = {Specifier(src, q) : q \in B}
  BY <1>4
<1> QED BY <1>2, <1>3, <1>8, <1>9

LEMMA CollectRest ==
  ASSUME Inv, Collecting, Stayed, at # 0, UNCHANGED <<src, clock, settings, input, entered, bridge>>
  PROVE  Collecting'
<1>1. \A q : Specifier(src, q)' = Specifier(src, q) /\ (Parsed(q)' <=> Parsed(q))
  BY DEF Specifier, Compiled, Parsed, IsFile
<1> DEFINE A == {r \in Walked : Parsed(r) /\ Passed("walk", r)}
<1>2. A' = A
  BY <1>1 DEF Stayed
<1>3. {Specifier(src, q) : q \in A}' = {Specifier(src, q) : q \in A}
  BY <1>1, <1>2
<1> QED BY <1>3 DEF Collecting, Stayed, input

\* What is remembered of an entry, found among the specifiers of the input.
LEMMA ImportIsSpecifier ==
  ASSUME NEW p \in Paths, Kind[p] = "collection", NEW i, Imported(p, i), i \in Snapshot
  PROVE  i = Specifier(seen, p) /\ seen[p] \notin Broken
<1>1. PICK q \in Walked : i = Specifier(seen, q)
  BY DEF Snapshot
<1>2. i = <<q, Compiled(seen, seen[q])>> /\ q = p
  BY <1>1 DEF Specifier, Imported
<1>3. i[2].of = seen[p]
  BY <1>2 DEF Compiled, Content
<1> QED BY <1>1, <1>2, <1>3 DEF Imported

LEMMA ReuseBridges ==
  ASSUME Inv, Named, NEW pass, NEW p \in Paths, Here(pass, p), Reuse(p), src = seen
  PROVE  bridge' = bridge \cup (IF pass = "walk" /\ Parsed(p) THEN {Specifier(src, p)} ELSE {})
<1>1. /\ IsFile(p) /\ SkipHolds(p) /\ bridge' = Replay(p)
      /\ skip[p] # None /\ (skip[p].import = None \/ skip[p].import \in Snapshot)
  BY DEF Reuse, Due, SkipHolds
<1>2. Imported(p, skip[p].import)
  BY <1>1 DEF Named
<1>3. CASE Kind[p] = "collection"
  <2>1. pass = "walk"
    BY <1>3, KindsDiffer DEF Reuse, Due, Here
  <2>2. skip[p].import = Specifier(src, p) /\ src[p] \notin Broken /\ skip[p].import # None
    BY <1>1, <1>2, <1>3, ImportIsSpecifier DEF Imported
  <2> QED BY <1>1, <1>3, <2>1, <2>2 DEF Replay, Parsed
<1>4. CASE Kind[p] # "collection"
  BY <1>1, <1>2, <1>4 DEF Imported, Replay, Parsed
<1> QED BY <1>3, <1>4

LEMMA VisitCollects ==
  ASSUME Inv, Dated, Named, Collecting, NEW p \in Paths, Visit(p)
  PROVE  Collecting'
<1>1. PICK pass \in Passes : Here(pass, p) /\ Moved(pass, p)
  BY VisitFrame
<1>2. UNCHANGED <<src, clock, session, input>> /\ at # 0
  BY VisitFrame
<1>3. clock = opened => src = seen
  BY <1>2 DEF Collecting
<1>4. /\ IsFile(p) => src[p] # Dir /\ src[p] # Absent
      /\ \A q : Here(q, p) => q = pass
  BY <1>1, ShadowAssumption DEF IsFile, Here
<1> DEFINE Added == IF pass = "walk" /\ Parsed(p) THEN {Specifier(src, p)} ELSE {}
<1> SUFFICES entered \subseteq entered'
             /\ (clock = opened => /\ pass = "walk" /\ src[p] = Dir => p \in entered'
                                   /\ bridge' = bridge \cup Added)
  BY <1>1, <1>2, CollectMove
<1>5. CASE EnterDir(p)
  BY <1>4, <1>5 DEF EnterDir, Parsed
<1>6. CASE PassBy(p)
  <2>1. entered' = entered /\ bridge' = bridge
    BY <1>6 DEF PassBy, walk
  <2>2. clock = opened /\ pass = "walk" => src[p] = Absent
    BY <1>1, <1>4, <1>6, Entered DEF PassBy
  <2>3. Absent # Dir /\ Absent \notin Texts
    BY ShadowAssumption
  <2> QED BY <2>1, <2>2, <2>3 DEF Parsed, IsFile
<1>7. CASE Reuse(p)
  <2>1. entered' = entered /\ src[p] # Dir
    BY <1>4, <1>7 DEF Reuse, Due
  <2> QED BY <1>1, <1>3, <1>7, <2>1, ReuseBridges
<1>8. CASE Materialise(p)
  <2>1. entered' = entered /\ IsFile(p) /\ src[p] # Dir
    BY <1>4, <1>8 DEF Materialise, Due
  <2>2. bridge' = IF Kind[p] = "collection" /\ src[p] \notin Broken THEN bridge \cup {Specifier(src, p)}
                  ELSE bridge
    BY <1>8 DEF Materialise
  <2>3. Kind[p] = "collection" => pass = "walk"
    BY <1>4, <1>8, KindsDiffer DEF Materialise, Due
  <2> QED BY <2>1, <2>2, <2>3 DEF Parsed
<1>9. CASE KeepMirror(p)
  BY <1>4, <1>9 DEF KeepMirror, walk
<1>10. CASE Mirror(p)
  BY <1>4, <1>10 DEF Mirror
<1>11. CASE RewriteCss(p)
  BY <1>4, <1>11 DEF RewriteCss, walk
<1> QED BY <1>5, <1>6, <1>7, <1>8, <1>9, <1>10, <1>11 DEF Visit

LEMMA VisitNames ==
  ASSUME Inv, Named, NEW p \in Paths, Visit(p)
  PROVE  Named'
<1>1. PICK pass \in Passes : Here(pass, p) /\ (Ahead \/ Held)
  BY VisitFrame
<1>2. skip' = skip
  BY VisitFrame
<1>3. CASE Materialise(p)
  <2>1. pending' # None /\ pending'.pass = "materialise"
    BY <1>3, PendingIsUnstored, WalkAssumption
  <2>2. at' = at /\ Plan[at][2] = p
    BY <1>1, <1>3 DEF Materialise, Here
  <2>3. IsFile(p)
    BY <1>3 DEF Materialise, Due
  <2>4. /\ pending'.keep = (Kind[p] # "collection" \/ (Kind[p] = "collection" /\ src[p] \notin Broken))
        /\ pending'.import = IF Kind[p] = "collection" /\ src[p] \notin Broken THEN Specifier(src, p)
                             ELSE None
    BY <1>3 DEF Materialise
  <2>5. settings \in Settings /\ src \in Sources /\ src[p] \in Texts
    BY <1>1, <2>3, HereMeans DEF Inv, Read, IsFile
  <2>6. Compiled(src, src[p]) \in Contents /\ Compiled(src, src[p]).of = src[p]
    BY <2>5, CompiledIsContents DEF Compiled, Content
  <2>7. Specifier(src, p) # None /\ Specifier(src, p)[1] = p /\ Specifier(src, p)[2].of = src[p]
    BY <2>6, WalkAssumption DEF Specifier
  <2>8. pending'.keep => Imported(p, pending'.import)
    BY <2>4, <2>7 DEF Imported
  <2> QED BY <1>2, <2>1, <2>2, <2>8, PlanIsConstant DEF Named
<1>4. CASE Mirror(p)
  <2>1. pending' = None \/ pending' = [pass |-> "mirror"]
    BY <1>1, <1>4 DEF Mirror, Here
  <2> QED BY <1>2, <2>1 DEF Named
<1>5. CASE ~Materialise(p) /\ ~Mirror(p)
  <2>1. pending' = pending /\ pending = None
    BY <1>1, <1>5 DEF Visit, EnterDir, PassBy, Reuse, KeepMirror, RewriteCss, Here
  <2> QED BY <1>2, <2>1 DEF Named
<1> QED BY <1>3, <1>4, <1>5

Bridging == Dated /\ Named /\ Collecting

LEMMA InitBridging == Init => Bridging
<1> SUFFICES ASSUME Init PROVE Bridging
  OBVIOUS
<1>1. IsTree(src) /\ IsTree(seen)
  BY WalkAssumption DEF Init
<1>2. \A p \in Paths : stamp[p] \in 1..clock
  BY DEF Init
<1> QED BY <1>1, <1>2 DEF Init, Bridging, Dated, Named, Collecting, NoEntries

LEMMA StoreFrame ==
  ASSUME Inv, Store
  PROVE  /\ at \in 1..Len(Plan) /\ pending # None /\ at' = at + 1 /\ pending' = None /\ Stayed
         /\ at # 0 /\ at' # 0 /\ Plan[at][2] \in Paths
         /\ UNCHANGED <<disk, shadow, written, session, walk, input>>
<1>1. /\ at \in 1..Len(Plan) /\ pending # None /\ at' = at + 1 /\ pending' = None
      /\ UNCHANGED <<disk, shadow, written, session, walk, input>>
  BY DEF Inv, Running, Store, Advance
<1> QED BY <1>1, StorePasses, PlanIsASeq

LEMMA BridgingStep == ~FlipWipeFails /\ Inv /\ Bridging /\ [Next]_vars => Bridging'
<1> SUFFICES ASSUME ~FlipWipeFails, Inv, Bridging, [Next]_vars PROVE Bridging'
  OBVIOUS
<1> USE DEF Bridging
<1>0. clock \in Nat /\ opened \in 1..clock /\ at \in Nat
  BY PlanIsASeq DEF Inv, TypeOK
<1>1. CASE Edit
  <2>1. Dated' /\ clock' = clock + 1
    BY <1>1, EditTraces
  <2>2. UNCHANGED <<skip, pending, at, input>>
    BY <1>1 DEF Edit, Save, MakeDir, Delete, MoveAway, MoveBack, Edited, caches
  <2>3. Named'
    BY <2>2, PlanIsConstant DEF Named
  <2>4. Collecting'
    BY <1>0, <2>1, <2>2 DEF Collecting, input
  <2> QED BY <2>1, <2>3, <2>4
<1>2. ASSUME NEW p \in Paths, Visit(p) PROVE Bridging'
  <2>1. Dated'
    BY <1>2, VisitFrame, DatedFrame DEF input
  <2> QED BY <1>2, <2>1, VisitCollects, VisitNames
<1>3. CASE Store
  <2>1. Dated'
    BY <1>3, StoreFrame, DatedFrame DEF disk, input
  <2>2. Collecting'
    BY <1>3, StoreFrame, CollectRest DEF disk, session, walk
  <2>3. Named'
    <3> DEFINE p == Plan[at][2]
    <3>1. p \in Paths /\ pending' = None /\ DOMAIN skip = Paths
      BY <1>3, StoreFrame DEF Inv, TypeOK
    <3>2. ASSUME NEW q \in Paths, skip'[q] # None PROVE Imported(q, skip'[q].import)
      <4>1. CASE skip'[q] = skip[q]
        BY <3>2, <4>1 DEF Named
      <4>2. CASE skip'[q] # skip[q]
        <5>1. pending.pass # "mirror" /\ q = p
          BY <1>3, <3>1, <4>2 DEF Store
        <5>2. skip'[q] = IF IsFile(p) /\ pending.keep
                           THEN [stamp |-> stamp[p], live |-> pending.live, dep |-> pending.dep,
                                 depStat |-> Stat(pending.dep), import |-> pending.import]
                           ELSE None
          BY <1>3, <3>1, <5>1 DEF Store
        <5>3. pending.keep /\ skip'[q].import = pending.import
          BY <3>2, <5>2
        <5>4. pending # None
          BY <1>3, StoreFrame
        <5> QED BY <5>1, <5>3, <5>4 DEF Named
      <4> QED BY <4>1, <4>2
    <3> QED BY <3>1, <3>2 DEF Named
  <2> QED BY <2>1, <2>2, <2>3
<1>4. CASE prune_stale
  <2>1. at > Len(Plan) /\ at # 0 /\ at' = at + 1
        /\ UNCHANGED <<disk, settings, caches, walk, input, pending>>
    BY <1>0, <1>4, PlanIsConstant DEF prune_stale, Pruning, Advance
  <2>2. Dated'
    BY <2>1, DatedFrame DEF disk, input
  <2>3. pending = None
    BY <2>1, PlanIsConstant DEF Inv, Running
  <2>4. Named'
    BY <2>1, <2>3 DEF Named, caches
  <2>5. Collecting'
    BY <1>0, <2>1, PrunePasses, CollectRest DEF disk, walk
  <2> QED BY <2>2, <2>4, <2>5
<1>5. CASE Bundled \/ Fail
  <2>1. at' = 0 /\ (pending' = None \/ pending' = pending) /\ UNCHANGED <<disk, caches, input>>
    BY <1>5 DEF Bundled, Fail
  <2>2. pending' = None
    BY <1>5, <2>1, PlanIsConstant DEF Inv, Running, Bundled, Fail, Esbuild
  <2>3. Dated'
    BY <2>1, DatedFrame DEF disk, input
  <2> QED BY <2>1, <2>2, <2>3 DEF Named, Collecting, caches
<1>6. ASSUME NEW mode \in Modes, NEW set \in Settings, Begin(mode, set) PROVE Bridging'
  <2>1. /\ UNCHANGED <<disk, pending>> /\ seen' = src /\ bridge' = {} /\ at' = 1 /\ at = 0
        /\ (skip' = skip \/ skip' = NoEntries)
    BY <1>6 DEF Begin
  <2>2. pending = None
    BY <2>1 DEF Inv, Running
  <2>3. Dated'
    BY <2>1 DEF Dated, disk
  <2>4. Named'
    BY <2>1, <2>2 DEF Named, NoEntries
  <2>5. \A q, r : ~Passed(q, r)'
    BY <2>1, <2>2, PlanIsConstant DEF Passed
  <2> QED BY <2>1, <2>3, <2>4, <2>5 DEF Collecting, disk
<1>7. ASSUME NEW mode, BeginFails(mode) PROVE Bridging'
  <2>1. UNCHANGED <<disk, caches, at, pending, input>> /\ at = 0
    BY <1>7 DEF BeginFails
  <2>2. Dated'
    BY <2>1, DatedFrame DEF disk, input
  <2> QED BY <2>1, <2>2, PlanIsConstant DEF Named, Collecting, caches
<1>8. CASE UNCHANGED vars
  <2>1. UNCHANGED <<disk, caches, at, pending, input, settings, walk>>
    BY <1>8 DEF vars, session
  <2>2. Dated'
    BY <2>1, DatedFrame DEF disk, input
  <2>3. Collecting'
    <3>1. CASE at = 0
      BY <2>1, <3>1 DEF Collecting
    <3>2. CASE at # 0
      BY <2>1, <3>2, RestPasses, CollectRest DEF disk, walk
    <3> QED BY <3>1, <3>2
  <2> QED BY <2>1, <2>2, <2>3, PlanIsConstant DEF Named, caches
<1> QED BY <1>1, <1>2, <1>3, <1>4, <1>5, <1>6, <1>7, <1>8 DEF Next, Call

LEMMA BridgeIsComplete == Inv /\ Bridging => BridgeMatchesSnapshot
<1> SUFFICES ASSUME Inv, Bridging, Esbuild, clock = opened
             PROVE  bridge = {Specifier(src, p) :
                      p \in {q \in Walked : /\ Kind[q] = "collection"
                                            /\ IsFile(q) /\ src[q] \notin Broken}}
  BY DEF BridgeMatchesSnapshot
<1>1. at # 0 /\ \A p \in Walked : Passed("walk", p)
  BY AllPassed, PlanIsConstant DEF Esbuild, Inv, TypeOK
<1>2. {q \in Walked : Parsed(q) /\ Passed("walk", q)}
        = {q \in Walked : Kind[q] = "collection" /\ IsFile(q) /\ src[q] \notin Broken}
  BY <1>1 DEF Parsed
<1> QED BY <1>1, <1>2 DEF Bridging, Collecting

\* In a call during which nothing was edited the bridge has exactly the
\* specifiers of the entries that parse, whatever was skipped and replayed.
THEOREM BridgeIsCurrent ==
  ASSUME ~FlipWipeFails
  PROVE  Spec => []BridgeMatchesSnapshot
<1>1. Inv /\ Bridging /\ [Next]_vars => Bridging'
  BY BridgingStep
<1>2. Inv /\ Bridging => BridgeMatchesSnapshot
  BY BridgeIsComplete
<1> QED BY <1>1, <1>2, InitBridging, ShadowInvariant, PTL DEF Spec

-----------------------------------------------------------------------------
(* What the operations of ShadowWriter leave in the shadow.                *)

\* Nothing but what was below a directory at x is gone.
Spares(t, u, x) ==
    \A y \in Places : y # x =>
      u.shadow[y] = t.shadow[y] \/ (u.shadow[y] = Absent /\ x \in Above[y] /\ t.shadow[x] = Dir)

LEMMA ClearDirSpares ==
  ASSUME NEW t, Sound(t), NEW x \in Places
  PROVE  Spares(t, ClearDir(t, x), x)
<1>1. CASE t.shadow[x] # Dir
  BY <1>1 DEF Spares, ClearDir
<1>2. CASE t.shadow[x] = Dir
  BY <1>2 DEF Spares, ClearDir
<1> QED BY <1>1, <1>2

LEMMA WithShadow ==
  ASSUME NEW t, t \in Trees, NEW x \in Places, NEW c, NEW w
  PROVE  \A y \in Places : With(t, x, c, w).shadow[y] = IF y = x THEN c ELSE t.shadow[y]
BY DEF With, Trees

LEMMA WriteEffect ==
  ASSUME NEW t, Sound(t), NEW x \in Places, NEW c \in Contents
  PROVE  write_if_changed(t, x, c).shadow[x] = c /\ Spares(t, write_if_changed(t, x, c), x)
<1>0. c # None /\ \A d \in Contents : d # Link
  BY ShadowAssumption
<1>1. CASE t.written[x] = c
  BY <1>0, <1>1 DEF write_if_changed, Sound, Synced, Spares
<1>2. CASE t.written[x] # c /\ t.written[x] # None
  <2>1. t.shadow[x] # Link /\ t \in Trees
    BY <1>0, <1>2 DEF Sound, Synced, Trees
  <2>2. write_if_changed(t, x, c) = With(t, x, c, c)
    BY <1>2, <2>1 DEF write_if_changed
  <2> QED BY <2>1, <2>2, WithShadow DEF Spares
<1>3. CASE t.written[x] = None
  <2> DEFINE u == ClearDir(t, x)
  <2>1. u \in Trees /\ Spares(t, u, x)
    BY ClearDirSound, ClearDirSpares DEF Sound
  <2>2. write_if_changed(t, x, c) = With(u, x, c, c)
    BY <1>0, <1>3 DEF write_if_changed
  <2> HIDE DEF u
  <2> QED BY <2>1, <2>2, WithShadow DEF Spares
<1> QED BY <1>1, <1>2, <1>3

LEMMA LinkEffect ==
  ASSUME NEW t, Sound(t), NEW x \in Places
  PROVE  symlink_if_absent(t, x).shadow[x] = Link /\ Spares(t, symlink_if_absent(t, x), x)
<1>1. CASE t.shadow[x] = Link
  BY <1>1 DEF symlink_if_absent, Spares
<1>2. CASE t.shadow[x] # Link
  <2> DEFINE u == ClearDir(t, x)
  <2>1. u \in Trees /\ Spares(t, u, x)
    BY ClearDirSound, ClearDirSpares DEF Sound
  <2>2. symlink_if_absent(t, x) = With(u, x, Link, None)
    BY <1>2 DEF symlink_if_absent
  <2> HIDE DEF u
  <2> QED BY <2>1, <2>2, WithShadow DEF Spares
<1> QED BY <1>1, <1>2

LEMMA PutEffect ==
  ASSUME NEW t, Sound(t), NEW x \in Places, NEW c \in Contents, copyMode \in BOOLEAN
  PROVE  /\ Spares(t, Put(t, x, c), x)
         /\ \/ Put(t, x, c).shadow[x] = c
            \/ Put(t, x, c).shadow[x] = Link /\ copyMode = FALSE /\ c.form = "raw"
<1>1. CASE c.form = "raw" /\ ~copyMode
  <2>1. Put(t, x, c) = symlink_if_absent(t, x)
    BY <1>1 DEF Put
  <2> QED BY <1>1, <2>1, LinkEffect
<1>2. CASE ~(c.form = "raw" /\ ~copyMode)
  <2>1. Put(t, x, c) = write_if_changed(t, x, c)
    BY <1>2 DEF Put
  <2> QED BY <2>1, WriteEffect
<1> QED BY <1>1, <1>2

LEMMA EnsureDirEffect ==
  ASSUME NEW t, Sound(t), NEW x \in Places
  PROVE  \A y \in Places : ensure_dir(t, x).shadow[y] = IF y = x THEN Dir ELSE t.shadow[y]
<1>1. CASE t.shadow[x] = Dir
  BY <1>1 DEF ensure_dir
<1>2. CASE t.shadow[x] # Dir
  <2> DEFINE w == IF t.shadow[x] = Absent THEN t.written[x] ELSE None
  <2>1. ensure_dir(t, x) = With(t, x, Dir, w)
    BY <1>2 DEF ensure_dir
  <2> QED BY <2>1, WithShadow DEF Sound
<1> QED BY <1>1, <1>2

-----------------------------------------------------------------------------
(* What the session may trust.                                             *)

\* A wipe for a change of mode does not fail.  Only collection entries, which
\* the snapshot checks, keep their stamp over an edit or are saved between a read
\* and its stat, and no other document includes one.  No source is imported as a
\* raw file too, unless it is a walked one and a mirrored one imports it.  A
\* fingerprint tells its settings.
Trackable ==
    /\ ~FlipWipeFails /\ Movable \cap Dirs = {}
    /\ \A p \in Preserving \cup EditsInWindow : p \in Walked /\ Kind[p] = "collection"
    /\ \A p \in Paths : \A t \in TextsOf[p] :
         /\ Kind[p] = "content" => Ref[t] \notin Preserving \cup EditsInWindow
         /\ Kind[p] = "source" /\ p \in Walked /\ Ref[t] # None => Kind[Ref[t]] # "source"
         /\ Kind[p] = "source" /\ p \in Mirrored /\ Ref[t] # None =>
              Kind[Ref[t]] # "source" \/ Ref[t] \notin Mirrored
    /\ \A s, t \in Settings : Fingerprint[s] = Fingerprint[t] /\ Fingerprint[s] # None => s = t

Output(t, v) ==
    Content("compiled", t, {settings} \cup (IF Ref[t] = None THEN {} ELSE {v}))

\* A skip entry is of a text, which the file has as long as it has its stamp;
\* and what was made of the text is in the shadow, or nothing is.
Entry(p) ==
    LET e == skip[p] IN
    /\ e.stamp \in 1..clock
    /\ src[p] = Dir \/ shadow[p] = Dir => e.stamp < stamp[p]
    /\ p \in Walked \/ Kind[p] = "source"
    /\ Kind[p] = "collection" => shadow[p] \in {Absent, Dir, e.import[2]}
    /\ Kind[p] = "content" =>
         \E t \in TextsOf[p], v \in Texts \cup {Absent, Dir} :
           /\ Agrees(p, e.stamp, t) /\ shadow[p] \in {Absent, Dir, Output(t, v)}
           /\ e.dep = Ref[t] /\ (Ref[t] # None => Agrees(Ref[t], e.depStat, v))
    /\ Kind[p] = "source" /\ ~e.live =>
         \E t \in TextsOf[p] : /\ ~Live(t) /\ Agrees(p, e.stamp, t)
                               /\ p \in Walked => shadow[p] \in {Absent, Dir, Link, Raw(t)}

Waits(p) == pending # None /\ Plan[at][2] = p
Renewed(p) == Waits(p) /\ pending.pass = "materialise"
Entries == \A p \in Paths : skip[p] # None /\ ~Renewed(p) => Entry(p)

\* So is an entry of the mirror, of a raw copy.
Copied(p) ==
    \E t \in TextsOf[p] : Agrees(p, mirrorSkip[p], t) /\ (Kind[p] = "css" \/ shadow[p] \in {Absent, Raw(t)})
Copies == \A p \in Paths : mirrorSkip[p] # None => p \in Mirrored /\ (Waits(p) \/ Copied(p))

\* Whatever is in the shadow was put there by the last call or by this one.
Placed ==
    /\ \A x \in Places : shadow[x] = Dir => x \in Dirs
    /\ \A x \in Places : shadow[x] = Link => copyMode = FALSE
    /\ \A x \in Places : shadow[x] \notin {Absent, Dir} =>
                           x \in prevVisited \/ (at # 0 /\ x \in visited)
    /\ Esbuild => prevVisited = visited
    /\ at # 0 => copyMode \in BOOLEAN

\* The file that waits for its stat is what was read.
Awaited ==
    pending # None =>
      LET p == Plan[at][2] IN
      /\ IsFile(p) /\ shadow[p] \notin {Absent, Dir}
      /\ pending.pass = "mirror" => p \in Mirrored /\ shadow[p] = Raw(src[p])
      /\ pending.pass = "materialise" =>
           /\ p \in Walked \/ Kind[p] = "source"
           /\ Kind[p] = "collection" /\ pending.keep => shadow[p] = pending.import[2]
           /\ Kind[p] = "content" => shadow[p] = Compiled(src, src[p]) /\ pending.dep = Ref[src[p]]
           /\ Kind[p] = "source" =>
                pending.live = Live(src[p]) /\ (Live(src[p]) \/ shadow[p] \in {Link, Raw(src[p])})

-----------------------------------------------------------------------------
(* What a call has brought up to date.                                     *)

Form(p) == Render(src, p, RawTargets(src))
Refused(p) == Rejected(src, p, RawTargets(src))

Made(p) ==
    /\ IsFile(p)
    /\ (p \in Walked /\ Passed("walk", p)) \/ (p \in Mirrored /\ Passed("mirror", p))

\* The file has its last form, but for the shim of a stylesheet.
Final(p) ==
    \/ p \in Walked /\ Passed("walk", p)
    \/ p \in Mirrored /\ Kind[p] = "source" /\ Passed("enrol", p) /\ ~Refused(p)

Shown(p, c) == shadow[p] = c \/ (shadow[p] = Link /\ c = Raw(src[p]))

InPlace(p) ==
    /\ shadow[p] \notin {Absent, Dir}
    /\ Kind[p] = "css" /\ Passed("css", p) => shadow[p] = Shim(src[p])
    /\ Kind[p] # "css" => IF Final(p) THEN Shown(p, Form(p)) ELSE shadow[p] = Raw(src[p])

Expands(p) == IsFile(p) /\ Final(p) /\ Form(p).form = "expanded" /\ Ref[src[p]] # None
Beside(p) == Generated[p][Ref[src[p]]]
Module(p) == Content("module", src[Ref[src[p]]], {})

\* As long as nothing is edited, the files that are behind are in place, and
\* with them the modules that belong to them and no others.
Settled ==
    at # 0 /\ clock = opened =>
      /\ src = seen
      /\ \A p \in Paths : p \in visited <=> Made(p)
      /\ \A p \in Paths : Made(p) => InPlace(p)
      /\ \A p \in Paths : Expands(p) => Beside(p) \in visited /\ shadow[Beside(p)] = Module(p)
      /\ \A x \in Extra : x \in visited => \E p \in Paths : Expands(p) /\ Beside(p) = x

Valid == at # 0 \/ ~dirty
Fit == Awaited /\ Settled /\ (Valid => Entries /\ Copies /\ Placed)

LEMMA EntryKeeps ==
  ASSUME NEW p \in Paths, Entry(p), UNCHANGED <<src, stamp, clock, aside, settings>>,
         skip'[p] = skip[p], shadow'[p] \in {shadow[p], Absent}
  PROVE  Entry(p)'
<1>1. \A q, k, v : Agrees(q, k, v)' <=> Agrees(q, k, v)
  BY DEF Agrees, Stat
<1>2. \A t, v : Output(t, v)' = Output(t, v)
  BY DEF Output
<1>3. shadow'[p] = Dir => shadow[p] = Dir
  BY ShadowAssumption
<1>4. Kind[p] = "content" =>
        (\E t \in TextsOf[p], v \in Texts \cup {Absent, Dir} :
           /\ Agrees(p, skip[p].stamp, t) /\ shadow[p] \in {Absent, Dir, Output(t, v)}
           /\ skip[p].dep = Ref[t] /\ (Ref[t] # None => Agrees(Ref[t], skip[p].depStat, v)))'
  BY <1>1, <1>2 DEF Entry
<1>5. Kind[p] = "source" /\ ~skip[p].live =>
        (\E t \in TextsOf[p] : /\ ~Live(t) /\ Agrees(p, skip[p].stamp, t)
                               /\ p \in Walked => shadow[p] \in {Absent, Dir, Link, Raw(t)})'
  BY <1>1 DEF Entry
<1>6. Kind[p] = "collection" => shadow'[p] \in {Absent, Dir, skip[p].import[2]}
  BY DEF Entry
<1> QED BY <1>3, <1>4, <1>5, <1>6 DEF Entry

LEMMA CopyKeeps ==
  ASSUME NEW p \in Paths, Copied(p), UNCHANGED <<src, stamp, clock, aside>>,
         mirrorSkip'[p] = mirrorSkip[p], shadow'[p] \in {shadow[p], Absent}
  PROVE  Copied(p)'
<1>1. \A q, k, v : Agrees(q, k, v)' <=> Agrees(q, k, v)
  BY DEF Agrees, Stat
<1> QED BY <1>1 DEF Copied

LEMMA EntryOutlivesEdit ==
  ASSUME Trackable, Inv, Dated, Edit, NEW p \in Paths, Entry(p), shadow[p] = Dir => p \in Dirs
  PROVE  Entry(p)'
<1>1. Traced /\ clock' = clock + 1
  BY EditTraces
<1>2. UNCHANGED <<skip, shadow, settings>>
  BY DEF Edit, Save, MakeDir, Delete, MoveAway, MoveBack, Edited, caches, session
<1>3. \A t, v : Output(t, v)' = Output(t, v)
  BY <1>2 DEF Output
<1>4. clock \in Nat /\ skip[p].stamp \in 1..clock /\ stamp[p] \in Nat
  BY DEF Inv, TypeOK, Entry
<1>5. skip'[p].stamp \in 1..clock'
  BY <1>1, <1>2, <1>4
<1>6. src'[p] = Dir \/ shadow'[p] = Dir => skip'[p].stamp < stamp'[p]
  <2>1. CASE src'[p] = Dir
    <3>1. stamp'[p] = clock + 1 \/ (src[p] = Dir /\ stamp'[p] = stamp[p])
      BY <1>1, <2>1 DEF Traced
    <3> QED BY <1>2, <1>4, <3>1 DEF Entry
  <2>2. CASE shadow'[p] = Dir
    <3>1. shadow[p] = Dir /\ p \notin Movable
      BY <1>2, <2>2 DEF Trackable
    <3>2. stamp'[p] >= stamp[p] /\ stamp'[p] \in Nat
      BY <1>1, <3>1, EditStep DEF Traced, Inv, TypeOK
    <3> QED BY <1>2, <1>4, <3>1, <3>2 DEF Entry
  <2> QED BY <2>1, <2>2
<1>8. Kind[p] = "content" =>
        (\E t \in TextsOf[p], v \in Texts \cup {Absent, Dir} :
           /\ Agrees(p, skip[p].stamp, t) /\ shadow[p] \in {Absent, Dir, Output(t, v)}
           /\ skip[p].dep = Ref[t] /\ (Ref[t] # None => Agrees(Ref[t], skip[p].depStat, v)))'
  <2> SUFFICES ASSUME Kind[p] = "content"
               PROVE (\E t \in TextsOf[p], v \in Texts \cup {Absent, Dir} :
                       /\ Agrees(p, skip[p].stamp, t) /\ shadow[p] \in {Absent, Dir, Output(t, v)}
                       /\ skip[p].dep = Ref[t] /\ (Ref[t] # None => Agrees(Ref[t], skip[p].depStat, v)))'
    OBVIOUS
  <2>1. PICK t \in TextsOf[p], v \in Texts \cup {Absent, Dir} :
           /\ Agrees(p, skip[p].stamp, t) /\ shadow[p] \in {Absent, Dir, Output(t, v)}
           /\ skip[p].dep = Ref[t] /\ (Ref[t] # None => Agrees(Ref[t], skip[p].depStat, v))
    BY DEF Entry
  <2>2. p \notin Preserving /\ Ref[t] \notin Preserving
    BY KindsDiffer DEF Trackable, Markdown
  <2>3. Ref[t] \in Paths \cup {None}
    BY ShadowAssumption
  <2>4. Agrees(p, skip[p].stamp, t)'
    BY <1>1, <1>2, <2>1, <2>2 DEF Traced
  <2>5. Ref[t] # None => Agrees(Ref[t], skip[p].depStat, v)'
    BY <1>1, <1>2, <2>1, <2>2, <2>3 DEF Traced
  <2> QED BY <1>2, <1>3, <2>1, <2>4, <2>5
<1>9. ASSUME Kind[p] = "source", ~skip[p].live
      PROVE  (\E t \in TextsOf[p] : /\ ~Live(t) /\ Agrees(p, skip[p].stamp, t)
                                    /\ p \in Walked => shadow[p] \in {Absent, Dir, Link, Raw(t)})'
  <2>1. PICK t \in TextsOf[p] : /\ ~Live(t) /\ Agrees(p, skip[p].stamp, t)
                                /\ p \in Walked => shadow[p] \in {Absent, Dir, Link, Raw(t)}
    BY <1>9 DEF Entry
  <2>2. p \notin Preserving
    BY <1>9, KindsDiffer DEF Trackable
  <2>3. Agrees(p, skip[p].stamp, t)'
    BY <1>1, <1>2, <2>1, <2>2 DEF Traced
  <2> QED BY <1>2, <2>1, <2>3
<1>10. (p \in Walked \/ Kind[p] = "source")
       /\ (Kind[p] = "collection" => shadow'[p] \in {Absent, Dir, skip'[p].import[2]})
  BY <1>2 DEF Entry
<1> QED BY <1>2, <1>5, <1>6, <1>8, <1>9, <1>10 DEF Entry

LEMMA CopyOutlivesEdit ==
  ASSUME Trackable, Inv, Dated, Edit, NEW p \in Mirrored, Copied(p)
  PROVE  Copied(p)'
<1>1. Traced
  BY EditTraces
<1>2. UNCHANGED <<mirrorSkip, shadow>>
  BY DEF Edit, Save, MakeDir, Delete, MoveAway, MoveBack, Edited, caches
<1>3. PICK t \in TextsOf[p] :
        Agrees(p, mirrorSkip[p], t) /\ (Kind[p] = "css" \/ shadow[p] \in {Absent, Raw(t)})
  BY DEF Copied
<1>4. p \in Paths /\ p \notin Preserving
  BY Disjoint DEF Trackable
<1>5. Agrees(p, mirrorSkip[p], t)'
  BY <1>1, <1>2, <1>3, <1>4 DEF Traced
<1> QED BY <1>2, <1>3, <1>5 DEF Copied

-----------------------------------------------------------------------------
(* What is there and what would be made.                                   *)

LEMMA AgreesNow ==
  ASSUME Inv, Dated, NEW q \in Paths
  PROVE  Agrees(q, Stat(q), src[q])
<1>1. clock \in Nat /\ stamp[q] \in 1..clock /\ None \notin Paths
  BY WalkAssumption DEF Inv, TypeOK, Dated
<1>2. aside # None /\ aside.path = q => aside.stamp \in 1..clock
                                        /\ (src[q] # Absent => aside.stamp < stamp[q])
  BY DEF Dated
<1>3. CASE src[q] = Absent
  BY <1>1, <1>2, <1>3 DEF Agrees, Stat
<1>4. CASE src[q] # Absent
  BY <1>1, <1>2, <1>4 DEF Agrees, Stat
<1> QED BY <1>3, <1>4

LEMMA NoMixing ==
  /\ \A c \in Contents : c \notin {Absent, Dir, Link, Garbage, None}
  /\ \A t \in Texts : t \notin {Absent, Dir} /\ Raw(t) \in Contents /\ Raw(t).form = "raw"
  /\ \A t \in Texts \cup {Absent, Dir} : Shim(t) \in Contents /\ Content("module", t, {}) \in Contents
BY ShadowAssumption DEF Raw, Shim, Content, Contents

\* A source file is no target of the walked ones.
LEMMA SourceIsNoTarget ==
  ASSUME Trackable, NEW s, IsTree(s), NEW p, Kind[p] = "source"
  PROVE  p \notin RawTargets(s)
<1> SUFFICES ASSUME p \in RawTargets(s) PROVE FALSE
  OBVIOUS
<1>1. PICK q \in Walked : Kind[q] = "source" /\ s[q] \in Texts /\ p = Ref[s[q]] /\ p # None
  BY DEF RawTargets
<1>2. q \in Paths /\ s[q] \in TextsOf[q]
  BY <1>1, Disjoint DEF IsTree
<1> QED BY <1>1, <1>2 DEF Trackable

\* A source that is imported with ?raw by one the call has expanded is a walked
\* one, and the walks are over.
Edged == at # 0 => \A q \in edges : Kind[q] = "source" => at > W /\ q \notin Mirrored

LEMMA EdgedStep == Trackable /\ Inv /\ Dated /\ Edged /\ [Next]_vars => Edged'
<1> SUFFICES ASSUME Trackable, Inv, Dated, Edged, [Next]_vars PROVE Edged'
  OBVIOUS
<1>0. at \in Nat /\ W \in Nat /\ W' = W
  BY PlanIsASeq, OrdersAreSeqs DEF Inv, TypeOK, W
<1>1. ASSUME edges' = edges, at' \in {0, at, at + 1}, at' = 0 \/ at # 0 PROVE Edged'
  BY <1>0, <1>1 DEF Edged
<1>2. CASE Edit
  BY <1>1, <1>2 DEF Edit, Save, MakeDir, Delete, MoveAway, MoveBack, Edited, walk
<1>3. ASSUME NEW p \in Paths, Visit(p), ~Materialise(p) PROVE Edged'
  <2>1. edges' = edges
    BY <1>3 DEF Visit, EnterDir, PassBy, Reuse, KeepMirror, Mirror, RewriteCss, walk
  <2>2. at' \in {at, at + 1} /\ at # 0
    BY <1>3, VisitFrame DEF Ahead, Held
  <2> QED BY <1>1, <2>1, <2>2
<1>4. ASSUME NEW p \in Paths, Materialise(p) PROVE Edged'
  <2> DEFINE c == Render(src, p, Targets)
  <2>1. PICK pass \in {"walk", "enrol"} : Here(pass, p)
    BY <1>4 DEF Materialise, Due
  <2>2. at' = at /\ at \in 1..Len(Plan) /\ at # 0 /\ Plan[at] = <<pass, p>>
    BY <1>4, <2>1, HereMeans DEF Materialise, Here
  <2>3. edges' = IF c.form = "expanded" THEN edges \cup ({Ref[src[p]]} \ {None}) ELSE edges
    BY <1>4 DEF Materialise
  <2>4. CASE edges' = edges
    BY <1>1, <2>2, <2>4
  <2>5. CASE c.form = "expanded"
    <3>1. Kind[p] = "source"
      BY <2>5 DEF Render, Compiled, Raw, Content
    <3>2. src[p] \in TextsOf[p]
      BY <1>4 DEF Materialise, Due, IsFile, Dated, IsTree
    <3>3. ASSUME Ref[src[p]] # None, Kind[Ref[src[p]]] = "source"
          PROVE  at > W /\ Ref[src[p]] \notin Mirrored
      <4>1. p \notin Walked
        BY <3>1, <3>2, <3>3 DEF Trackable
      <4>2. pass = "enrol" /\ W < at /\ p \in Mirrored
        BY <1>0, <2>2, <4>1, PlanMeans, OrdersAreSeqs
      <4> QED BY <1>0, <3>1, <3>2, <3>3, <4>2 DEF Trackable
    <3> QED BY <1>0, <2>2, <2>3, <2>5, <3>3 DEF Edged
  <2> QED BY <2>3, <2>4, <2>5
<1>5. CASE Store
  BY <1>1, <1>5, StoreFrame DEF walk
<1>6. CASE prune_stale
  <2>1. at # 0 /\ at' = at + 1 /\ edges' = edges
    BY <1>0, <1>6, PlanIsConstant DEF prune_stale, Pruning, Advance, walk
  <2> QED BY <1>1, <2>1
<1>7. CASE Bundled \/ Fail
  BY <1>1, <1>7 DEF Bundled, Fail, walk
<1>8. ASSUME NEW mode \in Modes, NEW set \in Settings, Begin(mode, set) PROVE Edged'
  BY <1>8 DEF Begin, Edged
<1>9. ASSUME NEW mode, BeginFails(mode) PROVE Edged'
  BY <1>1, <1>9 DEF BeginFails, walk
<1>10. CASE UNCHANGED vars
  BY <1>0, <1>10 DEF Edged, vars, walk
<1> QED BY <1>2, <1>3, <1>4, <1>5, <1>6, <1>7, <1>8, <1>9, <1>10 DEF Next, Call, Visit

\* So a file that is due becomes what the walked sources alone make of it.
LEMMA EdgesSpareDue ==
  ASSUME Trackable, Inv, Dated, Edged, NEW p \in Paths, Due(p)
  PROVE  /\ Render(src, p, Targets) = Render(src, p, RawTargets(seen))
         /\ Rejected(src, p, Targets) <=> Rejected(src, p, RawTargets(seen))
<1>1. Kind[p] = "source" => p \notin RawTargets(seen)
  BY SourceIsNoTarget DEF Dated
<1>2. Kind[p] = "source" => p \notin edges
  <2> SUFFICES ASSUME Kind[p] = "source", p \in edges PROVE FALSE
    OBVIOUS
  <2>1. PICK pass \in {"walk", "enrol"} : Here(pass, p)
    BY DEF Due
  <2>2. at \in 1..Len(Plan) /\ at # 0 /\ Plan[at] = <<pass, p>>
    BY <2>1, HereMeans DEF Here
  <2>3. at > W /\ p \notin Mirrored
    BY <2>2 DEF Edged
  <2>4. pass = "walk" /\ at \in 1..W
    BY <2>2, <2>3, PlanMeans
  <2> QED BY <2>3, <2>4, OrdersAreSeqs
<1>3. Render(src, p, Targets) = Render(src, p, RawTargets(seen))
  BY <1>1, <1>2 DEF Render, Targets
<1> QED BY <1>3 DEF Rejected

\* What a file becomes, by its kind.
LEMMA Renders ==
  ASSUME Trackable, Inv, Dated, NEW s, IsTree(s), NEW p \in Paths, IsFile(p)
  PROVE  LET c == Render(src, p, RawTargets(s)) IN
         /\ Kind[p] \in Markdown => c = Compiled(src, src[p])
         /\ Kind[p] = "source" =>
              /\ c = IF Live(src[p]) THEN Expanded(src, src[p]) ELSE Raw(src[p])
              /\ (c.form = "expanded") = Live(src[p])
         /\ Kind[p] = "css" => c = Raw(src[p])
         /\ c.form = "raw" => c = Raw(src[p])
         /\ Kind[p] # "source" => c.form # "expanded"
         /\ Kind[p] \in Markdown => c.form = "compiled"
         /\ Kind[p] \notin Markdown => c.form # "compiled"
<1>1. Kind[p] = "source" => p \notin RawTargets(s)
  BY SourceIsNoTarget
<1> USE DEF Render, Compiled, Expanded, Raw, Content
<1>2. CASE Kind[p] \in Markdown
  BY <1>2, KindsDiffer
<1>3. CASE Kind[p] = "source"
  <2>1. Kind[p] \notin Markdown /\ Kind[p] # "css" /\ Live(src[p]) \in BOOLEAN
    BY <1>3, KindsDiffer DEF Live
  <2>2. CASE Live(src[p])
    BY <1>1, <1>3, <2>1, <2>2
  <2>3. CASE ~Live(src[p])
    BY <1>1, <1>3, <2>1, <2>3
  <2> QED BY <2>1, <2>2, <2>3
<1>4. CASE Kind[p] = "css"
  BY <1>4, KindsDiffer
<1>5. Kind[p] \in Markdown \/ Kind[p] = "source" \/ Kind[p] = "css"
  BY WalkAssumption
<1> QED BY <1>2, <1>3, <1>4, <1>5

LEMMA RefInside ==
  ASSUME Inv, NEW t \in Texts, Ref[t] # None
  PROVE  Ref[t] \in Paths /\ src[Ref[t]] \in Texts \cup {Absent, Dir}
         /\ Content("module", src[Ref[t]], {}) \in Contents
<1>1. Ref[t] \in Paths /\ src[Ref[t]] \in Texts \cup {Absent, Dir}
  BY ShadowAssumption DEF Inv, Read, Sources
<1> QED BY <1>1, NoMixing

-----------------------------------------------------------------------------
(* What the visits that write leave in the shadow.                         *)

\* Nothing but p and what is below p has changed, and that is gone.
Only(p) == \A y \in Places : y # p => shadow'[y] = shadow[y] \/ (shadow'[y] = Absent /\ p \in Above[y] /\ shadow[p] = Dir)

NoDirModule == \A x \in Extra : shadow[x] # Dir

LEMMA MaterialiseEffect ==
  ASSUME Inv, NoDirModule, copyMode \in BOOLEAN, NEW p \in Paths, Materialise(p)
  PROVE  LET c == Render(src, p, Targets)
             x == Generated[p][Ref[src[p]]] IN
         /\ c \in Contents
         /\ shadow'[p] = c \/ (shadow'[p] = Link /\ copyMode = FALSE /\ c.form = "raw")
         /\ Satellites(p, c) # {} => /\ Satellites(p, c) = {x} /\ x \in Extra /\ x # p
                                     /\ shadow'[x] = Content("module", src[Ref[src[p]]], {})
         /\ \A y \in Places : y # p /\ y \notin Satellites(p, c) =>
              shadow'[y] = shadow[y] \/ (shadow'[y] = Absent /\ p \in Above[y])
<1> DEFINE c == Render(src, p, Targets)
           x == Generated[p][Ref[src[p]]]
           t == Put(Tree, p, c)
           m == Content("module", src[Ref[src[p]]], {})
           u == PutSatellite(t, p, c)
<1>1. PICK pass \in Passes : Here(pass, p)
  BY DEF Materialise, Due, Passes
<1>2. src[p] \in Texts /\ src \in Sources
  BY DEF Materialise, Due, IsFile, Inv, Read
<1>3. c \in Contents /\ p \in Places
  BY <1>1, <1>2, HereMeans, RenderIsContents DEF Places
<1>4. Sound(Tree) /\ Tree.src = src /\ Tree.shadow = shadow
  BY <1>1, HereMeans, TreeIsSound DEF Inv, Tree
<1>5. Sound(t) /\ Spares(Tree, t, p)
      /\ (t.shadow[p] = c \/ (t.shadow[p] = Link /\ copyMode = FALSE /\ c.form = "raw"))
  BY <1>3, <1>4, PutSound, PutEffect
<1>6. shadow' = u.shadow
  BY DEF Materialise, Install
<1>7. CASE Satellites(p, c) = {}
  <2>1. u = t
    BY <1>7 DEF PutSatellite
  <2> HIDE DEF c, t, u
  <2> QED BY <1>3, <1>4, <1>5, <1>6, <1>7, <2>1 DEF Spares, c
<1>8. CASE Satellites(p, c) # {}
  <2>1. Ref[src[p]] # None /\ Satellites(p, c) = {x}
    BY <1>8 DEF Satellites
  <2>2. x \in Extra /\ x # p /\ x \in Places /\ m \in Contents
    <3>1. Ref[src[p]] \in Paths /\ m \in Contents
      BY <1>2, <2>1, RefInside
    <3> QED BY <3>1, ShadowAssumption, WalkAssumption DEF Places
  <2>3. u = write_if_changed(t, x, m)
    BY <1>8 DEF PutSatellite
  <2>4. t.shadow[x] # Dir
    <3>1. shadow[x] # Dir /\ Absent # Dir
      BY <2>2, ShadowAssumption DEF NoDirModule
    <3> HIDE DEF c, t, x
    <3> QED BY <1>4, <1>5, <2>2, <3>1 DEF Spares
  <2> HIDE DEF c, t, x, m, u
  <2>5. u.shadow[x] = m /\ Spares(t, u, x)
    BY <1>5, <2>2, <2>3, WriteEffect
  <2>6. u.shadow[p] = t.shadow[p]
    BY <1>3, <2>2, <2>4, <2>5 DEF Spares
  <2>7. ASSUME NEW y \in Places, y # p, y # x
        PROVE  u.shadow[y] = shadow[y] \/ (u.shadow[y] = Absent /\ p \in Above[y])
    BY <1>4, <1>5, <2>4, <2>5, <2>7 DEF Spares
  <2> QED BY <1>3, <1>5, <1>6, <2>1, <2>2, <2>5, <2>6, <2>7 DEF c, x, m
<1> QED BY <1>7, <1>8

LEMMA WriteVisit ==
  ASSUME Inv, NEW pass, NEW p \in Paths, Here(pass, p), NEW c \in Contents,
         Install(write_if_changed(Tree, p, c))
  PROVE  shadow'[p] = c /\ Only(p)
<1>1. Sound(Tree) /\ Tree.shadow = shadow /\ p \in Places
  BY HereMeans, TreeIsSound DEF Inv, Tree, Places
<1>2. shadow' = write_if_changed(Tree, p, c).shadow
  BY DEF Install
<1> QED BY <1>1, <1>2, WriteEffect DEF Spares, Only

LEMMA EnterDirEffect ==
  ASSUME Inv, NEW p \in Paths, EnterDir(p)
  PROVE  \A y \in Places : shadow'[y] = IF y = p THEN Dir ELSE shadow[y]
<1>1. Sound(Tree) /\ Tree.shadow = shadow /\ p \in Places
  BY HereMeans, TreeIsSound DEF Inv, Tree, Places, EnterDir
<1>2. shadow' = ensure_dir(Tree, p).shadow
  BY DEF EnterDir, Install
<1> QED BY <1>1, <1>2, EnsureDirEffect

-----------------------------------------------------------------------------
(* A visit, and what the session trusts.                                   *)

LEMMA VisitKeeps ==
  ASSUME Inv, Entries, Copies, NEW p \in Paths, Visit(p),
         \A q \in Paths : q # p => shadow'[q] \in {shadow[q], Absent},
         skip[p] # None => Renewed(p)' \/ Entry(p)',
         mirrorSkip[p] # None => Waits(p)' \/ Copied(p)'
  PROVE  Entries' /\ Copies'
<1>1. UNCHANGED <<src, stamp, clock, aside, settings, skip, mirrorSkip>> /\ pending = None
  <2>1. mirrorSkip' = mirrorSkip
    BY DEF Visit, EnterDir, PassBy, Reuse, Materialise, KeepMirror, Mirror, RewriteCss, caches
  <2> QED BY <2>1, VisitFrame DEF session, Here
<1>2. ASSUME NEW q \in Paths, q # p, skip[q] # None PROVE Entry(q)'
  <2>1. Entry(q)
    BY <1>1, <1>2 DEF Entries, Renewed, Waits
  <2> QED BY <1>1, <1>2, <2>1, EntryKeeps
<1>3. ASSUME NEW q \in Paths, q # p, mirrorSkip[q] # None PROVE Copied(q)'
  <2>1. Copied(q)
    BY <1>1, <1>3 DEF Copies, Waits
  <2> QED BY <1>1, <1>3, <2>1, CopyKeeps
<1>4. Entries'
  BY <1>1, <1>2 DEF Entries
<1>5. Copies'
  BY <1>1, <1>3 DEF Copies
<1> QED BY <1>4, <1>5

LEMMA VisitPlaces ==
  ASSUME Inv, Placed, NEW p \in Paths, Visit(p), visited \subseteq visited',
         \A x \in Places :
           \/ shadow'[x] = shadow[x] \/ shadow'[x] = Absent
           \/ shadow'[x] = Dir /\ x \in Dirs
           \/ /\ shadow'[x] # Dir /\ x \in prevVisited \cup visited'
              /\ shadow'[x] = Link => copyMode = FALSE
  PROVE  Placed'
<1>1. UNCHANGED <<prevVisited, copyMode>> /\ at # 0 /\ at' # 0
  BY VisitFrame DEF session
<1>2. Absent # Dir /\ Link # Absent /\ Link # Dir
  BY ShadowAssumption
<1>3. ~Esbuild'
  <2>1. \E pass \in Passes : Here(pass, p) /\ (Ahead \/ Held)
    BY VisitFrame
  <2> QED BY <2>1, PlanIsConstant DEF Here, Ahead, Held, Esbuild
<1> QED BY <1>1, <1>2, <1>3 DEF Placed

\* The last directory, file or link at p.
LEMMA EntryOfFile ==
  ASSUME NEW p \in Paths, Entry(p), UNCHANGED <<src, stamp, clock, skip>>,
         Kind[p] \notin Markdown, shadow'[p] # Dir, p \in Walked => Kind[p] # "source",
         Kind[p] = "source" => aside' = aside
  PROVE  Entry(p)'
<1>1. Kind[p] # "collection" /\ Kind[p] # "content"
  BY DEF Markdown
<1>2. ASSUME Kind[p] = "source", ~skip[p].live
      PROVE  (\E t \in TextsOf[p] : /\ ~Live(t) /\ Agrees(p, skip[p].stamp, t)
                                    /\ p \in Walked => shadow[p] \in {Absent, Dir, Link, Raw(t)})'
  <2>1. PICK t \in TextsOf[p] : ~Live(t) /\ Agrees(p, skip[p].stamp, t)
    BY <1>2 DEF Entry
  <2>2. Agrees(p, skip[p].stamp, t)'
    BY <1>2, <2>1 DEF Agrees, Stat
  <2> QED BY <1>2, <2>1, <2>2
<1> QED BY <1>1, <1>2 DEF Entry

LEMMA EnterDirCarries ==
  ASSUME Inv, Dated, Entries, Copies, Placed, NEW p \in Paths, EnterDir(p)
  PROVE  Entries' /\ Copies' /\ Placed' /\ Awaited'
<1>1. Visit(p) /\ pending' = None /\ pending = None /\ src[p] = Dir /\ visited' = visited
      /\ UNCHANGED <<skip, mirrorSkip>>
  BY DEF Visit, EnterDir, Here, caches
<1>2. \A y \in Places : shadow'[y] = IF y = p THEN Dir ELSE shadow[y]
  BY EnterDirEffect
<1>3. p \in Dirs /\ p \in Places /\ p \notin Mirrored
  BY <1>1, Disjoint DEF Dated, IsTree, Places
<1>4. \A q \in Paths : q # p => shadow'[q] \in {shadow[q], Absent}
  BY <1>2 DEF Places
<1>5. Placed'
  BY <1>1, <1>2, <1>3, VisitPlaces
<1>6. mirrorSkip[p] = None
  BY <1>3 DEF Copies
<1>7. ASSUME skip[p] # None PROVE Entry(p)'
  <2>1. Entry(p) /\ UNCHANGED <<src, stamp, clock, aside, settings>> /\ shadow'[p] = Dir
    BY <1>1, <1>2, <1>3, <1>7, VisitFrame DEF Entries, Renewed, Waits, session
  <2>2. \A q, k, v : Agrees(q, k, v)' <=> Agrees(q, k, v)
    BY <2>1 DEF Agrees, Stat
  <2>3. Kind[p] = "content" =>
        (\E t \in TextsOf[p], v \in Texts \cup {Absent, Dir} :
           /\ Agrees(p, skip[p].stamp, t) /\ shadow[p] \in {Absent, Dir, Output(t, v)}
           /\ skip[p].dep = Ref[t] /\ (Ref[t] # None => Agrees(Ref[t], skip[p].depStat, v)))'
    BY <1>1, <2>1, <2>2 DEF Entry
  <2>4. Kind[p] = "source" /\ ~skip[p].live =>
        (\E t \in TextsOf[p] : /\ ~Live(t) /\ Agrees(p, skip[p].stamp, t)
                               /\ p \in Walked => shadow[p] \in {Absent, Dir, Link, Raw(t)})'
    BY <1>1, <2>1, <2>2 DEF Entry
  <2>5. skip[p].stamp \in 1..clock /\ skip[p].stamp < stamp[p] /\ (p \in Walked \/ Kind[p] = "source")
    BY <1>1, <2>1 DEF Entry
  <2> QED BY <1>1, <2>1, <2>3, <2>4, <2>5 DEF Entry
<1>8. Entries' /\ Copies'
  BY <1>1, <1>4, <1>6, <1>7, VisitKeeps
<1> QED BY <1>1, <1>5, <1>8 DEF Awaited

\* A visit that writes nothing.
LEMMA IdleCarries ==
  ASSUME Inv, Dated, Entries, Copies, Placed, NEW p \in Paths, Visit(p),
         shadow' = shadow, pending' = None, visited \subseteq visited'
  PROVE  Entries' /\ Copies' /\ Placed' /\ Awaited'
<1>1. UNCHANGED <<src, stamp, clock, aside, settings, skip, mirrorSkip>> /\ pending = None
  <2>1. mirrorSkip' = mirrorSkip
    BY DEF Visit, EnterDir, PassBy, Reuse, Materialise, KeepMirror, Mirror, RewriteCss, caches
  <2> QED BY <2>1, VisitFrame DEF session, Here
<1>2. skip[p] # None => Entry(p)'
  BY <1>1, EntryKeeps DEF Entries, Renewed, Waits
<1>3. mirrorSkip[p] # None => Copied(p)'
  BY <1>1, CopyKeeps DEF Copies, Waits
<1>4. Entries' /\ Copies'
  BY <1>2, <1>3, VisitKeeps
<1>5. Placed'
  BY VisitPlaces
<1> QED BY <1>4, <1>5 DEF Awaited

LEMMA NoModuleIsDir ==
  ASSUME Placed
  PROVE  NoDirModule
BY ShadowAssumption, WalkAssumption DEF Placed, NoDirModule, Places

LEMMA MaterialiseCarries ==
  ASSUME Trackable, Inv, Dated, Edged, Entries, Copies, Placed, NEW p \in Paths, Materialise(p)
  PROVE  Entries' /\ Copies' /\ Placed' /\ Awaited'
<1> DEFINE c == Render(src, p, Targets)
           x == Generated[p][Ref[src[p]]]
<1>0. PICK pass \in Passes : Here(pass, p)
  BY DEF Materialise, Due, Passes
<1>1. /\ Visit(p) /\ pending = None /\ at' = at /\ Plan'[at'][2] = p /\ IsFile(p)
      /\ pending' # None /\ pending'.pass = "materialise"
      /\ visited' = visited \cup {p} \cup Satellites(p, c)
      /\ UNCHANGED <<skip, mirrorSkip, src, settings>>
  <2>1. Visit(p) /\ pending = None /\ at' = at /\ Plan[at][2] = p /\ IsFile(p) /\ UNCHANGED <<skip, mirrorSkip>>
        /\ visited' = visited \cup {p} \cup Satellites(p, c)
    BY <1>0 DEF Visit, Materialise, Due, Here, caches
  <2>2. pending' # None /\ pending'.pass = "materialise"
    BY PendingIsUnstored, WalkAssumption
  <2> QED BY <2>1, <2>2, PlanIsConstant, VisitFrame DEF session
<1>2. /\ c \in Contents
      /\ shadow'[p] = c \/ (shadow'[p] = Link /\ copyMode = FALSE /\ c.form = "raw")
      /\ Satellites(p, c) # {} => /\ Satellites(p, c) = {x} /\ x \in Extra /\ x # p
                                  /\ shadow'[x] = Content("module", src[Ref[src[p]]], {})
      /\ \A y \in Places : y # p /\ y \notin Satellites(p, c) =>
           shadow'[y] = shadow[y] \/ (shadow'[y] = Absent /\ p \in Above[y])
  <2>1. copyMode \in BOOLEAN
    BY <1>0, HereMeans DEF Placed
  <2> QED BY <2>1, NoModuleIsDir, MaterialiseEffect
<1>3. /\ Kind[p] \in Markdown => c = Compiled(src, src[p])
      /\ Kind[p] = "source" => /\ c = IF Live(src[p]) THEN Expanded(src, src[p]) ELSE Raw(src[p])
                               /\ (c.form = "expanded") = Live(src[p])
      /\ c.form = "raw" => c = Raw(src[p])
      /\ Kind[p] \in Markdown => c.form = "compiled"
  <2>1. c = Render(src, p, RawTargets(seen))
    BY EdgesSpareDue DEF Materialise
  <2> QED BY <1>1, <2>1, Renders DEF Dated
<1>4. /\ pending'.keep = (Kind[p] # "collection" \/ (Kind[p] = "collection" /\ src[p] \notin Broken))
      /\ pending'.live = (c.form = "expanded")
      /\ pending'.dep = IF c.form = "compiled" THEN Ref[src[p]] ELSE None
      /\ pending'.import = IF Kind[p] = "collection" /\ src[p] \notin Broken THEN Specifier(src, p)
                           ELSE None
  BY DEF Materialise
<1>5. Satellites(p, c) # {} => shadow'[x] \in Contents
  <2>1. Satellites(p, c) # {} => Ref[src[p]] # None /\ src[p] \in Texts
    BY <1>1 DEF Satellites, IsFile
  <2> QED BY <1>2, <2>1, RefInside
<1> HIDE DEF c, x
<1>6. p \in Places /\ p \in visited' /\ Satellites(p, c) \subseteq visited' /\ visited \subseteq visited'
      /\ shadow'[p] \notin {Absent, Dir}
  BY <1>1, <1>2, NoMixing, ShadowAssumption DEF Places
<1>7. Placed'
  <2>1. ASSUME NEW y \in Places
        PROVE  \/ shadow'[y] = shadow[y] \/ shadow'[y] = Absent
               \/ /\ shadow'[y] # Dir /\ y \in prevVisited \cup visited'
                  /\ shadow'[y] = Link => copyMode = FALSE
    <3>1. CASE y = p
      BY <1>2, <1>6, <3>1, NoMixing
    <3>2. CASE y \in Satellites(p, c)
      <4>1. y = x /\ shadow'[y] \in Contents
        BY <1>2, <1>5, <3>2
      <4> QED BY <1>6, <3>2, <4>1, NoMixing
    <3>3. CASE y # p /\ y \notin Satellites(p, c)
      BY <1>2, <3>3
    <3> QED BY <3>1, <3>2, <3>3
  <2> QED BY <1>1, <1>6, <2>1, VisitPlaces
<1>8. Entries' /\ Copies'
  <2>1. \A q \in Paths : q # p => shadow'[q] \in {shadow[q], Absent}
    <3>1. ASSUME NEW q \in Paths, q # p PROVE shadow'[q] \in {shadow[q], Absent}
      <4>1. q \in Places /\ q \notin Satellites(p, c)
        BY <1>2, WalkAssumption DEF Places
      <4> QED BY <1>2, <3>1, <4>1
    <3> QED BY <3>1
  <2>2. Renewed(p)' /\ Waits(p)'
    BY <1>1 DEF Renewed, Waits
  <2> QED BY <1>1, <2>1, <2>2, VisitKeeps
<1>9. Awaited'
  <2>1. IsFile(p)' /\ shadow'[p] \notin {Absent, Dir}
    BY <1>1, <1>6 DEF IsFile
  <2>2. p \in Walked \/ Kind[p] = "source"
    BY <1>0, HereOrder DEF Materialise, Due
  <2>3. Kind[p] \in Markdown => shadow'[p] = Compiled(src, src[p])
    BY <1>2, <1>3
  <2>4. Kind[p] = "collection" /\ pending'.keep => shadow'[p] = pending'.import[2]
    <3> SUFFICES ASSUME Kind[p] = "collection", pending'.keep PROVE shadow'[p] = pending'.import[2]
      OBVIOUS
    <3>1. pending'.import = Specifier(src, p)
      BY <1>4
    <3>2. Specifier(src, p)[2] = Compiled(src, src[p])
      BY DEF Specifier
    <3> QED BY <2>3, <3>1, <3>2 DEF Markdown
  <2>5. Kind[p] = "content" => shadow'[p] = Compiled(src, src[p])' /\ pending'.dep = Ref[src'[p]]
    <3>1. Compiled(src, src[p])' = Compiled(src, src[p])
      BY <1>1 DEF Compiled
    <3> QED BY <1>1, <1>3, <1>4, <2>3, <3>1 DEF Markdown
  <2>6. Kind[p] = "source" => /\ pending'.live = Live(src'[p])
                              /\ Live(src'[p]) \/ shadow'[p] \in {Link, Raw(src'[p])}
    BY <1>1, <1>2, <1>3, <1>4
  <2> QED BY <1>1, <2>1, <2>2, <2>4, <2>5, <2>6 DEF Awaited
<1> QED BY <1>7, <1>8, <1>9

LEMMA MirrorCarries ==
  ASSUME Inv, Dated, Entries, Copies, Placed, NEW p \in Paths, Mirror(p),
         Install(write_if_changed(Tree, p, Raw(src[p]))), pending' = [pass |-> "mirror"], at' = at
  PROVE  Entries' /\ Copies' /\ Placed' /\ Awaited'
<1>1. /\ Visit(p) /\ Here("mirror", p) /\ Plan'[at'][2] = p /\ IsFile(p)
      /\ pending' # None /\ pending'.pass = "mirror" /\ pending = None
      /\ visited' = visited \cup {p} /\ UNCHANGED <<skip, mirrorSkip, src, stamp, clock, aside>>
  <2>1. [pass |-> "mirror"] # None
    BY WalkAssumption DEF Unstored
  <2>2. Visit(p) /\ Here("mirror", p) /\ IsFile(p) /\ visited' = visited \cup {p} /\ UNCHANGED <<skip, mirrorSkip>>
    BY DEF Visit, Mirror, caches
  <2> QED BY <2>1, <2>2, PlanIsConstant, VisitFrame DEF Here
<1>2. Raw(src[p]) \in Contents /\ p \in Mirrored /\ p \notin Walked /\ p \in Places /\ shadow[p] # Dir
  BY <1>1, NoMixing, HereOrder, Disjoint DEF IsFile, Places, Placed
<1>3. shadow'[p] = Raw(src[p]) /\ \A y \in Places : y # p => shadow'[y] = shadow[y]
  BY <1>1, <1>2, WriteVisit DEF Only
<1>4. shadow'[p] \notin {Absent, Dir, Link}
  BY <1>2, <1>3, NoMixing
<1>5. Placed'
  BY <1>1, <1>3, <1>4, VisitPlaces
<1>6. Awaited'
  BY <1>1, <1>2, <1>3, <1>4 DEF Awaited, IsFile
<1>7. ASSUME skip[p] # None PROVE Entry(p)'
  <2>1. Entry(p)
    BY <1>1, <1>7 DEF Entries, Renewed, Waits
  <2>2. Kind[p] = "source"
    BY <1>2, <2>1 DEF Entry
  <2> QED BY <1>1, <1>2, <1>4, <2>1, <2>2, EntryOfFile, KindsDiffer
<1>8. Entries' /\ Copies'
  <2>1. Waits(p)'
    BY <1>1 DEF Waits
  <2>2. \A q \in Paths : q # p => shadow'[q] \in {shadow[q], Absent}
    BY <1>3 DEF Places
  <2> QED BY <1>1, <1>7, <2>1, <2>2, VisitKeeps
<1> QED BY <1>5, <1>6, <1>8

LEMMA RewriteCarries ==
  ASSUME Inv, Dated, Entries, Copies, Placed, NEW p \in Paths, RewriteCss(p)
  PROVE  Entries' /\ Copies' /\ Placed' /\ Awaited'
<1>1. /\ Visit(p) /\ Here("css", p) /\ Kind[p] = "css" /\ shadow[p] \notin {Absent, Dir}
      /\ pending' = None /\ pending = None
      /\ visited' = visited /\ UNCHANGED <<skip, mirrorSkip, src, stamp, clock, aside>>
  BY VisitFrame DEF Visit, RewriteCss, Stylesheet, caches, walk, Here
<1>2. Shim(seen[p]) \in Contents /\ p \in Places
  BY NoMixing DEF Inv, Read, Sources, Places
<1>3. shadow'[p] = Shim(seen[p]) /\ \A y \in Places : y # p => shadow'[y] = shadow[y]
  BY <1>1, <1>2, WriteVisit DEF Only, RewriteCss
<1>4. shadow'[p] \notin {Absent, Dir, Link} /\ at # 0
  BY <1>1, <1>2, <1>3, NoMixing, HereMeans
<1>5. p \in prevVisited \cup visited'
  BY <1>1, <1>2, <1>4 DEF Placed
<1>6. Placed'
  BY <1>1, <1>3, <1>4, <1>5, VisitPlaces
<1>7. ASSUME skip[p] # None PROVE Entry(p)'
  <2>1. Entry(p)
    BY <1>1, <1>7 DEF Entries, Renewed, Waits
  <2> QED BY <1>1, <1>4, <2>1, EntryOfFile, KindsDiffer
<1>8. ASSUME mirrorSkip[p] # None PROVE Copied(p)'
  <2>1. PICK t \in TextsOf[p] : Agrees(p, mirrorSkip[p], t)
    BY <1>1, <1>8 DEF Copies, Copied, Waits
  <2>2. Agrees(p, mirrorSkip[p], t)'
    BY <1>1, <2>1 DEF Agrees, Stat
  <2> QED BY <1>1, <2>2 DEF Copied
<1>9. Entries' /\ Copies'
  <2>1. \A q \in Paths : q # p => shadow'[q] \in {shadow[q], Absent}
    BY <1>3 DEF Places
  <2> QED BY <1>1, <1>7, <1>8, <2>1, VisitKeeps
<1> QED BY <1>1, <1>6, <1>9 DEF Awaited

LEMMA VisitCarries ==
  ASSUME Trackable, Inv, Dated, Edged, Entries, Copies, Placed, NEW p \in Paths, Visit(p)
  PROVE  Entries' /\ Copies' /\ Placed' /\ Awaited'
<1>0. pending = None
  BY VisitFrame DEF Here
<1>1. CASE EnterDir(p)
  BY <1>1, EnterDirCarries
<1>2. CASE PassBy(p) \/ Reuse(p) \/ KeepMirror(p)
  <2>1. shadow' = shadow /\ pending' = None /\ visited \subseteq visited'
    BY <1>0, <1>2 DEF PassBy, Reuse, KeepMirror, walk
  <2> QED BY <2>1, IdleCarries
<1>3. CASE Materialise(p)
  BY <1>3, MaterialiseCarries
<1>4. CASE Mirror(p)
  <2>1. CASE Advance /\ UNCHANGED <<src, shadow, written, pending>>
    <3>1. visited \subseteq visited'
      BY <1>4 DEF Mirror
    <3> QED BY <1>0, <2>1, <3>1, IdleCarries
  <2>2. CASE ~(Advance /\ UNCHANGED <<src, shadow, written, pending>>)
    <3>1. Install(write_if_changed(Tree, p, Raw(src[p]))) /\ pending' = [pass |-> "mirror"] /\ at' = at
      BY <1>4, <2>2 DEF Mirror
    <3> QED BY <1>4, <3>1, MirrorCarries
  <2> QED BY <2>1, <2>2
<1>5. CASE RewriteCss(p)
  BY <1>5, RewriteCarries
<1> QED BY <1>1, <1>2, <1>3, <1>4, <1>5 DEF Visit

-----------------------------------------------------------------------------
(* A visit, and what the call has brought up to date.                      *)

LEMMA SameForm ==
  ASSUME UNCHANGED <<src, settings>>
  PROVE  \A q \in Paths : /\ Form(q)' = Form(q) /\ (Refused(q)' <=> Refused(q))
                          /\ Beside(q)' = Beside(q) /\ Module(q)' = Module(q)
                          /\ (IsFile(q)' <=> IsFile(q))
BY DEF Form, Refused, Beside, Module, IsFile, Render, Rejected, RawTargets, Compiled

LEMMA BesideIsExtra ==
  ASSUME Inv, NEW q \in Paths, Expands(q)
  PROVE  Beside(q) \in Extra /\ Beside(q) \in Places /\ Beside(q) \notin Paths /\ Module(q) \in Contents
<1>1. src[q] \in Texts /\ Ref[src[q]] # None
  BY DEF Expands, IsFile
<1>2. Ref[src[q]] \in Paths /\ Module(q) \in Contents
  BY <1>1, RefInside DEF Module
<1> QED BY <1>2, ShadowAssumption, WalkAssumption DEF Beside, Places

LEMMA SameModule ==
  ASSUME Dated, NEW p \in Paths, NEW q \in Paths, IsFile(p), IsFile(q),
         Ref[src[p]] # None, Ref[src[q]] # None, Beside(p) = Beside(q)
  PROVE  Module(p) = Module(q)
<1>1. src[p] \in TextsOf[p] /\ src[q] \in TextsOf[q]
  BY DEF Dated, IsTree, IsFile
<1>2. Ref[src[p]] = Ref[src[q]]
  BY <1>1, WalkAssumption DEF Beside
<1> QED BY <1>2 DEF Module

LEMMA SettledMove ==
  ASSUME Inv, Dated, Settled, NEW pass, NEW p \in Paths, Here(pass, p), Moved(pass, p), Inv',
         UNCHANGED <<src, clock, settings, input>>, clock = opened,
         \A q \in Paths : q # p /\ Made(q) => shadow'[q] = shadow[q],
         \A x \in Extra : x \in visited => shadow'[x] = shadow[x] \/ (Expands(p)' /\ x = Beside(p)),
         \A x \in Places : x \in visited' <=>
           x \in visited \/ (x = p /\ Made(p)') \/ (Expands(p)' /\ x = Beside(p)),
         Made(p)' => InPlace(p)',
         Expands(p)' => shadow'[Beside(p)] = Module(p)
  PROVE  Settled'
<1>0. /\ src = seen
      /\ \A q \in Paths : q \in visited <=> Made(q)
      /\ \A q \in Paths : Made(q) => InPlace(q)
      /\ \A q \in Paths : Expands(q) => Beside(q) \in visited /\ shadow[Beside(q)] = Module(q)
      /\ \A x \in Extra : x \in visited => \E q \in Paths : Expands(q) /\ Beside(q) = x
  BY HereMeans DEF Settled
<1>1. \A q \in Paths : /\ Form(q)' = Form(q) /\ (Refused(q)' <=> Refused(q))
                       /\ Beside(q)' = Beside(q) /\ Module(q)' = Module(q)
                       /\ (IsFile(q)' <=> IsFile(q))
  BY SameForm
<1>2. \A q \in Paths : q # p => /\ \A r : Passed(r, q)' <=> Passed(r, q)
                                /\ (Made(q)' <=> Made(q)) /\ (Final(q)' <=> Final(q))
                                /\ (Expands(q)' <=> Expands(q))
  BY <1>1 DEF Moved, Made, Final, Expands
<1>3. (Made(p) => Made(p)') /\ (Expands(p) => Expands(p)')
  BY <1>1 DEF Moved, Made, Final, Expands
<1>4. Expands(p)' => Beside(p) \in Extra /\ Beside(p) \notin Paths /\ IsFile(p) /\ Ref[src[p]] # None
  <2> SUFFICES ASSUME Expands(p)' PROVE Beside(p) \in Extra /\ Beside(p) \notin Paths
                                        /\ IsFile(p) /\ Ref[src[p]] # None
    OBVIOUS
  <2>1. IsFile(p) /\ Ref[src[p]] # None
    BY <1>1 DEF Expands
  <2>2. Ref[src[p]] \in Paths
    BY <2>1, RefInside DEF IsFile
  <2> QED BY <2>1, <2>2, ShadowAssumption, WalkAssumption DEF Beside, IsFile
<1>5. \A q \in Paths : q \in visited' <=> Made(q)'
  <2>1. p \in visited' <=> Made(p)'
    BY <1>0, <1>3, <1>4 DEF Places
  <2>2. ASSUME NEW q \in Paths, q # p PROVE q \in visited' <=> Made(q)'
    BY <1>0, <1>2, <1>4, <2>2 DEF Places
  <2> QED BY <2>1, <2>2
<1>6. ASSUME NEW q \in Paths, Made(q)' PROVE InPlace(q)'
  <2>1. CASE q = p
    BY <1>6, <2>1
  <2>2. CASE q # p
    <3>1. shadow'[q] = shadow[q] /\ InPlace(q)
      BY <1>0, <1>2, <1>6, <2>2
    <3> QED BY <1>1, <1>2, <2>2, <3>1 DEF InPlace, Shown
  <2> QED BY <2>1, <2>2
<1>7. ASSUME NEW q \in Paths, Expands(q)'
      PROVE  Beside(q) \in visited' /\ shadow'[Beside(q)] = Module(q)
  <2>1. CASE q = p
    BY <1>4, <1>7, <2>1 DEF Places
  <2>2. CASE q # p
    <3>1. Expands(q) /\ Beside(q) \in visited /\ shadow[Beside(q)] = Module(q)
      BY <1>0, <1>2, <1>7, <2>2
    <3>2. Beside(q) \in Extra /\ Beside(q) \in Places
      BY <3>1, BesideIsExtra
    <3>3. CASE shadow'[Beside(q)] = shadow[Beside(q)]
      BY <3>1, <3>2, <3>3
    <3>4. CASE Expands(p)' /\ Beside(q) = Beside(p)
      <4>1. Module(p) = Module(q)
        BY <1>4, <3>1, <3>4, SameModule DEF Expands
      <4> QED BY <3>1, <3>2, <3>4, <4>1
    <3> QED BY <3>1, <3>2, <3>3, <3>4
  <2> QED BY <2>1, <2>2
<1>8. ASSUME NEW x \in Extra, x \in visited' PROVE \E q \in Paths : Expands(q)' /\ Beside(q) = x
  <2>1. x \in Places /\ x # p
    BY WalkAssumption DEF Places
  <2>2. CASE x \in visited
    <3>1. PICK q \in Paths : Expands(q) /\ Beside(q) = x
      BY <1>0, <2>2
    <3>2. Expands(q)'
      BY <1>2, <1>3, <3>1
    <3> QED BY <3>1, <3>2
  <2>3. CASE Expands(p)' /\ x = Beside(p)
    BY <2>3
  <2> QED BY <1>8, <2>1, <2>2, <2>3
<1>9. src' = seen'
  BY <1>0 DEF input
<1> QED BY <1>1, <1>5, <1>6, <1>7, <1>8, <1>9 DEF Settled

\* Nothing that a call has done is undone.
LEMMA SettledRest ==
  ASSUME Settled, Stayed, at # 0, UNCHANGED <<src, clock, settings, input, visited>>,
         \A x \in visited : shadow'[x] = shadow[x]
  PROVE  Settled'
<1> SUFFICES ASSUME clock = opened
             PROVE  /\ src' = seen'
                    /\ \A p \in Paths : p \in visited' <=> Made(p)'
                    /\ \A p \in Paths : Made(p)' => InPlace(p)'
                    /\ \A p \in Paths : Expands(p)' => /\ Beside(p)' \in visited'
                                                       /\ shadow'[Beside(p)'] = Module(p)'
                    /\ \A x \in Extra : x \in visited' => \E p \in Paths : Expands(p)' /\ Beside(p)' = x
  BY DEF Settled, input
<1>0. /\ src = seen
      /\ \A q \in Paths : q \in visited <=> Made(q)
      /\ \A q \in Paths : Made(q) => InPlace(q)
      /\ \A q \in Paths : Expands(q) => Beside(q) \in visited /\ shadow[Beside(q)] = Module(q)
      /\ \A x \in Extra : x \in visited => \E q \in Paths : Expands(q) /\ Beside(q) = x
  BY DEF Settled
<1>1. \A q \in Paths : /\ Form(q)' = Form(q) /\ (Refused(q)' <=> Refused(q))
                       /\ Beside(q)' = Beside(q) /\ Module(q)' = Module(q)
                       /\ (IsFile(q)' <=> IsFile(q))
  BY SameForm
<1>2. \A q \in Paths : (Made(q)' <=> Made(q)) /\ (Final(q)' <=> Final(q)) /\ (Expands(q)' <=> Expands(q))
  BY <1>1 DEF Stayed, Made, Final, Expands
<1>3. ASSUME NEW q \in Paths, Made(q)' PROVE InPlace(q)'
  <2>1. InPlace(q) /\ shadow'[q] = shadow[q]
    BY <1>0, <1>2, <1>3
  <2> QED BY <1>1, <1>2, <2>1 DEF InPlace, Shown, Stayed
<1>4. ASSUME NEW q \in Paths, Expands(q)'
      PROVE  Beside(q) \in visited' /\ shadow'[Beside(q)] = Module(q)
  BY <1>0, <1>2, <1>4
<1>5. ASSUME NEW x \in Extra, x \in visited' PROVE \E q \in Paths : Expands(q)' /\ Beside(q) = x
  BY <1>0, <1>2, <1>5
<1> QED BY <1>0, <1>1, <1>2, <1>3, <1>4, <1>5 DEF input

\* What lies below a file is not of this call.
LEMMA BelowFile ==
  ASSUME Dated, Settled, at # 0, clock = opened, NEW p \in Paths, IsFile(p)
  PROVE  /\ \A q \in Paths : Made(q) => p \notin Above[q]
         /\ \A x \in Extra : x \in visited => p \notin Above[x]
<1>1. ASSUME NEW q \in Paths, IsFile(q), p \in Above[q] PROVE FALSE
  <2>1. src[q] # Absent /\ src[p] # Dir
    BY <1>1, ShadowAssumption DEF IsFile
  <2> QED BY <1>1, <2>1 DEF Dated, IsTree
<1>2. ASSUME NEW x \in Extra, x \in visited, p \in Above[x] PROVE FALSE
  <2>1. PICK q \in Paths : Expands(q) /\ Beside(q) = x
    BY <1>2 DEF Settled
  <2>2. Ref[src[q]] \in Paths
    BY <2>1, ShadowAssumption DEF Expands, IsFile
  <2>3. p \in Above[q]
    BY <1>2, <2>1, <2>2, WalkAssumption DEF Beside
  <2> QED BY <1>1, <2>1, <2>3 DEF Expands
<1> QED BY <1>1, <1>2 DEF Made

LEMMA IdleSettles ==
  ASSUME Inv, Dated, Settled, NEW pass, NEW p \in Paths, Here(pass, p), Moved(pass, p), Inv',
         UNCHANGED <<src, clock, settings, input, shadow>>, clock = opened,
         \A x \in Places : x \in visited' <=> x \in visited \/ (x = p /\ Made(p)'),
         Made(p)' => InPlace(p)', Expands(p)' => Expands(p)
  PROVE  Settled'
<1>1. Expands(p) => Beside(p) \in visited /\ shadow[Beside(p)] = Module(p)
  BY HereMeans DEF Settled
<1> QED BY <1>1, SettledMove

\* What passing by shows of a path.
LEMMA PassByMeans ==
  ASSUME Inv, Dated, Collecting, Settled, clock = opened, NEW pass, NEW p \in Paths, Here(pass, p), PassBy(p)
  PROVE  /\ pass \in {"walk", "mirror"} => ~IsFile(p)
         /\ pass = "enrol" /\ IsFile(p) => Kind[p] # "source"
         /\ pass = "css" /\ IsFile(p) /\ p \in visited => Kind[p] # "css"
<1>1. \A r : Here(r, p) => r = pass
  BY DEF Here
<1>2. CASE pass = "walk"
  <2>1. src[p] = Absent
    BY <1>1, <1>2, Entered DEF PassBy
  <2> QED BY <1>2, <2>1, ShadowAssumption DEF IsFile
<1>3. CASE pass = "mirror"
  BY <1>1, <1>3 DEF PassBy
<1>4. CASE pass = "enrol"
  <2>1. IsFile(p) => p \in visited
    BY <1>4, HereOrder, HereMeans DEF Settled, Made
  <2> QED BY <1>1, <1>4, <2>1 DEF PassBy, Due
<1>5. CASE pass = "css"
  <2>1. IsFile(p) /\ p \in visited => shadow[p] \notin {Absent, Dir}
    BY HereMeans DEF Settled, InPlace
  <2> QED BY <1>1, <1>5, <2>1 DEF PassBy, Stylesheet
<1> QED BY <1>2, <1>3, <1>4, <1>5

LEMMA PassBySettles ==
  ASSUME Inv, Dated, Collecting, Settled, clock = opened, NEW p \in Paths, PassBy(p)
  PROVE  Settled'
<1>1. Visit(p) /\ UNCHANGED <<shadow, visited>>
  BY DEF Visit, PassBy, walk
<1>2. PICK pass \in Passes : Here(pass, p) /\ Moved(pass, p)
  BY <1>1, VisitFrame
<1>3. UNCHANGED <<src, clock, settings, input>> /\ Inv' /\ at # 0
  BY <1>1, VisitFrame, VisitStep DEF session
<1>4. (Made(p) <=> p \in visited) /\ (Made(p) => InPlace(p))
  BY <1>3 DEF Settled
<1>5. /\ Form(p)' = Form(p) /\ (Refused(p)' <=> Refused(p)) /\ (IsFile(p)' <=> IsFile(p))
      /\ Beside(p)' = Beside(p)
  BY <1>3, SameForm
<1>6. Made(p)' <=> Made(p)
  BY <1>2, <1>5, PassByMeans DEF Made, Moved
<1>7. IsFile(p) => (Final(p)' <=> Final(p))
  <2>1. pass = "walk" => ~IsFile(p)
    BY <1>2, PassByMeans
  <2>2. pass = "enrol" /\ IsFile(p) => Kind[p] # "source"
    BY <1>2, PassByMeans
  <2> QED BY <1>2, <1>5, <2>1, <2>2 DEF Final, Moved
<1>8. ASSUME Made(p) PROVE InPlace(p)'
  <2>1. IsFile(p) /\ InPlace(p) /\ p \in visited
    BY <1>4, <1>8 DEF Made
  <2>2. Kind[p] = "css" => (Passed("css", p)' <=> Passed("css", p))
    BY <1>2, <2>1, PassByMeans DEF Moved
  <2> QED BY <1>1, <1>3, <1>5, <1>7, <2>1, <2>2 DEF InPlace, Shown
<1>9. Expands(p)' => Expands(p)
  BY <1>3, <1>5, <1>7 DEF Expands
<1> QED BY <1>1, <1>2, <1>3, <1>4, <1>6, <1>8, <1>9, IdleSettles

LEMMA EnterDirSettles ==
  ASSUME Inv, Dated, Settled, clock = opened, NEW p \in Paths, EnterDir(p)
  PROVE  Settled'
<1>1. Visit(p) /\ visited' = visited /\ src[p] = Dir /\ p \in Places
  BY DEF Visit, EnterDir, Places
<1>2. PICK pass \in Passes : Here(pass, p) /\ Moved(pass, p)
  BY <1>1, VisitFrame
<1>3. UNCHANGED <<src, clock, settings, input>> /\ Inv' /\ at # 0
  BY <1>1, VisitFrame, VisitStep DEF session
<1>4. ~IsFile(p) /\ ~IsFile(p)'
  BY <1>1, <1>3, ShadowAssumption DEF IsFile
<1>5. ~Made(p)' /\ ~Expands(p)'
  BY <1>4 DEF Made, Expands
<1>6. \A y \in Places : y # p => shadow'[y] = shadow[y]
  BY EnterDirEffect
<1>7. \A x \in Extra : x # p
  BY WalkAssumption
<1> QED BY <1>1, <1>2, <1>3, <1>5, <1>6, <1>7, SettledMove DEF Places

-----------------------------------------------------------------------------
(* What is not made again is what would be made.                           *)

LEMMA ReuseMeans ==
  ASSUME Trackable, Inv, Dated, Named, Entries, src = seen, NEW pass, NEW p \in Paths, Here(pass, p), Reuse(p)
  PROVE  /\ IsFile(p) /\ shadow[p] \notin {Absent, Dir}
         /\ Kind[p] \in Markdown => shadow[p] = Form(p)
         /\ Kind[p] = "source" => Form(p) = Raw(src[p]) /\ (p \in Walked => Shown(p, Raw(src[p])))
         /\ Form(p).form # "expanded"
<1>1. /\ IsFile(p) /\ skip[p] # None /\ skip[p].stamp = stamp[p] /\ shadow[p] # Absent /\ ~skip[p].live
      /\ Stat(skip[p].dep) = skip[p].depStat
      /\ skip[p].import = None \/ skip[p].import \in Snapshot
  BY DEF Reuse, Due, SkipHolds
<1>2. Entry(p)
  BY <1>1 DEF Entries, Renewed, Waits, Here
<1>3. stamp[p] \in Nat /\ src[p] \in Texts /\ src[p] # Absent /\ Stat(p) = stamp[p]
  BY <1>1, ShadowAssumption, WalkAssumption DEF IsFile, Inv, TypeOK, Stat
<1>4. shadow[p] # Dir
  BY <1>1, <1>2, <1>3 DEF Entry
<1>5. /\ Kind[p] \in Markdown => Form(p) = Compiled(src, src[p]) /\ Form(p).form = "compiled"
      /\ Kind[p] = "source" => /\ Form(p) = IF Live(src[p]) THEN Expanded(src, src[p]) ELSE Raw(src[p])
                               /\ (Form(p).form = "expanded") = Live(src[p])
      /\ Kind[p] # "source" => Form(p).form # "expanded"
  BY <1>1, Renders DEF Dated, Form
<1>6. CASE Kind[p] = "collection"
  <2>1. Imported(p, skip[p].import)
    BY <1>1 DEF Named
  <2>2. skip[p].import = Specifier(src, p)
    BY <1>1, <1>6, <2>1, ImportIsSpecifier DEF Imported
  <2>3. skip[p].import[2] = Compiled(src, src[p])
    BY <2>2 DEF Specifier
  <2>4. shadow[p] = Compiled(src, src[p])
    BY <1>1, <1>2, <1>4, <1>6, <2>3 DEF Entry
  <2> QED BY <1>1, <1>4, <1>5, <1>6, <2>4, KindsDiffer
<1>7. CASE Kind[p] = "content"
  <2>1. PICK t \in TextsOf[p], v \in Texts \cup {Absent, Dir} :
          /\ Agrees(p, skip[p].stamp, t) /\ shadow[p] \in {Absent, Dir, Output(t, v)}
          /\ skip[p].dep = Ref[t] /\ (Ref[t] # None => Agrees(Ref[t], skip[p].depStat, v))
    BY <1>2, <1>7 DEF Entry
  <2>2. src[p] = t
    BY <1>1, <1>3, <2>1 DEF Agrees
  <2>3. Ref[t] # None => src[Ref[t]] = v
    BY <1>1, <2>1 DEF Agrees
  <2>4. Output(t, v) = Compiled(src, t)
    BY <2>3 DEF Output, Compiled
  <2> QED BY <1>1, <1>4, <1>5, <1>7, <2>1, <2>2, <2>4, KindsDiffer DEF Markdown
<1>8. CASE Kind[p] = "source"
  <2>1. PICK t \in TextsOf[p] : /\ ~Live(t) /\ Agrees(p, skip[p].stamp, t)
                                /\ p \in Walked => shadow[p] \in {Absent, Dir, Link, Raw(t)}
    BY <1>1, <1>2, <1>8 DEF Entry
  <2>2. src[p] = t
    BY <1>1, <1>3, <2>1 DEF Agrees
  <2>3. Form(p) = Raw(src[p]) /\ Form(p).form # "expanded"
    BY <1>5, <1>8, <2>1, <2>2
  <2>4. p \in Walked => Shown(p, Raw(src[p]))
    BY <1>1, <1>4, <2>1, <2>2 DEF Shown
  <2> QED BY <1>1, <1>4, <1>8, <2>3, <2>4, KindsDiffer
<1>9. CASE Kind[p] = "css"
  BY <1>1, <1>4, <1>5, <1>9, KindsDiffer
<1>10. Kind[p] \in {"source", "css"} \cup Markdown
  BY WalkAssumption
<1> QED BY <1>6, <1>7, <1>8, <1>9, <1>10 DEF Markdown

LEMMA ReuseSettles ==
  ASSUME Trackable, Inv, Dated, Named, Entries, Settled, clock = opened, NEW p \in Paths, Reuse(p)
  PROVE  Settled'
<1>1. Visit(p) /\ shadow' = shadow /\ visited' = visited \cup {p} /\ IsFile(p) /\ p \in Places
  BY DEF Visit, Reuse, Due, Places
<1>2. PICK pass \in Passes : Here(pass, p) /\ Moved(pass, p)
  BY <1>1, VisitFrame
<1>3. UNCHANGED <<src, clock, settings, input>> /\ Inv' /\ at # 0 /\ src = seen
  BY <1>1, VisitFrame, VisitStep DEF session, Settled
<1>4. /\ shadow[p] \notin {Absent, Dir}
      /\ Kind[p] \in Markdown => shadow[p] = Form(p)
      /\ Kind[p] = "source" => Form(p) = Raw(src[p]) /\ (p \in Walked => Shown(p, Raw(src[p])))
      /\ Form(p).form # "expanded"
  BY <1>2, <1>3, ReuseMeans
<1>5. Form(p)' = Form(p) /\ (IsFile(p)' <=> IsFile(p)) /\ (Refused(p)' <=> Refused(p))
  BY <1>3, SameForm
<1>6. pass = "walk" \/ (pass = "enrol" /\ Kind[p] = "source" /\ p \in visited)
  BY <1>1, <1>2 DEF Reuse, Due, Here
<1>7. CASE pass = "walk"
  <2>1. p \in Walked /\ Passed("walk", p)' /\ ~Passed("css", p)'
    BY <1>2, <1>7, HereOrder DEF Moved
  <2>2. Made(p)' /\ Final(p)'
    BY <1>1, <1>5, <2>1 DEF Made, Final
  <2>3. Kind[p] # "css" => Shown(p, Form(p))
    BY <1>4, <2>1, WalkAssumption DEF Shown
  <2>4. InPlace(p)'
    BY <1>1, <1>3, <1>4, <1>5, <2>1, <2>2, <2>3 DEF InPlace, Shown
  <2>5. ~Expands(p)'
    BY <1>4, <1>5 DEF Expands
  <2> QED BY <1>1, <1>2, <1>3, <2>2, <2>4, <2>5, IdleSettles
<1>8. CASE pass = "enrol" /\ Kind[p] = "source" /\ p \in visited
  <2>1. p \in Mirrored /\ p \notin Walked /\ Passed("mirror", p) /\ ~Passed("enrol", p)
    BY <1>2, <1>8, HereOrder, Disjoint
  <2>2. Made(p) /\ Made(p)' /\ ~Final(p)
    BY <1>1, <1>2, <1>5, <2>1 DEF Made, Final, Moved
  <2>3. shadow[p] = Raw(src[p])
    BY <1>3, <1>8, <2>2, KindsDiffer DEF Settled, InPlace
  <2>4. InPlace(p)'
    BY <1>1, <1>3, <1>4, <1>5, <1>8, <2>3 DEF InPlace, Shown
  <2>5. ~Expands(p)'
    BY <1>4, <1>5 DEF Expands
  <2> QED BY <1>1, <1>2, <1>3, <1>8, <2>2, <2>4, <2>5, IdleSettles
<1> QED BY <1>6, <1>7, <1>8

LEMMA KeepMirrorSettles ==
  ASSUME Trackable, Inv, Dated, Edged, Settled, clock = opened, NEW p \in Paths, KeepMirror(p)
  PROVE  Settled'
<1>1. /\ Visit(p) /\ Here("enrol", p) /\ UNCHANGED <<shadow, visited>> /\ IsFile(p)
      /\ Rejected(src, p, RawTargets(seen))
  BY EdgesSpareDue DEF Visit, KeepMirror, Due, walk
<1>2. Moved("enrol", p)
  <2>1. PICK pass \in Passes : Here(pass, p) /\ Moved(pass, p)
    BY <1>1, VisitFrame
  <2> QED BY <1>1, <2>1 DEF Here
<1>3. UNCHANGED <<src, clock, settings, input>> /\ Inv' /\ at # 0 /\ src = seen
  BY <1>1, VisitFrame, VisitStep DEF session, Settled
<1>4. p \in Mirrored /\ p \notin Walked /\ Passed("mirror", p) /\ Refused(p)
  BY <1>1, <1>3, HereOrder, Disjoint DEF Refused
<1>5. /\ Form(p)' = Form(p) /\ (IsFile(p)' <=> IsFile(p)) /\ (Refused(p)' <=> Refused(p))
  BY <1>3, SameForm
<1>6. Made(p) /\ Made(p)' /\ ~Final(p) /\ ~Final(p)'
  BY <1>1, <1>2, <1>4, <1>5 DEF Made, Final, Moved
<1>7. p \in visited /\ InPlace(p)
  BY <1>3, <1>6 DEF Settled
<1>8. InPlace(p)'
  BY <1>1, <1>2, <1>3, <1>6, <1>7 DEF InPlace, Moved
<1>9. ~Expands(p)'
  BY <1>6 DEF Expands
<1> QED BY <1>1, <1>2, <1>3, <1>6, <1>7, <1>8, <1>9, IdleSettles

LEMMA MirrorSettles ==
  ASSUME Inv, Dated, Copies, Placed, Settled, clock = opened, NEW p \in Paths, Mirror(p)
  PROVE  Settled'
<1>1. Visit(p) /\ Here("mirror", p) /\ visited' = visited \cup {p} /\ IsFile(p) /\ p \in Places
  BY DEF Visit, Mirror, Places
<1>2. Moved("mirror", p)
  <2>1. PICK pass \in Passes : Here(pass, p) /\ Moved(pass, p)
    BY <1>1, VisitFrame
  <2> QED BY <1>1, <2>1 DEF Here
<1>3. UNCHANGED <<src, stamp, clock, settings, input>> /\ Inv' /\ at # 0
  BY <1>1, VisitFrame, VisitStep DEF session
<1>4. /\ p \in Mirrored /\ p \notin Walked /\ ~Passed("enrol", p)' /\ ~Passed("css", p)'
      /\ Passed("mirror", p)' /\ shadow[p] # Dir
  BY <1>1, <1>2, HereOrder, Disjoint DEF Moved, Placed
<1>5. IsFile(p)' /\ Made(p)' /\ ~Final(p)' /\ ~Expands(p)'
  BY <1>1, <1>3, <1>4 DEF Made, Final, Expands, IsFile
<1>6. Raw(src[p]) \in Contents /\ Raw(src[p]) \notin {Absent, Dir}
  BY <1>1, NoMixing DEF IsFile
<1>7. CASE UNCHANGED shadow /\ mirrorSkip[p] = stamp[p] /\ shadow[p] # Absent
  <2>1. mirrorSkip[p] # None /\ Stat(p) = stamp[p] /\ pending = None
    BY <1>1, <1>7, WalkAssumption, ShadowAssumption DEF Inv, TypeOK, Stat, IsFile, Here
  <2>2. Copied(p)
    BY <2>1 DEF Copies, Waits
  <2>3. Kind[p] = "css" \/ shadow[p] = Raw(src[p])
    BY <1>7, <2>1, <2>2 DEF Copied, Agrees
  <2>4. InPlace(p)'
    BY <1>3, <1>4, <1>5, <1>7, <2>3 DEF InPlace
  <2> QED BY <1>1, <1>2, <1>3, <1>5, <1>7, <2>4, IdleSettles
<1>8. CASE Install(write_if_changed(Tree, p, Raw(src[p])))
  <2>1. shadow'[p] = Raw(src[p]) /\ \A y \in Places : y # p => shadow'[y] = shadow[y]
    BY <1>1, <1>4, <1>6, <1>8, WriteVisit DEF Only
  <2>2. InPlace(p)'
    BY <1>3, <1>4, <1>5, <1>6, <2>1 DEF InPlace
  <2>3. \A x \in Extra : x # p
    BY WalkAssumption
  <2> QED BY <1>1, <1>2, <1>3, <1>5, <2>1, <2>2, <2>3, SettledMove DEF Places
<1> QED BY <1>7, <1>8 DEF Mirror

LEMMA RewriteSettles ==
  ASSUME Inv, Dated, Settled, clock = opened, NEW p \in Paths, RewriteCss(p)
  PROVE  Settled'
<1>1. /\ Visit(p) /\ Here("css", p) /\ visited' = visited /\ p \in Places /\ Kind[p] = "css"
      /\ shadow[p] \notin {Absent, Dir}
  BY DEF Visit, RewriteCss, Stylesheet, walk, Places
<1>2. Moved("css", p)
  <2>1. PICK pass \in Passes : Here(pass, p) /\ Moved(pass, p)
    BY <1>1, VisitFrame
  <2> QED BY <1>1, <2>1 DEF Here
<1>3. UNCHANGED <<src, clock, settings, input>> /\ Inv' /\ at # 0 /\ src = seen
  BY <1>1, VisitFrame, VisitStep DEF session, Settled
<1>4. Shim(src[p]) \in Contents
  BY NoMixing DEF Inv, Read, Sources
<1>5. shadow'[p] = Shim(src[p]) /\ \A y \in Places : y # p => shadow'[y] = shadow[y]
  BY <1>1, <1>3, <1>4, WriteVisit DEF Only, RewriteCss
<1>6. shadow'[p] \notin {Absent, Dir}
  BY <1>4, <1>5, NoMixing
<1>7. (Made(p)' <=> Made(p)) /\ (Expands(p)' <=> Expands(p))
  BY <1>2, <1>3, SameForm DEF Made, Expands, Final, Moved
<1>8. InPlace(p)'
  BY <1>1, <1>3, <1>5, <1>6 DEF InPlace
<1>9. /\ Made(p) => p \in visited
      /\ Expands(p) => Beside(p) \in visited /\ shadow[Beside(p)] = Module(p) /\ Beside(p) \in Places
                       /\ Beside(p) # p
  BY <1>3, BesideIsExtra DEF Settled
<1>10. \A x \in Extra : x # p
  BY WalkAssumption
<1> QED BY <1>1, <1>2, <1>3, <1>5, <1>7, <1>8, <1>9, <1>10, SettledMove DEF Places

LEMMA MaterialiseSettles ==
  ASSUME Trackable, Inv, Dated, Edged, Placed, Settled, clock = opened, NEW p \in Paths, Materialise(p)
  PROVE  Settled'
<1> DEFINE c == Render(src, p, Targets)
           x == Generated[p][Ref[src[p]]]
<1>0. /\ c = Render(src, p, RawTargets(seen))
      /\ Rejected(src, p, Targets) <=> Rejected(src, p, RawTargets(seen))
  BY EdgesSpareDue DEF Materialise
<1>1. /\ Visit(p) /\ IsFile(p) /\ p \in Places /\ ~Rejected(src, p, RawTargets(seen))
      /\ visited' = visited \cup {p} \cup Satellites(p, c)
  BY <1>0 DEF Visit, Materialise, Due, Places
<1>2. PICK pass \in Passes : Here(pass, p) /\ Moved(pass, p)
  BY <1>1, VisitFrame
<1>3. UNCHANGED <<src, clock, settings, input>> /\ Inv' /\ at # 0 /\ src = seen
  BY <1>1, VisitFrame, VisitStep DEF session, Settled
<1>4. c = Form(p) /\ ~Refused(p) /\ x = Beside(p) /\ Content("module", src[Ref[src[p]]], {}) = Module(p)
  BY <1>0, <1>1, <1>3 DEF Form, Refused, Beside, Module
<1>5. /\ c \in Contents
      /\ shadow'[p] = c \/ (shadow'[p] = Link /\ copyMode = FALSE /\ c.form = "raw")
      /\ Satellites(p, c) # {} => /\ Satellites(p, c) = {x} /\ x \in Extra /\ x # p
                                  /\ shadow'[x] = Content("module", src[Ref[src[p]]], {})
      /\ \A y \in Places : y # p /\ y \notin Satellites(p, c) =>
           shadow'[y] = shadow[y] \/ (shadow'[y] = Absent /\ p \in Above[y])
  <2>1. copyMode \in BOOLEAN
    BY <1>3 DEF Placed
  <2> QED BY <2>1, NoModuleIsDir, MaterialiseEffect
<1>6. Satellites(p, c) = IF c.form = "expanded" /\ Ref[src[p]] # None THEN {x} ELSE {}
  BY DEF Satellites
<1>7. c.form = "raw" => c = Raw(src[p])
  BY <1>0, <1>1, Renders DEF Dated
<1> HIDE DEF c, x
<1>8. /\ Form(p)' = Form(p) /\ (IsFile(p)' <=> IsFile(p)) /\ (Refused(p)' <=> Refused(p))
      /\ Beside(p)' = Beside(p) /\ Module(p)' = Module(p)
  BY <1>3, SameForm
<1>9. /\ \/ p \in Walked /\ Passed("walk", p)'
         \/ p \in Mirrored /\ Passed("mirror", p)' /\ Passed("enrol", p)' /\ Kind[p] = "source"
      /\ ~Passed("css", p)'
  <2>1. pass = "walk" \/ (pass = "enrol" /\ Kind[p] = "source")
    BY <1>2 DEF Materialise, Due, Here
  <2>2. CASE pass = "walk"
    BY <1>2, <2>2, HereOrder DEF Moved
  <2>3. CASE pass = "enrol" /\ Kind[p] = "source"
    BY <1>2, <2>3, HereOrder DEF Moved
  <2> QED BY <2>1, <2>2, <2>3
<1>10. Made(p)' /\ Final(p)'
  BY <1>1, <1>4, <1>8, <1>9 DEF Made, Final
<1>11. Expands(p)' <=> c.form = "expanded" /\ Ref[src[p]] # None
  BY <1>1, <1>3, <1>4, <1>8, <1>10 DEF Expands
<1>12. InPlace(p)'
  <2>1. shadow'[p] \notin {Absent, Dir}
    BY <1>5, NoMixing, ShadowAssumption
  <2>2. Shown(p, Form(p))'
    BY <1>3, <1>4, <1>5, <1>7, <1>8 DEF Shown
  <2> QED BY <1>9, <1>10, <2>1, <2>2 DEF InPlace
<1>13. ASSUME NEW q \in Paths, q # p, Made(q) PROVE shadow'[q] = shadow[q]
  <2>1. p \notin Above[q]
    BY <1>1, <1>3, <1>13, BelowFile
  <2>2. q \in Places /\ q \notin Satellites(p, c)
    BY <1>5, WalkAssumption DEF Places
  <2> QED BY <1>5, <1>13, <2>1, <2>2
<1>14. ASSUME NEW y \in Extra, y \in visited PROVE shadow'[y] = shadow[y] \/ (Expands(p)' /\ y = Beside(p))
  <2>1. p \notin Above[y]
    BY <1>1, <1>3, <1>14, BelowFile
  <2>2. y \in Places /\ y # p
    BY WalkAssumption DEF Places
  <2> QED BY <1>4, <1>5, <1>6, <1>11, <2>1, <2>2
<1>15. \A y \in Places : y \in visited' <=>
         y \in visited \/ (y = p /\ Made(p)') \/ (Expands(p)' /\ y = Beside(p))
  BY <1>1, <1>4, <1>6, <1>10, <1>11 DEF c
<1>16. Expands(p)' => shadow'[Beside(p)] = Module(p)
  BY <1>4, <1>5, <1>6, <1>11
<1> QED BY <1>2, <1>3, <1>10, <1>12, <1>13, <1>14, <1>15, <1>16, SettledMove

-----------------------------------------------------------------------------
(* Every step keeps what the session trusts.                               *)

LEMMA VisitFits ==
  ASSUME Trackable, Inv, Bridging, Edged, Fit, NEW p \in Paths, Visit(p)
  PROVE  Fit'
<1> USE DEF Bridging
<1>1. at # 0 /\ Valid /\ UNCHANGED <<clock, input>>
  BY VisitFrame DEF Valid
<1>2. Entries /\ Copies /\ Placed /\ Settled
  BY <1>1 DEF Fit
<1>3. Entries' /\ Copies' /\ Placed' /\ Awaited'
  BY <1>2, VisitCarries
<1>4. Settled'
  <2>1. CASE clock # opened
    BY <1>1, <2>1 DEF Settled, input
  <2>2. CASE clock = opened
    BY <1>2, <2>2, EnterDirSettles, PassBySettles, ReuseSettles, MaterialiseSettles, KeepMirrorSettles,
       MirrorSettles, RewriteSettles DEF Visit
  <2> QED BY <2>1, <2>2
<1> QED BY <1>3, <1>4 DEF Fit

\* A file that waits for its stat is what was read, unless it is an entry of a
\* collection: those are all that may be saved meanwhile.
LEMMA EditAwaits ==
  ASSUME Trackable, Inv, Dated, Awaited, Edit
  PROVE  Awaited'
<1>1. /\ UNCHANGED <<shadow, at, pending, settings>> /\ Plan' = Plan
  BY PlanIsConstant DEF Edit, Save, MakeDir, Delete, MoveAway, MoveBack, Edited, session
<1>2. CASE pending = None
  BY <1>1, <1>2 DEF Awaited
<1>3. CASE pending # None
  <2> DEFINE p == Plan[at][2]
  <2>1. PICK q \in EditsInWindow : Save(q)
    BY <1>3 DEF Edit, Save, MakeDir, Delete, MoveAway, MoveBack, MayEdit
  <2>2. q \in Walked /\ Kind[q] = "collection" /\ q \notin Mirrored /\ q \in Paths
    BY <2>1, Disjoint DEF Trackable
  <2>3. /\ \A x \in Paths : x # q => src'[x] = src[x]
        /\ src'[q] \in Texts
    <3>1. PICK t \in TextsOf[q] : src' = [src EXCEPT ![q] = t]
      BY <2>1 DEF Save, Edited
    <3> QED BY <2>2, <3>1, ShadowAssumption DEF Inv, Read, Sources
  <2>4. p \in Paths /\ src[p] \in Texts /\ src[p] \in TextsOf[p]
    BY <1>3, PlanIsASeq DEF Inv, Running, Awaited, IsFile, Dated, IsTree
  <2>5. IsFile(p)'
    BY <1>1, <2>3, <2>4 DEF IsFile
  <2>6. p # q => src'[p] = src[p]
    BY <2>3, <2>4
  <2>7. Kind[p] = "content" => Compiled(src, src[p])' = Compiled(src, src[p]) /\ src'[p] = src[p]
    <3> SUFFICES ASSUME Kind[p] = "content"
                 PROVE  Compiled(src, src[p])' = Compiled(src, src[p]) /\ src'[p] = src[p]
      OBVIOUS
    <3>1. src'[p] = src[p]
      BY <2>2, <2>6
    <3>2. Ref[src[p]] # None => Ref[src[p]] \in Paths /\ Ref[src[p]] # q
      BY <2>1, <2>4, ShadowAssumption DEF Trackable
    <3> QED BY <1>1, <2>3, <3>1, <3>2 DEF Compiled
  <2>8. pending.pass = "mirror" => p # q
    BY <1>3, <2>2 DEF Awaited
  <2>9. Kind[p] = "source" => p # q
    BY <2>2
  <2> HIDE DEF p
  <2>10. /\ shadow[p] \notin {Absent, Dir}
         /\ pending.pass = "mirror" => p \in Mirrored /\ shadow[p] = Raw(src[p])
         /\ pending.pass = "materialise" =>
              /\ p \in Walked \/ Kind[p] = "source"
              /\ Kind[p] = "collection" /\ pending.keep => shadow[p] = pending.import[2]
              /\ Kind[p] = "content" => shadow[p] = Compiled(src, src[p]) /\ pending.dep = Ref[src[p]]
              /\ Kind[p] = "source" =>
                   pending.live = Live(src[p]) /\ (Live(src[p]) \/ shadow[p] \in {Link, Raw(src[p])})
    BY <1>3 DEF Awaited, p
  <2>11. /\ pending.pass = "mirror" => p \in Mirrored /\ shadow[p] = Raw(src'[p])
         /\ Kind[p] = "source" /\ pending.pass = "materialise" =>
              pending.live = Live(src'[p]) /\ (Live(src'[p]) \/ shadow[p] \in {Link, Raw(src'[p])})
    BY <2>6, <2>8, <2>9, <2>10
  <2>12. Kind[p] = "content" /\ pending.pass = "materialise" =>
           shadow[p] = Compiled(src, src[p])' /\ pending.dep = Ref[src'[p]]
    BY <2>7, <2>10
  <2> QED BY <1>1, <2>5, <2>10, <2>11, <2>12 DEF Awaited, p
<1> QED BY <1>2, <1>3

LEMMA EditFits ==
  ASSUME Trackable, Inv, Dated, Fit, Edit
  PROVE  Fit'
<1>1. UNCHANGED <<shadow, skip, mirrorSkip, prevVisited, visited, dirty, copyMode, at, opened, pending>>
  BY DEF Edit, Save, MakeDir, Delete, MoveAway, MoveBack, Edited, caches, session, walk, input
<1>2. clock' = clock + 1 /\ clock \in Nat /\ opened \in 1..clock
  BY EditTraces DEF Inv, TypeOK
<1>3. Awaited' /\ Settled'
  BY <1>1, <1>2, EditAwaits DEF Fit, Settled
<1>4. ASSUME Valid PROVE Entries' /\ Copies' /\ Placed'
  <2>1. Entries /\ Copies /\ Placed
    BY <1>4 DEF Fit
  <2>2. \A p \in Paths : (Waits(p)' <=> Waits(p)) /\ (Renewed(p)' <=> Renewed(p))
    BY <1>1, PlanIsConstant DEF Waits, Renewed
  <2>3. \A p \in Paths : skip[p] # None /\ ~Renewed(p) => Entry(p)'
    BY <2>1, EntryOutlivesEdit DEF Entries, Placed, Places
  <2>4. \A p \in Paths : mirrorSkip[p] # None => p \in Mirrored /\ (Waits(p) \/ Copied(p)')
    BY <2>1, CopyOutlivesEdit DEF Copies
  <2>5. Placed'
    BY <1>1, <2>1, PlanIsConstant DEF Placed, Esbuild
  <2> QED BY <1>1, <2>2, <2>3, <2>4, <2>5 DEF Entries, Copies
<1>5. Valid' <=> Valid
  BY <1>1 DEF Valid
<1> QED BY <1>3, <1>4, <1>5 DEF Fit

LEMMA StoreFits ==
  ASSUME Inv, Dated, Named, Fit, Store
  PROVE  Fit'
<1>0. PICK p \in Paths : p = Plan[at][2]
  BY StoreFrame
<1>1. /\ at \in 1..Len(Plan) /\ pending # None /\ at' = at + 1 /\ pending' = None /\ Stayed
      /\ at # 0 /\ at' # 0
      /\ UNCHANGED <<src, stamp, clock, aside, settings, shadow, prevVisited, copyMode, input, visited>>
  BY StoreFrame DEF disk, session, walk
<1>2. Entries /\ Copies /\ Placed /\ Settled /\ Awaited
  BY <1>1 DEF Fit, Valid
<1>3. Awaited' /\ Settled'
  BY <1>1, <1>2, SettledRest DEF Awaited
<1>4. Placed'
  <2>1. ~Esbuild'
    BY <1>1, PlanIsConstant DEF Esbuild
  <2> QED BY <1>1, <1>2, <2>1 DEF Placed
<1>5. /\ IsFile(p) /\ shadow[p] \notin {Absent, Dir}
      /\ pending.pass = "mirror" => p \in Mirrored /\ shadow[p] = Raw(src[p])
      /\ pending.pass = "materialise" =>
           /\ p \in Walked \/ Kind[p] = "source"
           /\ Kind[p] = "collection" /\ pending.keep => shadow[p] = pending.import[2]
           /\ Kind[p] = "content" => shadow[p] = Compiled(src, src[p]) /\ pending.dep = Ref[src[p]]
           /\ Kind[p] = "source" =>
                pending.live = Live(src[p]) /\ (Live(src[p]) \/ shadow[p] \in {Link, Raw(src[p])})
  BY <1>0, <1>1, <1>2 DEF Awaited
<1>6. /\ src[p] \in TextsOf[p] /\ src[p] \in Texts /\ src[p] # Dir /\ Stat(p) = stamp[p]
      /\ Agrees(p, stamp[p], src[p])
  <2>1. src[p] \in TextsOf[p] /\ src[p] \in Texts /\ src[p] # Dir /\ src[p] # Absent /\ p # None
    BY <1>1, <1>5, ShadowAssumption, WalkAssumption DEF IsFile, Dated, IsTree
  <2>2. Stat(p) = stamp[p]
    BY <2>1 DEF Stat
  <2> QED BY <1>1, <2>1, <2>2, AgreesNow
<1> DEFINE e == [stamp |-> stamp[p], live |-> pending.live, dep |-> pending.dep,
                 depStat |-> Stat(pending.dep), import |-> pending.import]
<1>7. /\ pending.pass = "mirror" => skip' = skip /\ mirrorSkip' = [mirrorSkip EXCEPT ![p] = stamp[p]]
      /\ pending.pass # "mirror" =>
           /\ skip' = [skip EXCEPT ![p] = IF pending.keep THEN e ELSE None]
           /\ mirrorSkip' = IF Kind[p] \in Markdown THEN mirrorSkip ELSE [mirrorSkip EXCEPT ![p] = None]
      /\ DOMAIN skip = Paths /\ DOMAIN mirrorSkip = Paths
  BY <1>0, <1>5 DEF Store, Evict, Inv, TypeOK
<1>8. \A q, k, v : Agrees(q, k, v)' <=> Agrees(q, k, v)
  BY <1>1 DEF Agrees, Stat
<1>9. ASSUME NEW q \in Paths, q # p
      PROVE  /\ skip'[q] # None => Entry(q)'
             /\ mirrorSkip'[q] # None => q \in Mirrored /\ Copied(q)'
  <2>1. skip'[q] = skip[q] /\ mirrorSkip'[q] = mirrorSkip[q] /\ shadow'[q] \in {shadow[q], Absent}
    BY <1>1, <1>7, <1>9
  <2>2. ~Waits(q) /\ ~Renewed(q)
    BY <1>0, <1>9 DEF Waits, Renewed
  <2>3. skip'[q] # None => Entry(q)'
    BY <1>1, <1>2, <2>1, <2>2, EntryKeeps DEF Entries
  <2>4. mirrorSkip'[q] # None => q \in Mirrored /\ Copied(q)'
    BY <1>1, <1>2, <2>1, <2>2, CopyKeeps DEF Copies
  <2> QED BY <2>3, <2>4
<1>10. (skip'[p] # None => Entry(p)') /\ (mirrorSkip'[p] # None => p \in Mirrored /\ Copied(p)')
  <2>1. CASE pending.pass = "mirror"
    <3>1. skip'[p] = skip[p] /\ mirrorSkip'[p] = stamp[p] /\ p \in Mirrored /\ shadow'[p] = Raw(src[p])
      BY <1>1, <1>5, <1>7, <2>1
    <3>2. skip'[p] # None => Entry(p)'
      <4>1. ~Renewed(p)
        BY <2>1 DEF Renewed
      <4> QED BY <1>1, <1>2, <3>1, <4>1, EntryKeeps DEF Entries
    <3>3. Copied(p)'
      BY <1>1, <1>6, <1>8, <3>1 DEF Copied
    <3> QED BY <3>1, <3>2, <3>3
  <2>2. CASE pending.pass # "mirror"
    <3>0. pending.pass = "materialise" /\ (p \in Walked \/ Kind[p] = "source")
      BY <1>0, <1>1, <1>5, <2>2 DEF Named
    <3>1. mirrorSkip'[p] = None
      <4>1. CASE Kind[p] \in Markdown
        <5>1. p \notin Mirrored
          BY <3>0, <4>1, KindsDiffer, Disjoint
        <5> QED BY <1>1, <1>2, <1>7, <2>2, <4>1, <5>1 DEF Copies
      <4>2. CASE Kind[p] \notin Markdown
        BY <1>1, <1>7, <2>2, <4>2
      <4> QED BY <4>1, <4>2
    <3>2. ASSUME skip'[p] # None PROVE Entry(p)'
      <4>1. pending.keep /\ skip'[p] = e
        BY <1>1, <1>7, <2>2, <3>2
      <4>2. /\ skip'[p].stamp = stamp[p] /\ skip'[p].live = pending.live /\ skip'[p].dep = pending.dep
            /\ skip'[p].depStat = Stat(pending.dep) /\ skip'[p].import = pending.import
        BY <4>1
      <4> HIDE DEF e
      <4>3. skip'[p].stamp \in 1..clock' /\ src'[p] # Dir /\ shadow'[p] # Dir
        BY <1>1, <1>5, <1>6, <4>2 DEF Dated
      <4>4. Kind[p] = "collection" => shadow'[p] = skip'[p].import[2]
        BY <1>1, <1>5, <3>0, <4>1, <4>2
      <4>5. Kind[p] = "content" =>
              (\E t \in TextsOf[p], v \in Texts \cup {Absent, Dir} :
                 /\ Agrees(p, skip[p].stamp, t) /\ shadow[p] \in {Absent, Dir, Output(t, v)}
                 /\ skip[p].dep = Ref[t] /\ (Ref[t] # None => Agrees(Ref[t], skip[p].depStat, v)))'
        <5> SUFFICES ASSUME Kind[p] = "content"
                     PROVE  \E t \in TextsOf[p], v \in Texts \cup {Absent, Dir} :
                              /\ Agrees(p, skip'[p].stamp, t) /\ shadow'[p] = Output(t, v)'
                              /\ skip'[p].dep = Ref[t] /\ (Ref[t] # None => Agrees(Ref[t], skip'[p].depStat, v))
          BY <1>8
        <5>1. PICK t \in TextsOf[p] : t = src[p]
          BY <1>6
        <5>2. PICK v \in Texts \cup {Absent, Dir} : v = IF Ref[t] = None THEN Absent ELSE src[Ref[t]]
          BY <1>6, <5>1, RefInside
        <5>3. shadow'[p] = Compiled(src, t) /\ skip'[p].dep = Ref[t]
          BY <1>1, <1>5, <3>0, <4>2, <5>1
        <5>4. Output(t, v)' = Compiled(src, t)
          BY <1>1, <5>2 DEF Output, Compiled
        <5>5. Ref[t] # None => Agrees(Ref[t], skip'[p].depStat, v)
          BY <1>5, <1>6, <3>0, <4>2, <5>1, <5>2, AgreesNow, RefInside
        <5> QED BY <1>6, <4>2, <5>1, <5>3, <5>4, <5>5
      <4>6. Kind[p] = "source" /\ ~skip'[p].live =>
              (\E t \in TextsOf[p] : /\ ~Live(t) /\ Agrees(p, skip[p].stamp, t)
                                     /\ p \in Walked => shadow[p] \in {Absent, Dir, Link, Raw(t)})'
        <5> SUFFICES ASSUME Kind[p] = "source", ~pending.live
                     PROVE  /\ ~Live(src[p]) /\ Agrees(p, skip'[p].stamp, src[p])
                            /\ shadow'[p] \in {Link, Raw(src[p])}
          BY <1>6, <1>8, <4>2
        <5>1. pending.live = Live(src[p]) /\ (Live(src[p]) \/ shadow[p] \in {Link, Raw(src[p])})
          BY <1>5, <3>0
        <5>2. ~Live(src[p]) /\ shadow[p] \in {Link, Raw(src[p])}
          BY <5>1, Zenon
        <5>3. Agrees(p, skip'[p].stamp, src[p]) /\ shadow'[p] = shadow[p]
          BY <1>1, <1>6, <4>2
        <5> QED BY <5>2, <5>3, Zenon
      <4> QED BY <3>0, <4>3, <4>4, <4>5, <4>6 DEF Entry
    <3> QED BY <3>1, <3>2
  <2> QED BY <2>1, <2>2
<1>11. Entries' /\ Copies'
  BY <1>9, <1>10 DEF Entries, Copies
<1> QED BY <1>3, <1>4, <1>11 DEF Fit

LEMMA BeginFits ==
  ASSUME Trackable, Inv, Fit, NEW mode \in Modes, NEW set \in Settings, Begin(mode, set)
  PROVE  Fit'
<1>1. /\ UNCHANGED <<src, stamp, clock, aside, pending>> /\ at = 0 /\ at' = 1 /\ seen' = src
      /\ visited' = {} /\ settings' = set /\ copyMode' = mode /\ mode \in BOOLEAN
  BY ShadowAssumption DEF Begin, disk
<1>2. pending = None
  BY <1>1, PlanIsConstant DEF Inv, Running
<1>3. \A q, r : ~Passed(q, r)'
  BY <1>1, <1>2, PlanIsConstant DEF Passed
<1>4. Awaited' /\ Settled'
  BY <1>1, <1>2, <1>3 DEF Awaited, Settled, Made, Expands, Final
<1>5. ~Esbuild'
  BY <1>1, PlanIsConstant DEF Esbuild
<1>6. CASE MustWipe(mode)
  <2>1. /\ shadow' = [x \in Places |-> Absent] /\ skip' = NoEntries /\ mirrorSkip' = NoEntries
    BY <1>6 DEF Begin, MustForget
  <2>2. Absent # Dir /\ Absent # Link
    BY ShadowAssumption
  <2>3. Placed'
    BY <1>1, <1>5, <2>1, <2>2 DEF Placed
  <2>4. Entries' /\ Copies'
    BY <2>1 DEF Entries, Copies, NoEntries
  <2> QED BY <1>4, <2>3, <2>4 DEF Fit
<1>7. CASE ~MustWipe(mode)
  <2>1. Entries /\ Copies /\ Placed /\ ~dirty /\ copyMode = mode
        /\ UNCHANGED <<shadow, prevVisited>>
    BY <1>7 DEF MustWipe, Fit, Valid, Begin
  <2>2. Placed'
    BY <1>1, <1>5, <2>1 DEF Placed
  <2>3. CASE MustForget(mode, set)
    <3>1. skip' = NoEntries /\ mirrorSkip' = NoEntries
      BY <2>3 DEF Begin
    <3>2. Entries' /\ Copies'
      BY <3>1 DEF Entries, Copies, NoEntries
    <3> QED BY <1>4, <2>2, <3>2 DEF Fit
  <2>4. CASE ~MustForget(mode, set)
    <3>1. UNCHANGED <<skip, mirrorSkip>> /\ Fingerprint[set] = Fingerprint[settings] /\ Fingerprint[set] # None
      BY <2>4 DEF Begin, MustForget
    <3>2. settings \in Settings
      BY <3>1, ShadowAssumption DEF Inv, TypeOK
    <3>3. settings' = settings
      BY <1>1, <3>1, <3>2 DEF Trackable
    <3>4. Entries'
      BY <1>1, <1>2, <2>1, <3>1, <3>3, EntryKeeps DEF Entries, Renewed, Waits
    <3>5. Copies'
      BY <1>1, <1>2, <2>1, <3>1, CopyKeeps DEF Copies, Waits
    <3> QED BY <1>4, <2>2, <3>4, <3>5 DEF Fit
  <2> QED BY <2>3, <2>4
<1> QED BY <1>6, <1>7

LEMMA PruneFits ==
  ASSUME Inv, Fit, prune_stale
  PROVE  Fit'
<1> DEFINE stale == prevVisited \ visited
<1>1. /\ at = Len(Plan) + 1 /\ at # 0 /\ at' = at + 1 /\ prevVisited' = visited /\ Len(Plan) \in Nat
      /\ UNCHANGED <<src, stamp, clock, aside, dirty, copyMode, settings, skip, mirrorSkip, visited, input, pending>>
      /\ shadow' = [x \in Places |-> IF x \in stale /\ shadow[x] # Dir THEN Absent ELSE shadow[x]]
  BY PlanIsConstant DEF prune_stale, Pruning, Advance, disk, caches, walk
<1>2. Entries /\ Copies /\ Placed /\ Settled /\ pending = None
  BY <1>1 DEF Fit, Valid, Inv, Running
<1>3. Stayed /\ Awaited' /\ visited \subseteq Places
  BY <1>1, <1>2, PrunePasses DEF Awaited, Inv, TypeOK
<1>4. Settled'
  BY <1>1, <1>2, <1>3, SettledRest
<1>5. \A p \in Paths : shadow'[p] \in {shadow[p], Absent}
  BY <1>1 DEF Places
<1>6. Entries'
  BY <1>1, <1>2, <1>5, EntryKeeps DEF Entries, Renewed, Waits
<1>7. Copies'
  BY <1>1, <1>2, <1>5, CopyKeeps DEF Copies, Waits
<1>8. Placed'
  <2>1. Absent # Dir /\ Absent # Link
    BY ShadowAssumption
  <2> QED BY <1>1, <1>2, <2>1 DEF Placed
<1> QED BY <1>3, <1>4, <1>6, <1>7, <1>8 DEF Fit

LEMMA BundledFits ==
  ASSUME Inv, Fit, Bundled
  PROVE  Fit'
<1>1. /\ at' = 0 /\ at # 0 /\ Esbuild
      /\ UNCHANGED <<src, stamp, clock, aside, shadow, prevVisited, copyMode, settings, skip, mirrorSkip,
                     visited, input, pending>>
  BY PlanIsConstant DEF Bundled, Esbuild, disk, caches, walk
<1>2. Entries /\ Copies /\ Placed /\ pending = None
  BY <1>1, PlanIsConstant DEF Fit, Valid, Inv, Running, Esbuild
<1>3. Awaited' /\ Settled'
  BY <1>1, <1>2 DEF Awaited, Settled
<1>4. Entries'
  BY <1>1, <1>2, EntryKeeps DEF Entries, Renewed, Waits
<1>5. Copies'
  BY <1>1, <1>2, CopyKeeps DEF Copies, Waits
<1>6. Placed'
  <2>1. ~Esbuild'
    BY <1>1, PlanIsConstant DEF Esbuild
  <2> QED BY <1>1, <1>2, <2>1 DEF Placed
<1> QED BY <1>3, <1>4, <1>5, <1>6 DEF Fit

\* A call that fails, or a wipe that does, leaves the tree to the next wipe.
LEMMA FailFits ==
  ASSUME ~FlipWipeFails, Inv, Fit, Fail \/ \E mode \in Modes : BeginFails(mode)
  PROVE  Fit'
<1>1. at' = 0 /\ dirty' = TRUE
  BY DEF Fail, BeginFails, Inv, TypeOK, Running, session
<1>2. pending' = None
  BY PlanIsConstant DEF Fail, BeginFails, Inv, Running
<1> QED BY <1>1, <1>2 DEF Fit, Valid, Awaited, Settled

LEMMA StutterFits ==
  ASSUME Inv, Fit, UNCHANGED vars
  PROVE  Fit'
<1>1. UNCHANGED <<src, stamp, clock, aside, shadow, prevVisited, dirty, copyMode, settings, skip, mirrorSkip, at,
                  visited, input, pending>>
  BY DEF vars, disk, session, caches, walk
<1>2. Plan' = Plan
  BY PlanIsConstant
<1>3. Awaited'
  <2>1. (IsFile(Plan[at][2])' <=> IsFile(Plan[at][2])) /\ Compiled(src, src[Plan[at][2]])' = Compiled(src, src[Plan[at][2]])
    BY <1>1, <1>2 DEF IsFile, Compiled
  <2> QED BY <1>1, <1>2, <2>1 DEF Fit, Awaited
<1>4. Settled'
  <2>1. CASE at = 0
    BY <1>1, <2>1 DEF Settled
  <2>2. CASE at # 0
    BY <1>1, <2>2, RestPasses, SettledRest DEF Fit
  <2> QED BY <2>1, <2>2
<1>5. ASSUME Valid PROVE Entries' /\ Copies' /\ Placed'
  <2>1. Entries /\ Copies /\ Placed
    BY <1>5 DEF Fit
  <2>2. \A p : (Waits(p)' <=> Waits(p)) /\ (Renewed(p)' <=> Renewed(p))
    BY <1>1, <1>2 DEF Waits, Renewed
  <2>3. Entries'
    BY <1>1, <2>1, <2>2, EntryKeeps DEF Entries
  <2>4. Copies'
    BY <1>1, <2>1, <2>2, CopyKeeps DEF Copies
  <2>5. Placed'
    BY <1>1, <1>2, <2>1 DEF Placed, Esbuild
  <2> QED BY <2>3, <2>4, <2>5
<1>6. Valid' <=> Valid
  BY <1>1 DEF Valid
<1> QED BY <1>3, <1>4, <1>5, <1>6 DEF Fit

LEMMA InitFits == Init => Fit
<1> SUFFICES ASSUME Init PROVE Fit
  OBVIOUS
<1>1. Absent # Dir /\ Absent # Link
  BY ShadowAssumption
<1>2. Placed
  <2>1. ~Esbuild
    BY PlanIsConstant DEF Init, Esbuild
  <2> QED BY <1>1, <2>1 DEF Init, Placed
<1> QED BY <1>2 DEF Init, Fit, Awaited, Settled, Entries, Copies, NoEntries

LEMMA FitStep == Trackable /\ Inv /\ Bridging /\ Edged /\ Fit /\ [Next]_vars => Fit'
<1> SUFFICES ASSUME Trackable, Inv, Bridging, Edged, Fit, [Next]_vars PROVE Fit'
  OBVIOUS
<1> USE DEF Bridging
<1>1. CASE Edit
  BY <1>1, EditFits
<1>2. ASSUME NEW p \in Paths, Visit(p) PROVE Fit'
  BY <1>2, VisitFits
<1>3. CASE Store
  BY <1>3, StoreFits
<1>4. ASSUME NEW mode \in Modes, NEW set \in Settings, Begin(mode, set) PROVE Fit'
  BY <1>4, BeginFits
<1>5. CASE Fail \/ \E mode \in Modes : BeginFails(mode)
  BY <1>5, FailFits DEF Trackable
<1>6. CASE prune_stale
  BY <1>6, PruneFits
<1>7. CASE Bundled
  BY <1>7, BundledFits
<1>8. CASE UNCHANGED vars
  BY <1>8, StutterFits
<1> QED BY <1>1, <1>2, <1>3, <1>4, <1>5, <1>6, <1>7, <1>8 DEF Next, Call

-----------------------------------------------------------------------------
(* At the end of a call, what is in the shadow is what a call without a    *)
(* session has there.                                                      *)

\* A file of the call is in its last form, which is that of a fresh call.
LEMMA FileIsFresh ==
  ASSUME Trackable, Inv, Dated, settings \in Settings, NEW p \in Paths, IsFile(p), InPlace(p), p \in Walked \cup Mirrored,
         p \in Walked => Passed("walk", p), p \in Mirrored => Passed("enrol", p), Passed("css", p)
  PROVE  /\ shadow[p] = Fresh(p) \/ (shadow[p] = Link /\ Fresh(p) = Raw(src[p]))
         /\ Fresh(p) \in Contents
         /\ Fresh(p).form = "expanded" <=> Final(p) /\ Form(p).form = "expanded"
<1>1. p \in Walked <=> p \notin Mirrored
  BY Disjoint
<1>2. src[p] \in Texts /\ Raw(src[p]) \in Contents /\ Shim(src[p]) \in Contents
  BY NoMixing DEF IsFile
<1>3. /\ Kind[p] \in Markdown => Form(p) = Compiled(src, src[p])
      /\ Kind[p] = "source" => Form(p) = IF Live(src[p]) THEN Expanded(src, src[p]) ELSE Raw(src[p])
      /\ Kind[p] # "source" => Form(p).form # "expanded"
  BY Renders DEF Dated, Form
<1>4. Raw(src[p]).form # "expanded" /\ Shim(src[p]).form # "expanded"
  BY DEF Raw, Shim, Content
<1>5. Kind[p] \in Markdown \/ Kind[p] = "source" \/ Kind[p] = "css"
  BY WalkAssumption
<1>6. Fresh(p) = IF Kind[p] = "css" THEN Shim(src[p])
                 ELSE IF p \in Mirrored /\ (Kind[p] \in Markdown \/ Refused(p)) THEN Raw(src[p])
                 ELSE Form(p)
  BY DEF Fresh, Refused, Form
<1>7. CASE Kind[p] = "css"
  BY <1>2, <1>3, <1>4, <1>6, <1>7, KindsDiffer DEF InPlace
<1>8. CASE p \in Mirrored /\ (Kind[p] \in Markdown \/ Refused(p)) /\ Kind[p] # "css"
  <2>1. ~Final(p)
    BY <1>1, <1>8, KindsDiffer DEF Final
  <2> QED BY <1>2, <1>4, <1>6, <1>8, <2>1 DEF InPlace
<1>9. CASE ~(p \in Mirrored /\ (Kind[p] \in Markdown \/ Refused(p))) /\ Kind[p] # "css"
  <2>1. Final(p)
    BY <1>1, <1>5, <1>9 DEF Final
  <2>2. Fresh(p) = Form(p) /\ Shown(p, Form(p))
    BY <1>6, <1>9, <2>1 DEF InPlace
  <2>3. Form(p) \in Contents
    BY <1>2, RenderIsContents DEF Form, Inv, Read
  <2> QED BY <2>1, <2>2, <2>3 DEF Shown
<1> QED BY <1>7, <1>8, <1>9

LEMMA FitIsFresh == Trackable /\ Inv /\ Bridging /\ Fit => EsbuildReadsFresh
<1> SUFFICES ASSUME Trackable, Inv, Bridging, Fit, Esbuild, clock = opened
             PROVE  /\ \A p \in Paths : Reads(p) = Fresh(p)
                    /\ \A x \in Extra : Reads(x) = FreshModule(x)
  BY DEF EsbuildReadsFresh
<1> USE DEF Bridging
<1>1. /\ at \in Nat /\ at > Len(Plan) /\ at # 0 /\ settings \in Settings
      /\ \A p \in Walked : Passed("walk", p)
      /\ \A p \in Mirrored : Passed("mirror", p) /\ Passed("enrol", p)
      /\ \A p \in Walked \cup Mirrored : Passed("css", p)
  <2>1. at \in Nat /\ at > Len(Plan) /\ at # 0
    BY PlanIsConstant DEF Esbuild
  <2> QED BY <2>1, AllPassed DEF Inv, Running
<1>2. Settled /\ Placed
  BY <1>1 DEF Fit, Valid
<1>3. /\ Absent # Dir /\ Absent # Link /\ Dir # Link
      /\ \A c \in Contents : c \notin {Absent, Dir, Link}
  BY ShadowAssumption
<1>4. ASSUME NEW x \in Places, x \notin visited PROVE Reads(x) = Absent
  <2>1. shadow[x] \in {Absent, Dir}
    BY <1>1, <1>2, <1>4 DEF Placed
  <2> QED BY <1>3, <2>1 DEF Reads
<1>5. ASSUME NEW p \in Paths, p \in Walked \cup Mirrored, IsFile(p)
      PROVE  /\ Reads(p) = Fresh(p)
             /\ Fresh(p).form = "expanded" <=> Final(p) /\ Form(p).form = "expanded"
  <2>1. InPlace(p)
    BY <1>1, <1>2, <1>5 DEF Settled, Made
  <2>2. /\ shadow[p] = Fresh(p) \/ (shadow[p] = Link /\ Fresh(p) = Raw(src[p]))
        /\ Fresh(p) \in Contents
        /\ Fresh(p).form = "expanded" <=> Final(p) /\ Form(p).form = "expanded"
    BY <1>1, <1>5, <2>1, FileIsFresh
  <2>3. shadow[p] = Link => copyMode = FALSE
    BY <1>2 DEF Placed, Places
  <2> QED BY <1>3, <1>5, <2>2, <2>3 DEF Reads
<1>6. ASSUME NEW p \in Paths PROVE Reads(p) = Fresh(p)
  <2>1. CASE p \in Walked \cup Mirrored /\ IsFile(p)
    BY <1>5, <2>1
  <2>2. CASE ~(p \in Walked \cup Mirrored /\ IsFile(p))
    <3>1. p \notin visited
      BY <1>1, <1>2, <2>2 DEF Settled, Made
    <3> QED BY <1>4, <2>2, <3>1 DEF Fresh, Places
  <2> QED BY <2>1, <2>2
<1>7. ASSUME NEW x \in Extra PROVE Reads(x) = FreshModule(x)
  <2> DEFINE importers == {p \in Walked \cup Mirrored :
                             /\ IsFile(p)
                             /\ Fresh(p).form = "expanded"
                             /\ Ref[src[p]] # None /\ Generated[p][Ref[src[p]]] = x}
  <2>1. \A p \in Paths : p \in importers <=> Expands(p) /\ Beside(p) = x
    BY <1>5 DEF Expands, Beside, Final
  <2>2. importers \subseteq Paths /\ x \in Places
    BY Disjoint DEF Places
  <2>3. CASE importers = {}
    <3>1. x \notin visited
      BY <1>1, <1>2, <2>1, <2>3 DEF Settled
    <3>2. FreshModule(x) = Absent
      BY <2>3 DEF FreshModule
    <3> QED BY <1>4, <2>2, <3>1, <3>2
  <2>4. CASE importers # {}
    <3> DEFINE p == CHOOSE q \in importers : TRUE
    <3>1. p \in importers /\ p \in Paths
      BY <2>2, <2>4
    <3>2. Expands(p) /\ Beside(p) = x
      BY <2>1, <3>1
    <3>3. shadow[x] = Module(p) /\ Module(p) \in Contents
      BY <1>1, <1>2, <3>1, <3>2, BesideIsExtra DEF Settled
    <3>4. FreshModule(x) = Module(p)
      BY <2>4 DEF FreshModule, Module
    <3> HIDE DEF p
    <3> QED BY <1>3, <3>3, <3>4 DEF Reads
  <2> QED BY <2>3, <2>4
<1> QED BY <1>6, <1>7

\* In a call during which nothing was edited, esbuild reads exactly what a
\* build from scratch would give it, whatever the calls before it skipped,
\* replayed, linked, pruned or left half done.
THEOREM EsbuildIsFresh ==
  ASSUME Trackable
  PROVE  Spec => []EsbuildReadsFresh
<1>1. Inv /\ Bridging /\ [Next]_vars => Bridging'
  BY BridgingStep DEF Trackable
<1>2. Inv /\ Bridging /\ Edged /\ Fit /\ [Next]_vars => Fit'
  BY FitStep
<1>3. Inv /\ Bridging /\ Fit => EsbuildReadsFresh
  BY FitIsFresh
<1>4. Spec => []Inv
  BY ShadowInvariant DEF Trackable
<1>5. Inv /\ Bridging /\ Edged /\ [Next]_vars => Edged'
  BY EdgedStep DEF Bridging
<1>6. Init => Edged
  BY DEF Init, Edged
<1> QED BY <1>1, <1>2, <1>3, <1>4, <1>5, <1>6, InitBridging, InitFits, PTL DEF Spec
=============================================================================
