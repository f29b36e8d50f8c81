------------------------------ MODULE ShadowTree ------------------------------
(***************************************************************************)
(* The persistent shadow tree of the dev bundler: one directory that lives *)
(* as long as the dev process and that every bundle call brings up to date *)
(* before esbuild reads it.  A call leaves alone what it believes to be    *)
(* unchanged; it believes a hash of what it wrote, and modification times  *)
(* of what it read.                                                        *)
(*                                                                         *)
(* A place of the tree and the source it is made from have the same name.  *)
(* A text stands for the bytes of a file, a stamp for its modification     *)
(* time and size.                                                          *)
(***************************************************************************)
EXTENDS Naturals, SequencesExt

CONSTANTS
  Paths,          \* files and directories of the sources
  Above,          \* the directories above each of them
  Dirs,           \* paths that may be a directory
  Kind,           \* "source", "css", "content" or, with a bridge import, "collection"
  WalkOrder,      \* the paths of the project, in the order of the walks
  MirrorOrder,    \* the files of claimed sibling packages
  Extra,          \* places of the modules that ?raw imports generate
  Generated,      \* the one for each importer and file imported
  Texts, TextsOf,
  Globs,          \* texts that use import.meta.glob
  Ref,            \* the file a text imports with ?raw, or transcludes
  Broken,         \* texts that the preprocessor or the parser rejects
  Settings,
  Fingerprint,    \* of each setting, None if it has none
  Modes,          \* whether sources are copied, by what esbuild resolves
  Projects,       \* the source trees at boot
  Movable,        \* files that are moved away and back
  Preserving,     \* files that may be edited without a change of stamp
  MaxEdits,       \* bound
  EditsInWindow,  \* files that may be saved between the read of a file and its stat
  FlipWipeFails,  \* the wipe for a change of mode may fail half-way
  Absent, Dir, Link, Garbage, None

Places == Paths \cup Extra
Walked == ToSet(WalkOrder)
Mirrored == ToSet(MirrorOrder)
Markdown == {"content", "collection"}

\* What is written at a place: the text it is made of, and what else of the
\* tree went into it.
Contents ==
    [form : {"raw", "shim", "compiled", "expanded", "module"},
     of : Texts \cup {Absent, Dir},
     saw : SUBSET (Texts \cup Paths \cup Settings \cup {Absent, Dir})]

\* What is known of a file between its write and its stat.
Unstored ==
    [pass : {"mirror"}] \cup
    [pass : {"materialise"}, keep : BOOLEAN, live : BOOLEAN, dep : Paths \cup {None},
     import : Paths \X Contents \cup {None}]

ASSUME ShadowAssumption ==
  /\ Dirs \subseteq Paths /\ Movable \subseteq Paths /\ Preserving \subseteq Paths
  /\ EditsInWindow \subseteq Paths
  /\ Above \in [Places -> SUBSET Dirs] /\ \A p \in Mirrored : Above[p] = {}
  /\ Generated \in [Paths -> [Paths -> Extra]]
  /\ TextsOf \in [Paths -> SUBSET Texts]
  /\ Globs \subseteq Texts /\ Broken \subseteq Texts /\ Ref \in [Texts -> Paths \cup {None}]
  /\ Fingerprint[None] = None
  /\ Modes \subseteq BOOLEAN /\ Projects \subseteq [Paths -> Texts \cup {Absent, Dir}]
  /\ WalkOrder \in Seq(Paths) /\ MirrorOrder \in Seq(Paths \ Dirs)
  /\ {Absent, Dir, Link, Garbage, None} \cap (Contents \cup Texts) = {}
  /\ Absent # Dir /\ Link \notin {Absent, Dir} /\ Garbage \notin {Absent, Dir, Link, None}
  /\ MaxEdits \in Nat /\ FlipWipeFails \in BOOLEAN

\* A tree of files: whatever is there is in directories, and a file has one of
\* the texts it may have.
IsTree(s) ==
    \A p \in Paths :
      /\ s[p] # Absent => \A d \in Above[p] : s[d] = Dir
      /\ s[p] = Dir => p \in Dirs
      /\ s[p] \in Texts => s[p] \in TextsOf[p]

\* Paths nest.  A walk visits a directory before what is in it, and nothing
\* twice.  A generated module lies beside its importer, and is one for each
\* file imported.
ASSUME WalkAssumption ==
  /\ \A s \in Projects : IsTree(s)
  /\ \A p \in Paths : \A d \in Above[p] : Above[d] \subseteq Above[p]
  /\ \A i \in 1..Len(WalkOrder) : Above[WalkOrder[i]] \subseteq {WalkOrder[j] : j \in 1..i-1}
  /\ IsInjective(WalkOrder \o MirrorOrder)
  /\ Kind \in [Paths -> {"source", "css"} \cup Markdown]
  /\ Extra \cap Paths = {} /\ None \notin Nat \cup Paths \cup (Paths \X Contents) \cup Unstored
  /\ \A p, q \in Paths : Above[Generated[p][q]] \subseteq Above[p]
  /\ \A p, q \in Paths : \A t \in TextsOf[p], u \in TextsOf[q] :
       /\ Ref[t] # None /\ Ref[u] # None
       /\ Generated[p][Ref[t]] = Generated[q][Ref[u]]
       => Ref[t] = Ref[u]

VARIABLES
  src,          \* the sources on disk
  stamp,        \* their stamps
  clock,        \* the next stamp is above it
  aside,        \* the file moved away
  shadow,       \* what the shadow has at each place
  written,      \* what the session remembers to have written there
  prevVisited,  \* places visited by the last call that pruned
  dirty,        \* a call is running, or the last one failed
  copyMode,     \* mode of the last call
  settings,     \* settings of the last call
  skip,         \* content_skip and source_skip
  mirrorSkip,
  at,           \* step of the running call, 0 between calls
  visited,      \* places visited by the running call
  entered,      \* directories its walks entered
  seen,         \* the sources when its input was assembled
  opened,       \* the clock then
  pending,      \* the file materialised and not yet stat'ed
  bridge,       \* content imports collected by the call
  edges         \* files imported with ?raw by the sources it has expanded

disk    == <<src, stamp, clock, aside>>
session == <<prevVisited, dirty, copyMode, settings>>
caches  == <<skip, mirrorSkip>>
input   == <<seen, opened>>
walk    == <<visited, entered, bridge, edges>>
vars == <<disk, shadow, written, session, caches, at, walk, input, pending>>

-----------------------------------------------------------------------------
(* The steps of a call, in their order.                                    *)

Step(pass, order) == [i \in 1..Len(order) |-> <<pass, order[i]>>]
Plan == Step("walk", WalkOrder) \o Step("mirror", MirrorOrder) \o Step("enrol", MirrorOrder)
          \o Step("css", WalkOrder \o MirrorOrder)
Pruning  == at = Len(Plan) + 1
Esbuild  == at = Len(Plan) + 2

IsFile(p) == src[p] \in Texts
Stat(p) == IF p = None THEN 0 ELSE IF src[p] = Absent THEN 0 ELSE stamp[p]

-----------------------------------------------------------------------------
(* What the full path makes of a file.                                     *)

Content(form, t, saw) == [form |-> form, of |-> t, saw |-> saw]
Raw(t)  == Content("raw", t, {})
Shim(t) == Content("shim", t, {})
Compiled(s, t) ==
    Content("compiled", t, {settings} \cup (IF Ref[t] = None THEN {} ELSE {s[Ref[t]]}))
Expanded(s, t) ==
    Content("expanded", t, IF t \in Globs THEN {q \in Paths : s[q] \in Texts} ELSE {})

Live(t) == t \in Globs \/ Ref[t] # None

RawTargets(s) ==
    {Ref[s[p]] : p \in {q \in Walked : Kind[q] = "source" /\ s[q] \in Texts}} \ {None}

\* The files known to be imported with ?raw: by the walked sources of the input,
\* and by every source expanded before.
Targets == RawTargets(seen) \cup edges

Render(s, p, targets) ==
    IF Kind[p] \in Markdown THEN Compiled(s, s[p])
    ELSE IF Kind[p] = "source" /\ p \notin targets /\ Live(s[p]) THEN Expanded(s, s[p])
    ELSE Raw(s[p])

Rejected(s, p, targets) ==
    /\ Render(s, p, targets).form = "expanded"
    /\ \/ s[p] \in Broken
       \/ Ref[s[p]] # None /\ s[Ref[s[p]]] \notin Texts

-----------------------------------------------------------------------------
(* ShadowWriter.  An operation maps the tree it finds to the one it leaves: *)
(* the sources too, since a write follows a link.                          *)

Tree == [src |-> src, shadow |-> shadow, written |-> written]
With(t, x, c, w) ==
    [src |-> t.src, shadow |-> [t.shadow EXCEPT ![x] = c], written |-> [t.written EXCEPT ![x] = w]]
Install(t) == src' = t.src /\ shadow' = t.shadow /\ written' = t.written

\* A mutant: forgets the directory and not what was below it.
ClearDirOnly(t, x) ==
    IF t.shadow[x] # Dir THEN t
    ELSE [t EXCEPT !.shadow =
            [y \in Places |-> IF y = x \/ x \in Above[y] THEN Absent ELSE t.shadow[y]]]

\* remove_dir_all of a directory in the way, with all that was written below.
ClearDir(t, x) ==
    LET gone == {x} \cup {y \in Places : x \in Above[y]} IN
    IF t.shadow[x] # Dir THEN t
    ELSE [src |-> t.src,
          shadow |-> [y \in Places |-> IF y \in gone THEN Absent ELSE t.shadow[y]],
          written |-> [y \in Places |-> IF y \in gone THEN None ELSE t.written[y]]]

write_if_changed(t, x, c) ==
    IF t.written[x] = c THEN t
    ELSE IF t.written[x] # None
      THEN IF t.shadow[x] = Link
             THEN [t EXCEPT !.src[x] = Garbage, !.written[x] = c]
             ELSE With(t, x, c, c)
      ELSE With(ClearDir(t, x), x, c, c)

\* A mutant: the link leaves the hash of what it replaced.
symlink_keeping_hash(t, x) ==
    IF t.shadow[x] = Link THEN t ELSE With(ClearDir(t, x), x, Link, t.written[x])

symlink_if_absent(t, x) ==
    IF t.shadow[x] = Link THEN t ELSE With(ClearDir(t, x), x, Link, None)

ensure_dir(t, x) ==
    IF t.shadow[x] = Dir THEN t
    ELSE With(t, x, Dir, IF t.shadow[x] = Absent THEN t.written[x] ELSE None)

Put(t, p, c) ==
    IF c.form = "raw" /\ ~copyMode THEN symlink_if_absent(t, p) ELSE write_if_changed(t, p, c)

\* The modules that go with an expanded file.
Satellites(p, c) ==
    IF c.form = "expanded" /\ Ref[src[p]] # None THEN {Generated[p][Ref[src[p]]]} ELSE {}
PutSatellite(t, p, c) ==
    IF Satellites(p, c) = {} THEN t
    ELSE write_if_changed(t, Generated[p][Ref[src[p]]], Content("module", src[Ref[src[p]]], {}))

-----------------------------------------------------------------------------
(* The user edits the sources.                                             *)

MayEdit == clock <= MaxEdits /\ pending = None

Edited(s) ==
    /\ clock' = clock + 1 /\ src' = s
    /\ UNCHANGED <<shadow, written, session, caches, at, walk, input, pending>>

Reachable(p) == \A d \in Above[p] : src[d] = Dir

Save(p) ==
    /\ clock <= MaxEdits /\ (pending = None \/ p \in EditsInWindow)
    /\ Reachable(p) /\ src[p] # Dir
    /\ \E t \in TextsOf[p] \ {src[p]} : Edited([src EXCEPT ![p] = t])
    /\ \/ stamp' = [stamp EXCEPT ![p] = clock + 1]
       \/ p \in Preserving /\ IsFile(p) /\ UNCHANGED stamp
    /\ UNCHANGED aside

MakeDir(p) ==
    /\ MayEdit /\ Reachable(p) /\ src[p] = Absent /\ p \in Dirs
    /\ Edited([src EXCEPT ![p] = Dir])
    /\ stamp' = [stamp EXCEPT ![p] = clock + 1]
    /\ UNCHANGED aside

Delete(p) ==
    /\ MayEdit /\ src[p] # Absent
    /\ Edited([q \in Paths |-> IF q = p \/ p \in Above[q] THEN Absent ELSE src[q]])
    /\ UNCHANGED <<stamp, aside>>

MoveAway(p) ==
    /\ MayEdit /\ p \in Movable /\ IsFile(p) /\ aside = None
    /\ aside' = [path |-> p, text |-> src[p], stamp |-> stamp[p]]
    /\ Edited([src EXCEPT ![p] = Absent])
    /\ UNCHANGED stamp

MoveBack ==
    /\ MayEdit /\ aside # None
    /\ src[aside.path] = Absent /\ Reachable(aside.path)
    /\ Edited([src EXCEPT ![aside.path] = aside.text])
    /\ stamp' = [stamp EXCEPT ![aside.path] = aside.stamp]
    /\ aside' = None

-----------------------------------------------------------------------------
(* ShadowWriter::new: the wipes, and the dirty flag armed.                 *)

NoEntries == [p \in Paths |-> None]

MustWipe(mode) == dirty \/ copyMode # mode

MustForget(mode, set) ==
    MustWipe(mode) \/ Fingerprint[set] # Fingerprint[settings] \/ Fingerprint[set] = None

Begin(mode, set) ==
    /\ at = 0
    /\ shadow' = IF MustWipe(mode) THEN [x \in Places |-> Absent] ELSE shadow
    /\ written' = IF MustWipe(mode) THEN [x \in Places |-> None] ELSE written
    /\ prevVisited' = IF MustWipe(mode) THEN {} ELSE prevVisited
    /\ skip' = IF MustForget(mode, set) THEN NoEntries ELSE skip
    /\ mirrorSkip' = IF MustForget(mode, set) THEN NoEntries ELSE mirrorSkip
    /\ settings' = set /\ copyMode' = mode /\ dirty' = TRUE
    /\ visited' = {} /\ entered' = {} /\ bridge' = {} /\ edges' = {}
    /\ seen' = src /\ opened' = clock
    /\ at' = 1
    /\ UNCHANGED <<disk, pending>>

\* The wipe fails and the call returns: some of the tree is gone.
BeginFails(mode) ==
    /\ at = 0
    /\ dirty \/ (copyMode # mode /\ FlipWipeFails)
    /\ \E x \in Places : shadow[x] # Absent /\
         shadow' = [y \in Places |-> IF y = x \/ x \in Above[y] THEN Absent ELSE shadow[y]]
    /\ UNCHANGED <<disk, written, session, caches, at, walk, input, pending>>

-----------------------------------------------------------------------------
(* The passes.                                                             *)

Here(pass, p) == at \in 1..Len(Plan) /\ pending = None /\ Plan[at] = <<pass, p>>
Advance == at' = at + 1
Enumerated(p) == Above[p] \subseteq entered

\* The file is materialised from its source at this step.
Due(p) ==
    /\ IsFile(p)
    /\ \/ Here("walk", p) /\ Enumerated(p)
       \/ Here("enrol", p) /\ Kind[p] = "source" /\ p \in visited

Specifier(s, p) == <<p, Compiled(s, s[p])>>
Snapshot == {Specifier(seen, p) : p \in {q \in Walked : Kind[q] = "collection" /\ seen[q] \in Texts}}

\* A mutant: the snapshot of the call is not asked.
SkipHoldsByStat(p) ==
    LET e == skip[p] IN
    /\ e # None
    /\ e.stamp = stamp[p]
    /\ shadow[p] # Absent
    /\ ~e.live
    /\ Stat(e.dep) = e.depStat

SkipHolds(p) ==
    LET e == skip[p] IN
    /\ e # None
    /\ e.stamp = stamp[p]
    /\ shadow[p] # Absent
    /\ ~e.live
    /\ Stat(e.dep) = e.depStat
    /\ e.import = None \/ e.import \in Snapshot

EnterDir(p) ==
    /\ Here("walk", p) /\ Enumerated(p) /\ src[p] = Dir
    /\ Install(ensure_dir(Tree, p))
    /\ entered' = entered \cup {p}
    /\ Advance
    /\ UNCHANGED <<stamp, clock, aside, session, caches, visited, bridge, edges, input, pending>>

\* The pass for stylesheets finds one here.
Stylesheet(p) ==
    /\ Kind[p] = "css" /\ shadow[p] \notin {Absent, Dir}
    /\ shadow[p] = Link => IsFile(p)

\* Nothing, or nothing to materialise, at this path.
PassBy(p) ==
    /\ \/ Here("walk", p) /\ ~(Enumerated(p) /\ src[p] # Absent)
       \/ Here("mirror", p) /\ ~IsFile(p)
       \/ Here("enrol", p) /\ ~Due(p)
       \/ Here("css", p) /\ ~Stylesheet(p)
    /\ Advance
    /\ UNCHANGED <<disk, shadow, written, session, caches, walk, input, pending>>

Replay(p) == IF skip[p].import = None THEN bridge ELSE bridge \cup {skip[p].import}

Reuse(p) ==
    /\ Due(p) /\ SkipHolds(p)
    /\ visited' = visited \cup {p}
    /\ bridge' = Replay(p)
    /\ Advance
    /\ UNCHANGED <<disk, shadow, written, session, caches, entered, edges, input, pending>>

\* Read, compile or expand, and write.  The stat comes later.
Materialise(p) ==
    LET c == Render(src, p, Targets)
        bridged == Kind[p] = "collection" /\ src[p] \notin Broken
    IN
    /\ Due(p) /\ ~SkipHolds(p) /\ ~Rejected(src, p, Targets)
    /\ Install(PutSatellite(Put(Tree, p, c), p, c))
    /\ visited' = visited \cup {p} \cup Satellites(p, c)
    /\ bridge' = IF bridged THEN bridge \cup {Specifier(src, p)} ELSE bridge
    /\ edges' = IF c.form = "expanded" THEN edges \cup ({Ref[src[p]]} \ {None}) ELSE edges
    /\ pending' = [pass |-> "materialise",
                   keep |-> Kind[p] # "collection" \/ bridged,
                   live |-> c.form = "expanded",
                   dep |-> IF c.form = "compiled" THEN Ref[src[p]] ELSE None,
                   import |-> IF bridged THEN Specifier(src, p) ELSE None]
    /\ UNCHANGED <<stamp, clock, aside, session, caches, at, entered, input>>

\* A mirrored file that cannot be preprocessed stays the raw copy it is.
KeepMirror(p) ==
    /\ Here("enrol", p) /\ Due(p) /\ ~SkipHolds(p) /\ Rejected(src, p, Targets)
    /\ Advance
    /\ UNCHANGED <<disk, shadow, written, session, caches, walk, input, pending>>

\* mirror_sibling_root, for one file.
Mirror(p) ==
    /\ Here("mirror", p) /\ IsFile(p)
    /\ visited' = visited \cup {p}
    /\ IF mirrorSkip[p] = stamp[p] /\ shadow[p] # Absent
         THEN Advance /\ UNCHANGED <<src, shadow, written, pending>>
         ELSE /\ Install(write_if_changed(Tree, p, Raw(src[p])))
              /\ pending' = [pass |-> "mirror"]
              /\ UNCHANGED at
    /\ UNCHANGED <<stamp, clock, aside, session, caches, entered, bridge, edges, input>>

\* A mutant: a raw copy that was expanded over counts as in place.
EvictNothing(p) == mirrorSkip

Evict(p) == IF Kind[p] \in Markdown THEN mirrorSkip ELSE [mirrorSkip EXCEPT ![p] = None]

\* The stat of the file just materialised, and what is cached under it.
Store ==
    /\ pending # None
    /\ LET p == Plan[at][2] IN
       IF pending.pass = "mirror"
         THEN /\ mirrorSkip' = [mirrorSkip EXCEPT ![p] = IF IsFile(p) THEN stamp[p] ELSE None]
              /\ UNCHANGED skip
         ELSE /\ skip' = [skip EXCEPT ![p] =
                   IF IsFile(p) /\ pending.keep
                     THEN [stamp |-> stamp[p], live |-> pending.live, dep |-> pending.dep,
                           depStat |-> Stat(pending.dep), import |-> pending.import]
                     ELSE None]
              /\ mirrorSkip' = Evict(p)
    /\ pending' = None
    /\ Advance
    /\ UNCHANGED <<disk, shadow, written, session, walk, input>>

\* rewrite_css_modules_in_shadow, with the class maps of the input.
RewriteCss(p) ==
    /\ Here("css", p) /\ Stylesheet(p)
    /\ Install(write_if_changed(Tree, p, Shim(seen[p])))
    /\ Advance
    /\ UNCHANGED <<stamp, clock, aside, session, caches, walk, input, pending>>

prune_stale ==
    /\ Pruning
    /\ LET stale == prevVisited \ visited IN
       /\ shadow' = [x \in Places |->
                       IF x \in stale /\ shadow[x] # Dir THEN Absent ELSE shadow[x]]
       /\ written' = [x \in Places |-> IF x \in stale THEN None ELSE written[x]]
    /\ prevVisited' = visited
    /\ Advance
    /\ UNCHANGED <<disk, dirty, copyMode, settings, caches, walk, input, pending>>

\* esbuild succeeds, and mark_clean.
Bundled ==
    /\ Esbuild
    /\ at' = 0 /\ dirty' = FALSE
    /\ UNCHANGED <<disk, shadow, written, prevVisited, copyMode, settings, caches, walk, input, pending>>

\* The call fails anywhere.  A write may have got half-way.
Fail ==
    /\ at # 0
    /\ shadow' \in {shadow} \cup
         {[shadow EXCEPT ![Plan[i][2]] = Garbage] :
            i \in {j \in {at} \cap 1..Len(Plan) : shadow[Plan[j][2]] # Dir}}
    /\ at' = 0 /\ pending' = None
    /\ UNCHANGED <<disk, written, session, caches, walk, input>>

-----------------------------------------------------------------------------
Init ==
    /\ src \in Projects
    /\ stamp = [p \in Paths |-> 1] /\ clock = 1 /\ aside = None
    /\ shadow = [x \in Places |-> Absent] /\ written = [x \in Places |-> None]
    /\ prevVisited = {} /\ dirty = FALSE /\ copyMode = None /\ settings = None
    /\ skip = NoEntries /\ mirrorSkip = NoEntries
    /\ at = 0 /\ visited = {} /\ entered = {} /\ bridge = {} /\ edges = {} /\ pending = None
    /\ seen = src /\ opened = clock

Edit == MoveBack \/ \E p \in Paths : Save(p) \/ MakeDir(p) \/ Delete(p) \/ MoveAway(p)

Visit(p) ==
    EnterDir(p) \/ PassBy(p) \/ Reuse(p) \/ Materialise(p) \/ KeepMirror(p) \/ Mirror(p) \/ RewriteCss(p)

Call ==
    \/ \E mode \in Modes : BeginFails(mode) \/ \E set \in Settings : Begin(mode, set)
    \/ \E p \in Paths : Visit(p)
    \/ Store \/ prune_stale \/ Bundled \/ Fail

Next == Edit \/ Call
Spec == Init /\ [][Next]_vars

-----------------------------------------------------------------------------
TypeOK ==
    /\ src \in [Paths -> Texts \cup {Absent, Dir, Garbage}]
    /\ stamp \in [Paths -> Nat] /\ clock \in Nat /\ opened \in 1..clock
    /\ shadow \in [Places -> Contents \cup {Absent, Dir, Link, Garbage}]
    /\ written \in [Places -> Contents \cup {None}]
    /\ prevVisited \subseteq Places /\ visited \subseteq Places /\ entered \subseteq Paths
    /\ edges \subseteq Paths
    /\ dirty \in BOOLEAN /\ copyMode \in BOOLEAN \cup {None} /\ settings \in Settings \cup {None}
    /\ DOMAIN skip = Paths /\ mirrorSkip \in [Paths -> Nat \cup {None}]
    /\ at \in 0..Len(Plan) + 2

\* What the session remembers to have written is what the shadow has, during
\* every call and after every call that succeeded: only then may a write of
\* the same bytes be left out.
WrittenIsOnDisk ==
    at # 0 \/ ~dirty => \A x \in Places : written[x] # None => shadow[x] = written[x]

\* No write of the bundler reaches a source through a link in the shadow.
SourcesUntouched == [][clock' = clock => src' = src]_vars

\* What esbuild reads at a place.  When sources are copied, it would follow
\* a link out of the shadow.
Reads(x) ==
    IF shadow[x] = Dir THEN Absent
    ELSE IF shadow[x] # Link THEN shadow[x]
    ELSE IF copyMode THEN Garbage
    ELSE IF IsFile(x) THEN Raw(src[x]) ELSE Absent

\* What a call without a session has there, as long as no mirrored source
\* imports another one with ?raw.
Fresh(p) ==
    IF p \notin Walked \cup Mirrored \/ ~IsFile(p) THEN Absent
    ELSE IF Kind[p] = "css" THEN Shim(src[p])
    ELSE IF p \in Mirrored /\ (Kind[p] \in Markdown \/ Rejected(src, p, RawTargets(src))) THEN Raw(src[p])
    ELSE Render(src, p, RawTargets(src))

FreshModule(x) ==
    LET importers == {p \in Walked \cup Mirrored :
                        /\ IsFile(p)
                        /\ Fresh(p).form = "expanded"
                        /\ Ref[src[p]] # None /\ Generated[p][Ref[src[p]]] = x}
    IN IF importers = {} THEN Absent
       ELSE Content("module", src[Ref[src[CHOOSE p \in importers : TRUE]]], {})

\* When nothing was edited since a call began, esbuild reads exactly the
\* files that a build from scratch would give it, whatever was skipped.
EsbuildReadsFresh ==
    Esbuild /\ clock = opened =>
      /\ \A p \in Paths : Reads(p) = Fresh(p)
      /\ \A x \in Extra : Reads(x) = FreshModule(x)

\* In such a call the bridge has the specifier of every entry of the content
\* snapshot that parses, and no other: else a page shows the fallback.
BridgeMatchesSnapshot ==
    Esbuild /\ clock = opened =>
      bridge = {Specifier(src, p) :
                  p \in {q \in Walked : /\ Kind[q] = "collection"
                                        /\ IsFile(q) /\ src[q] \notin Broken}}
=============================================================================
