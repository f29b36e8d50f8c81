------------------------------ MODULE MCLazyDev ------------------------------
(***************************************************************************)
(* Instances of LazyDev for TLC.                                           *)
(***************************************************************************)
EXTENDS LazyDev, TLC

CONSTANTS a1, a2, idx, seed, dyn, added,  \* routes
          blog, home, preset, extra,      \* pages
          c1, c2,                         \* content files
          comp, page,                     \* a component, a page module
          v1, v2,                         \* file contents
          q1, q2                          \* request threads

\* The blog: blog/[slug].tsx with one route per post, and a static index that
\* lists every post.
BlogPageOf == (a1 :> blog) @@ (a2 :> blog) @@ (idx :> home)
BlogOwn    == (a1 :> c1) @@ (a2 :> c2) @@ (idx :> NoSource)
BlogReads  == (a1 :> {c1}) @@ (a2 :> {c2}) @@ (idx :> {c1, c2})
BlogPaths  == (blog :> {c1, c2}) @@ (home :> {})
OnePost    == {(c1 :> v1) @@ (c2 :> Absent)}
BothPosts  == {(c1 :> v1) @@ (c2 :> v1)}

\* The blog without its index.
PostsPageOf == [r \in {a1, a2} |-> blog]
PostsOwn    == (a1 :> c1) @@ (a2 :> c2)
PostsReads  == (a1 :> {c1}) @@ (a2 :> {c2})
PostsPaths  == (blog :> {c1, c2})

\* A site with a preset package: a static index that imports an island
\* component, a page that can be added, and a static and a dynamic route
\* injected by the preset.
SitePageOf == (idx :> home) @@ (added :> extra) @@ (seed :> preset) @@ (dyn :> preset)
SiteOwn    == (idx :> NoSource) @@ (added :> page) @@ (seed :> NoSource) @@ (dyn :> NoSource)
SiteReads  == (idx :> {comp}) @@ (added :> {page}) @@ (seed :> {c1}) @@ (dyn :> {c1})
SitePaths  == [p \in {home, extra, preset} |-> {}]
FullSite   == {(c1 :> v1) @@ (comp :> v1) @@ (page :> v1)}

\* Request threads are interchangeable.  No liveness property is checked under it.
RequestSymmetry == Permutations(Requests)
=============================================================================
