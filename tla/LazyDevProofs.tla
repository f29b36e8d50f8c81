----------------------------- MODULE LazyDevProofs -----------------------------
(***************************************************************************)
(* Theorems about the lazy dev session, for any site, any number of        *)
(* request threads and any number of edits and failures.                   *)
(***************************************************************************)
EXTENDS LazyDev, TLAPS

-----------------------------------------------------------------------------
(* The stale map *)

\* Every entry is recorded at the current generation: a mark records it there and
\* a table swap moves whatever is outstanding.
EntriesAreCurrent(s) == \A r \in Routes : s.entries[r] \in {NoEntry, s.generation}

GoodMap(s) == s \in StaleRoutes /\ EntriesAreCurrent(s)

LEMMA MarkGood ==
  ASSUME NEW s, GoodMap(s), NEW paths \in SUBSET Routes
  PROVE  GoodMap(mark_stale(s, paths)) /\ mark_stale(s, paths).generation = s.generation
BY DEF GoodMap, EntriesAreCurrent, StaleRoutes, mark_stale, NoEntry

LEMMA ClearGood ==
  ASSUME NEW s, GoodMap(s), NEW paths \in SUBSET Routes
  PROVE  GoodMap(clear_stale(s, paths)) /\ clear_stale(s, paths).generation = s.generation
BY DEF GoodMap, EntriesAreCurrent, StaleRoutes, clear_stale, NoEntry

LEMMA SwapGood ==
  ASSUME NEW s, GoodMap(s), NEW vanished \in SUBSET Routes
  PROVE  /\ GoodMap(note_table_swap(s, vanished))
         /\ note_table_swap(s, vanished).generation = s.generation + 1
<1> DEFINE E == [r \in Routes |-> IF r \in vanished \/ s.entries[r] = NoEntry THEN NoEntry
                                  ELSE s.generation + 1]
<1>1. note_table_swap(s, vanished) = [s EXCEPT !.generation = s.generation + 1, !.entries = E,
                                               !.tick_stale = s.tick_stale \ vanished]
  BY DEF note_table_swap
<1>2. s.generation + 1 \in Nat
  BY DEF GoodMap, StaleRoutes
<1>3. E \in [Routes -> Nat \cup {NoEntry}] /\ \A r \in Routes : E[r] \in {NoEntry, s.generation + 1}
  BY <1>2
<1> HIDE DEF E
<1> QED BY <1>1, <1>2, <1>3 DEF GoodMap, EntriesAreCurrent, StaleRoutes

LEMMA TakeGood ==
  ASSUME NEW s, GoodMap(s)
  PROVE  GoodMap(take_tick_stale(s)) /\ take_tick_stale(s).generation = s.generation
BY DEF GoodMap, EntriesAreCurrent, StaleRoutes, take_tick_stale

LEMMA ClaimOrMarkGood ==
  ASSUME NEW s, GoodMap(s), NEW r \in Routes
  PROVE  GoodMap(claim_or_mark_stale(s, r)) /\ claim_or_mark_stale(s, r).generation = s.generation
BY DEF GoodMap, EntriesAreCurrent, StaleRoutes, claim_or_mark_stale, NoEntry

LEMMA NoteGood ==
  ASSUME NEW s, GoodMap(s), NEW r \in Routes
  PROVE  GoodMap(note_dynamic_injected(s, r)) /\ note_dynamic_injected(s, r).generation = s.generation
BY DEF GoodMap, EntriesAreCurrent, StaleRoutes, note_dynamic_injected

LEMMA RestaleGood ==
  ASSUME NEW s, GoodMap(s)
  PROVE  GoodMap(restale_dynamic_injected(s)) /\ restale_dynamic_injected(s).generation = s.generation
BY DEF GoodMap, EntriesAreCurrent, StaleRoutes, restale_dynamic_injected, NoEntry

LEMMA ClearIfCurrentGood ==
  ASSUME NEW s, GoodMap(s), NEW c \in Claims
  PROVE  GoodMap(clear_if_current(s, c)) /\ clear_if_current(s, c).generation = s.generation
BY DEF GoodMap, EntriesAreCurrent, StaleRoutes, Claims, clear_if_current, NoEntry

\* A claim is taken at the current generation.
LEMMA ClaimIsCurrent ==
  ASSUME NEW s, GoodMap(s), NEW r \in Routes, IsStale(s, r)
  PROVE  /\ claim(s, r) \in Claims /\ claim(s, r).output_path = r
         /\ claim(s, r).generation = s.generation
BY DEF GoodMap, EntriesAreCurrent, StaleRoutes, Claims, claim, IsStale, NoEntry

-----------------------------------------------------------------------------
(* Data *)

LEMMA RenderIsDocument ==
  ASSUME NEW r \in Routes, NEW snapshot \in Trees
  PROVE  Render(r, snapshot) \in Documents
<1>1. Inputs(r) \subseteq Sources
  BY ConstantAssumption DEF Inputs
<1>2. Render(r, snapshot) \in [Inputs(r) -> Values \cup {Absent}]
  BY <1>1 DEF Render, Trees
<1> QED BY <1>2 DEF Documents

LEMMA RoutesOfType ==
  ASSUME NEW snapshot
  PROVE  RoutesOf(snapshot) \subseteq Routes \ Injected
BY DEF RoutesOf

LEMMA ReadersType ==
  ASSUME NEW obs, NEW c
  PROVE  ContentReaders(obs, c) \subseteq Pages
BY DEF ContentReaders

LEMMA PlannerType ==
  ASSUME TypeOK, NEW c
  PROVE  dirty_pages(c) \subseteq Pages /\ PagesFor(c) \subseteq Pages
<1>1. \A r \in Routes : PageOf[r] \in Pages
  BY ConstantAssumption
<1>2. dirty_pages(c) \subseteq Pages
  BY <1>1 DEF dirty_pages, TypeOK
<1> QED BY <1>2 DEF PagesFor

LEMMA IdleTickType ==
  ASSUME TypeOK
  PROVE  IdleTick \in TickLocals
<1>1. [r \in {} |-> NoFile] \in Outputs
  <2>1. [r \in {} |-> NoFile] \in [{} -> Documents]
    OBVIOUS
  <2> QED BY <2>1 DEF Outputs
<1>2. host.snapshot \in Trees
  BY DEF TypeOK
<1>3. "idle" \in TickPCs
  BY DEF TickPCs
<1> QED BY <1>1, <1>2, <1>3 DEF IdleTick, TickLocals

LEMMA IdleRequestType == IdleRequest \in RequestLocals
BY DEF IdleRequest, RequestLocals, RequestPCs

-----------------------------------------------------------------------------
(* The invariant *)

\* A request holds bytes only after a render under a claim; while the claim's
\* generation is the map's and no refresh is between its host swap and its table
\* swap, they are the bytes of the live host.
Claimed(q) == /\ req[q].claim \in Claims /\ req[q].claim.output_path = req[q].route
              /\ req[q].claim.generation <= stale.generation

Swapping == tick.pc \in {"beginTrace", "swapTables"}

RequestInv(q) ==
  /\ req[q].pc \in {"idle", "lock", "rendering"} => req[q].bytes = NoFile
  /\ req[q].pc = "rendering" => Claimed(q)
  /\ req[q].pc # "idle" => req[q].route \in Routes
  /\ req[q].pc = "write" => req[q].bytes # NoFile
  /\ req[q].bytes # NoFile =>
       /\ Claimed(q)
       /\ req[q].claim.generation = stale.generation /\ ~Swapping => HoldsLiveBytes(q)

IInv ==
  /\ TypeOK
  /\ EntriesAreCurrent(stale)
  /\ DedupMatchesDisk
  /\ \A q \in Requests : RequestInv(q)

LEMMA InitIInv == Init => IInv
<1> SUFFICES ASSUME Init PROVE IInv
  OBVIOUS
<1>1. src \in Trees
  BY ConstantAssumption DEF Init, Trees
<1>2. table \subseteq Routes \ Injected
  BY RoutesOfType DEF Init
<1>3. stale \in StaleRoutes /\ EntriesAreCurrent(stale)
  BY DEF Init, StaleRoutes, EntriesAreCurrent, NoEntry
<1>4. disk \in [Routes -> Documents \cup {NoFile}] /\ cache = disk
  BY <1>1, RenderIsDocument DEF Init
<1>5. edges \in [Content -> SUBSET Pages]
  BY ReadersType DEF Init
<1>6. host \in [snapshot : Trees, id : Nat, trace : SUBSET (Routes \cup Pages)]
  BY <1>1 DEF Init
<1>7. req \in [Requests -> RequestLocals]
  BY IdleRequestType DEF Init
<1>8. tick \in TickLocals
  <2>1. [r \in {} |-> NoFile] \in Outputs
    <3>1. [r \in {} |-> NoFile] \in [{} -> Documents]
      OBVIOUS
    <3> QED BY <3>1 DEF Outputs
  <2>2. "idle" \in TickPCs
    BY DEF TickPCs
  <2> QED BY <1>6, <2>1, <2>2 DEF Init, IdleTick, TickLocals
<1>9. /\ observed \subseteq Routes \cup Pages /\ known \subseteq Sources
      /\ budget \in [edits : Nat, faults : Nat]
  BY <1>2, ConstantAssumption DEF Init
<1>10. TypeOK
  BY <1>1, <1>2, <1>3, <1>4, <1>5, <1>6, <1>7, <1>8, <1>9 DEF Init, TypeOK
<1>11. \A q \in Requests : RequestInv(q)
  BY DEF Init, RequestInv, IdleRequest
<1>12. DedupMatchesDisk
  BY <1>4 DEF DedupMatchesDisk
<1> QED BY <1>3, <1>10, <1>11, <1>12 DEF IInv

\* What a step of the tick or of the developer must keep for the requests.
LEMMA RequestsKept ==
  ASSUME IInv, UNCHANGED req,
         \/ /\ stale'.generation = stale.generation /\ (Swapping => Swapping')
            /\ Swapping' \/ host'.snapshot = host.snapshot
         \/ stale'.generation = stale.generation + 1
  PROVE  \A q \in Requests : RequestInv(q)'
<1> SUFFICES ASSUME NEW q \in Requests PROVE RequestInv(q)'
  OBVIOUS
<1>1. RequestInv(q) /\ stale.generation \in Nat
  BY DEF IInv, TypeOK, StaleRoutes
<1>2. Claimed(q) => req[q].claim.generation \in Nat
  BY DEF Claimed, Claims
<1> QED BY <1>1, <1>2 DEF RequestInv, Claimed, Swapping, HoldsLiveBytes, Render

LEMMA FaultType ==
  ASSUME TypeOK, NEW kind, Fault(kind)
  PROVE  budget' \in [edits : Nat, faults : Nat]
BY DEF TypeOK, Fault

LEMMA ForgetType ==
  ASSUME TypeOK
  PROVE  /\ Batch \subseteq Sources
         /\ \A changes \in SUBSET Sources :
              Forget(changes) => dropped' \in [sources : SUBSET Sources, vanished : SUBSET Routes]
<1>1. tick.batch \subseteq Sources \X Kinds /\ tick.vanished \subseteq Routes
  BY DEF TypeOK, TickLocals
<1> QED BY <1>1 DEF TypeOK, Batch, Forget

LEMMA EditKeeps == ASSUME IInv, NEW c \in Sources, NEW v \in Values \cup {Absent}, Edit(c, v)
                   PROVE  IInv'
<1>1. src' \in Trees /\ budget' \in [edits : Nat, faults : Nat]
  BY DEF IInv, TypeOK, Edit, Trees
<1>2. pending' \subseteq Sources \X Kinds
  BY DEF IInv, TypeOK, Edit, Kinds
<1>3. TypeOK'
  BY <1>1, <1>2 DEF IInv, TypeOK, Edit, graphVars, hostVars, fileVars, history
<1>4. \A q \in Requests : RequestInv(q)'
  BY RequestsKept DEF Edit, hostVars, history, Swapping
<1> QED BY <1>3, <1>4 DEF IInv, Edit, fileVars, history, DedupMatchesDisk, EntriesAreCurrent

\* Between the tick and the files: steps that change only the tick's locals,
\* the registry and the edges.
LEMMA TickBeginKeeps == ASSUME IInv, TickBegin
                        PROVE  IInv'
<1> DEFINE removed  == {change[1] : change \in {x \in pending : x[2] = "Removed"}}
           registry == known \ removed
           batch    == Normalized(pending, registry)
           created  == {change[1] : change \in
                         {x \in batch : \/ x[2] = "Created" /\ OwnedBy(x[1]) # {}
                                        \/ x[2] = "Created" /\ x[1] \in Content
                                        \/ /\ x[2] = "Modified" /\ x[1] \in Modules \ registry
                                           /\ OwnedBy(x[1]) # {}}}
<1>0. pending \subseteq Sources \X Kinds
  BY DEF IInv, TypeOK
<1>1. batch \subseteq Sources \X Kinds
  BY <1>0 DEF Normalized, Kinds
<1>2. created \subseteq Sources /\ removed \subseteq Sources
  BY <1>0, <1>1
<1>3. FormerConsumers(removed) \subseteq Pages
  BY PlannerType DEF IInv, FormerConsumers
<1> HIDE DEF batch, created
<1>4. tick' \in TickLocals
  <2>1. {"plan", "discover"} \subseteq TickPCs /\ tick \in TickLocals
    BY DEF TickPCs, IInv, TypeOK
  <2>2. tick' = [tick EXCEPT !.pc = IF created = {} THEN "plan" ELSE "discover",
                             !.batch = batch, !.created = created,
                             !.pages = FormerConsumers(removed)]
    BY DEF TickBegin, batch, created
  <2> QED BY <1>1, <1>2, <1>3, <2>1, <2>2 DEF TickLocals
<1>5. edges' \in [Content -> SUBSET Pages] /\ known' \subseteq Sources
  BY DEF TickBegin, IInv, TypeOK
<1>6. TypeOK'
  BY <1>4, <1>5 DEF TickBegin, IInv, TypeOK, hostVars, fileVars, history
<1>7. \A q \in Requests : RequestInv(q)'
  <2>1. tick.pc = "idle"
    BY DEF TickBegin
  <2> QED BY <2>1, RequestsKept DEF TickBegin, hostVars, history, Swapping
<1> QED BY <1>6, <1>7 DEF TickBegin, IInv, fileVars, history, DedupMatchesDisk, EntriesAreCurrent

LEMMA TickPlanKeeps == ASSUME IInv, TickPlan \/ TickEnter
                       PROVE  IInv'
<1>1. tick' \in TickLocals
  <2>1. {"enter", "render", "reload"} \subseteq TickPCs /\ tick \in TickLocals /\ failedPrunes \subseteq Routes
    BY DEF TickPCs, IInv, TypeOK
  <2>2. \A c : PagesFor(c) \subseteq Pages
    BY PlannerType DEF IInv
  <2>3. CASE TickPlan
    <3>1. UNION {PagesFor(change[1]) : change \in {x \in tick.batch : x[2] # "Removed"}} \subseteq Pages
      BY <2>2
    <3> QED BY <2>1, <2>3, <3>1 DEF TickPlan, TickLocals
  <2>4. CASE TickEnter
    BY <2>1, <2>4 DEF TickEnter, TickLocals
  <2> QED BY <2>3, <2>4
<1>2. TypeOK'
  BY <1>1 DEF TickPlan, TickEnter, IInv, TypeOK, envVars, graphVars, hostVars, fileVars, history
<1>3. \A q \in Requests : RequestInv(q)'
  <2>1. ~Swapping
    BY DEF TickPlan, TickEnter, Swapping
  <2> QED BY <2>1, RequestsKept DEF TickPlan, TickEnter, hostVars, history
<1> QED BY <1>2, <1>3 DEF TickPlan, TickEnter, IInv, fileVars, history, DedupMatchesDisk, EntriesAreCurrent

LEMMA RefreshKeeps == ASSUME IInv, RefreshBundle \/ RefreshFails
                      PROVE  IInv'
<1>1. CASE RefreshBundle
  <2>1. {"plan", "render", "swapHost"} \subseteq TickPCs /\ tick \in TickLocals /\ src \in Trees
    BY DEF TickPCs, IInv, TypeOK
  <2>2. Discovering \in BOOLEAN /\ AfterRefresh \in {"plan", "render"}
    BY DEF Discovering, AfterRefresh
  <2>3. tick' \in TickLocals
    <3>1. CASE should_skip_refresh
      BY <1>1, <2>1, <2>2, <3>1 DEF RefreshBundle, TickLocals
    <3>2. CASE ~should_skip_refresh
      BY <1>1, <2>1, <3>2 DEF RefreshBundle, TickLocals
    <3> QED BY <3>1, <3>2
  <2>4. known' \subseteq Sources
    BY <1>1 DEF RefreshBundle, Registered, IInv, TypeOK
  <2>5. TypeOK'
    BY <1>1, <2>3, <2>4 DEF RefreshBundle, IInv, TypeOK, envVars, graphVars, hostVars, fileVars, history
  <2>6. ~Swapping
    BY <1>1 DEF RefreshBundle, Swapping
  <2>7. \A q \in Requests : RequestInv(q)'
    BY <1>1, <2>6, RequestsKept DEF RefreshBundle, hostVars, history
  <2> QED BY <1>1, <2>5, <2>7 DEF RefreshBundle, IInv, fileVars, history, DedupMatchesDisk, EntriesAreCurrent
<1>2. CASE RefreshFails
  <2>1. tick' \in TickLocals
    BY <1>2, IdleTickType DEF RefreshFails, AbortTick, IInv
  <2>2. budget' \in [edits : Nat, faults : Nat]
    BY <1>2, FaultType DEF RefreshFails, IInv
  <2>3. /\ dropped' \in [sources : SUBSET Sources, vanished : SUBSET Routes]
        /\ unbundled' \subseteq Sources /\ exclusion' \in {Watcher, Nobody}
    <3>1. Batch \subseteq Sources /\ dropped.sources \cup Batch \in SUBSET Sources
      BY ForgetType DEF IInv, TypeOK
    <3> QED BY <1>2, <3>1, ForgetType DEF RefreshFails, AbortTick, IInv, TypeOK
  <2>4. TypeOK'
    BY <1>2, <2>1, <2>2, <2>3 DEF RefreshFails, IInv, TypeOK, envVars, graphVars, hostVars, fileVars, history
  <2>5. ~Swapping
    BY <1>2 DEF RefreshFails, Swapping
  <2>6. \A q \in Requests : RequestInv(q)'
    BY <1>2, <2>5, RequestsKept DEF RefreshFails, hostVars, history
  <2> QED BY <1>2, <2>4, <2>6 DEF RefreshFails, IInv, fileVars, history, DedupMatchesDisk, EntriesAreCurrent
<1> QED BY <1>1, <1>2

LEMMA SwapHostKeeps == ASSUME IInv, SwapHost \/ BeginTrace
                       PROVE  IInv'
<1>1. {"beginTrace", "swapTables"} \subseteq TickPCs /\ tick \in TickLocals
  BY DEF TickPCs, IInv, TypeOK
<1>2. tick' \in TickLocals /\ host' \in [snapshot : Trees, id : Nat, trace : SUBSET (Routes \cup Pages)]
  <2>1. CASE SwapHost
    <3>1. host.snapshot \in Trees /\ host.id + 1 \in Nat /\ tick.snapshot \in Trees
      BY DEF IInv, TypeOK, TickLocals
    <3>2. tick' \in TickLocals
      BY <1>1, <2>1, <3>1 DEF SwapHost, TickLocals
    <3>3. {p \in Pages : PathReads[p] # {}} \in SUBSET (Routes \cup Pages)
      OBVIOUS
    <3>4. host' \in [snapshot : Trees, id : Nat, trace : SUBSET (Routes \cup Pages)]
      BY <2>1, <3>1, <3>3 DEF SwapHost
    <3> QED BY <3>2, <3>4
  <2>2. CASE BeginTrace
    BY <1>1, <2>2 DEF BeginTrace, Goto, IInv, TypeOK, TickLocals
  <2> QED BY <2>1, <2>2
<1>3. token' \in Nat
  BY DEF SwapHost, BeginTrace, IInv, TypeOK
<1>4. TypeOK'
  BY <1>2, <1>3 DEF SwapHost, BeginTrace, IInv, TypeOK, envVars, graphVars, fileVars, history
<1>5. Swapping'
  BY <1>1 DEF SwapHost, BeginTrace, Goto, Swapping, TickLocals
<1>6. \A q \in Requests : RequestInv(q)'
  BY <1>5, RequestsKept DEF SwapHost, BeginTrace
<1> QED BY <1>4, <1>6 DEF SwapHost, BeginTrace, IInv, fileVars, history, DedupMatchesDisk, EntriesAreCurrent

\* The table swap is where every claim taken so far goes out of date.
LEMMA SwapTablesKeeps == ASSUME IInv, SwapTables
                         PROVE  IInv'
<1> DEFINE live     == RoutesOf(tick.snapshot)
           vanished == table \ live
           identity == \E c \in IslandSources : tick.previous[c] # tick.snapshot[c]
           swapped  == note_table_swap(stale, vanished)
           marked   == mark_stale(swapped, IF identity THEN live ELSE Seeds)
<1>1. live \subseteq Routes \ Injected /\ vanished \in SUBSET Routes /\ table \subseteq Routes
  BY RoutesOfType DEF IInv, TypeOK
<1>2. GoodMap(swapped) /\ swapped.generation = stale.generation + 1
  BY <1>1, SwapGood DEF IInv, TypeOK, GoodMap
<1> HIDE DEF swapped
<1>3. GoodMap(marked) /\ marked.generation = swapped.generation
  <2>1. (IF identity THEN live ELSE Seeds) \in SUBSET Routes
    BY <1>1, ConstantAssumption
  <2> QED BY <1>2, <2>1, MarkGood
<1>4. stale' = restale_dynamic_injected(marked)
  BY DEF SwapTables, Restaled, swapped
<1> HIDE DEF marked
<1>5. GoodMap(stale') /\ stale'.generation = stale.generation + 1
  BY <1>2, <1>3, <1>4, RestaleGood
<1>6. tick' \in TickLocals
  <2>1. {"plan", "render"} \subseteq TickPCs /\ tick \in TickLocals
    BY DEF TickPCs, IInv, TypeOK
  <2>2. Discovering \in BOOLEAN /\ AfterRefresh \in {"plan", "render"}
    BY DEF Discovering, AfterRefresh
  <2>3. ChangedPages(table, live) \subseteq Pages
    BY <1>1, ConstantAssumption DEF ChangedPages
  <2>4. tick' = [tick EXCEPT !.pc = AfterRefresh, !.fresh = Discovering, !.vanished = vanished,
                             !.pages = IF Discovering THEN tick.pages \cup ChangedPages(table, live)
                                       ELSE tick.pages]
    BY DEF SwapTables
  <2> HIDE DEF live, vanished
  <2> QED BY <1>1, <2>1, <2>2, <2>3, <2>4 DEF TickLocals
<1>7. known' \subseteq Sources
  BY DEF SwapTables, Registered, IInv, TypeOK
<1>8. table' \subseteq Routes \ Injected
  BY <1>1 DEF SwapTables
<1>11. dropped' \in [sources : SUBSET Sources, vanished : SUBSET Routes]
  BY DEF SwapTables, IInv, TypeOK
<1>9. TypeOK'
  BY <1>5, <1>6, <1>7, <1>8, <1>11 DEF SwapTables, GoodMap, IInv, TypeOK, envVars, graphVars, fileVars, history
<1>10. \A q \in Requests : RequestInv(q)'
  BY <1>5, RequestsKept DEF SwapTables
<1> QED BY <1>5, <1>9, <1>10 DEF SwapTables, GoodMap, IInv, fileVars, history, DedupMatchesDisk

LEMMA SelectionType ==
  ASSUME TypeOK
  PROVE  Eager \subseteq Selected /\ Selected \subseteq Routes
BY DEF TypeOK, Eager, Selected

LEMMA RenderEagerKeeps == ASSUME IInv, NEW failed \in SUBSET Routes, RenderEager(failed)
                          PROVE  IInv'
<1>1. budget' \in [edits : Nat, faults : Nat]
  BY FaultType DEF RenderEager, IInv, TypeOK
<1>2. RendersOf(host, Eager \ failed) \in Outputs
  <2>1. Eager \ failed \in SUBSET Routes /\ host.snapshot \in Trees
    BY SelectionType DEF IInv, TypeOK
  <2>2. RendersOf(host, Eager \ failed) \in [Eager \ failed -> Documents]
    BY <2>1, RenderIsDocument DEF RendersOf
  <2> QED BY <2>1, <2>2 DEF Outputs
<1>3. tick' \in TickLocals
  <2>1. "mark" \in TickPCs /\ tick \in TickLocals
    BY DEF TickPCs, IInv, TypeOK
  <2>2. (Selected \ Eager) \cup failed \in SUBSET Routes
    BY SelectionType DEF IInv
  <2> QED BY <1>2, <2>1, <2>2 DEF RenderEager, TickLocals
<1>4. /\ host' \in [snapshot : Trees, id : Nat, trace : SUBSET (Routes \cup Pages)]
      /\ host'.snapshot = host.snapshot
  BY SelectionType DEF RenderEager, IInv, TypeOK
<1>5. TypeOK'
  BY <1>1, <1>3, <1>4 DEF RenderEager, IInv, TypeOK, envVars, graphVars, fileVars, history
<1>6. ~Swapping
  BY DEF RenderEager, Swapping
<1>7. \A q \in Requests : RequestInv(q)'
  BY <1>4, <1>6, RequestsKept DEF RenderEager
<1> QED BY <1>5, <1>7 DEF RenderEager, IInv, fileVars, history, DedupMatchesDisk, EntriesAreCurrent

LEMMA MarkStaleKeeps == ASSUME IInv, MarkStale
                        PROVE  IInv'
<1>1. GoodMap(stale') /\ stale'.generation = stale.generation
  BY MarkGood DEF MarkStale, IInv, TypeOK, GoodMap, TickLocals
<1>2. tick' \in TickLocals
  <2>1. "reconcile" \in TickPCs
    BY DEF TickPCs
  <2> QED BY <2>1 DEF MarkStale, IInv, TypeOK, TickLocals
<1>3. TypeOK'
  BY <1>1, <1>2 DEF MarkStale, GoodMap, IInv, TypeOK, envVars, graphVars, hostVars, fileVars, history
<1>4. ~Swapping
  BY DEF MarkStale, Swapping
<1>5. \A q \in Requests : RequestInv(q)'
  BY <1>1, <1>4, RequestsKept DEF MarkStale, hostVars, history
<1> QED BY <1>1, <1>3, <1>5 DEF MarkStale, GoodMap, IInv, fileVars, history, DedupMatchesDisk

LEMMA ObserveType ==
  ASSUME TypeOK, NEW drained \in SUBSET (Routes \cup Pages), Observe(drained) \/ ObserveFails(drained)
  PROVE  /\ observed' \subseteq Routes \cup Pages /\ edges' \in [Content -> SUBSET Pages]
         /\ budget' \in [edits : Nat, faults : Nat]
<1>1. CASE Observe(drained)
  BY <1>1, ReadersType DEF TypeOK, Observe, replace_content_edges
<1>2. CASE ObserveFails(drained)
  BY <1>2, FaultType DEF TypeOK, ObserveFails, clear_content_edges
<1> QED BY <1>1, <1>2

LEMMA TickReconcileKeeps == ASSUME IInv, TickReconcile
                            PROVE  IInv'
<1>1. /\ observed' \subseteq Routes \cup Pages /\ edges' \in [Content -> SUBSET Pages]
      /\ budget' \in [edits : Nat, faults : Nat]
  <2>1. host.trace \in SUBSET (Routes \cup Pages)
    BY DEF IInv, TypeOK
  <2> QED BY <2>1, ObserveType DEF TickReconcile, IInv
<1>2. /\ host' \in [snapshot : Trees, id : Nat, trace : SUBSET (Routes \cup Pages)]
      /\ host'.snapshot = host.snapshot
  BY DEF TickReconcile, IInv, TypeOK
<1>3. tick' \in TickLocals
  <2>1. "write" \in TickPCs
    BY DEF TickPCs
  <2> QED BY <2>1 DEF TickReconcile, Goto, IInv, TypeOK, TickLocals
<1>4. TypeOK'
  BY <1>1, <1>2, <1>3 DEF TickReconcile, IInv, TypeOK, envVars, fileVars, history
<1>5. ~Swapping
  BY DEF TickReconcile, Swapping
<1>6. \A q \in Requests : RequestInv(q)'
  BY <1>2, <1>5, RequestsKept DEF TickReconcile
<1> QED BY <1>4, <1>6 DEF TickReconcile, IInv, fileVars, history, DedupMatchesDisk, EntriesAreCurrent

\* Writing a document through the dedup cache.
LEMMA CommitKeeps ==
  ASSUME TypeOK, DedupMatchesDisk, NEW r \in Routes, NEW bytes \in Documents \cup {NoFile},
         CommitDocument(r, bytes)
  PROVE  /\ disk' \in [Routes -> Documents \cup {NoFile}]
         /\ cache' \in [Routes -> Documents \cup {NoFile}]
         /\ failedPrunes' \subseteq Routes
         /\ DedupMatchesDisk'
<1>1. /\ disk' \in [Routes -> Documents \cup {NoFile}]
      /\ cache' \in [Routes -> Documents \cup {NoFile}] /\ failedPrunes' \subseteq Routes
  BY DEF TypeOK, CommitDocument
<1>2. DedupMatchesDisk'
  BY DEF TypeOK, CommitDocument, DedupMatchesDisk
<1> QED BY <1>1, <1>2

LEMMA TickWriteKeeps == ASSUME IInv, NEW r \in Routes, TickWrite(r)
                        PROVE  IInv'
<1>1. tick.out \in Outputs /\ tick.out[r] \in Documents
  BY DEF TickWrite, IInv, TypeOK, TickLocals, Outputs
<1>2. /\ disk' \in [Routes -> Documents \cup {NoFile}]
      /\ cache' \in [Routes -> Documents \cup {NoFile}]
      /\ failedPrunes' \subseteq Routes /\ DedupMatchesDisk'
  BY <1>1, CommitKeeps DEF TickWrite, IInv
<1>3. GoodMap(stale') /\ stale'.generation = stale.generation
  <2>1. {r} \in SUBSET Routes
    OBVIOUS
  <2> QED BY <2>1, ClearGood DEF TickWrite, IInv, TypeOK, GoodMap
<1>6. tick' \in TickLocals
  <2>1. [s \in DOMAIN tick.out \ {r} |-> tick.out[s]] \in Outputs
    <3>1. PICK rs \in SUBSET Routes : tick.out \in [rs -> Documents]
      BY <1>1 DEF Outputs
    <3>2. rs \ {r} \in SUBSET Routes /\ DOMAIN tick.out = rs
      BY <3>1
    <3>3. [s \in DOMAIN tick.out \ {r} |-> tick.out[s]] \in [rs \ {r} -> Documents]
      BY <3>1, <3>2
    <3> QED BY <3>2, <3>3 DEF Outputs
  <2>3. tick' = [tick EXCEPT !.out = [s \in DOMAIN tick.out \ {r} |-> tick.out[s]],
                             !.written = tick.written \cup {r}]
    BY DEF TickWrite
  <2>4. tick \in TickLocals
    BY DEF IInv, TypeOK
  <2> QED BY <2>1, <2>3, <2>4 DEF TickLocals
<1>7. TypeOK'
  BY <1>2, <1>3, <1>6 DEF TickWrite, GoodMap, IInv, TypeOK, envVars, graphVars, hostVars, history
<1>8. ~Swapping
  BY DEF TickWrite, Swapping
<1>9. \A q \in Requests : RequestInv(q)'
  BY <1>3, <1>8, RequestsKept DEF TickWrite, hostVars, history, Swapping
<1> QED BY <1>2, <1>3, <1>7, <1>9 DEF GoodMap, IInv

LEMMA TickWriteFailsKeeps == ASSUME IInv, NEW r \in Routes, TickWriteFails(r)
                             PROVE  IInv'
<1>1. tick' \in TickLocals
  BY IdleTickType DEF TickWriteFails, AbortTick, IInv
<1>2. budget' \in [edits : Nat, faults : Nat]
  BY FaultType DEF TickWriteFails, IInv
<1>3. /\ dropped' \in [sources : SUBSET Sources, vanished : SUBSET Routes]
      /\ unwritten' \subseteq Routes /\ exclusion' \in {Watcher, Nobody}
  <2>1. dropped.sources \ Batch \in SUBSET Sources /\ DOMAIN tick.out \subseteq Routes
    BY DEF IInv, TypeOK, TickLocals, Outputs
  <2> QED BY <2>1, ForgetType DEF TickWriteFails, AbortTick, IInv, TypeOK
<1>4. TypeOK'
  BY <1>1, <1>2, <1>3 DEF TickWriteFails, IInv, TypeOK, envVars, graphVars, hostVars, fileVars, history
<1>5. ~Swapping
  BY DEF TickWriteFails, Swapping
<1>6. \A q \in Requests : RequestInv(q)'
  BY <1>5, RequestsKept DEF TickWriteFails, hostVars, history
<1> QED BY <1>4, <1>6 DEF TickWriteFails, IInv, fileVars, history, DedupMatchesDisk, EntriesAreCurrent

LEMMA TickPruneKeeps == ASSUME IInv, NEW undeletable \in SUBSET Routes, TickPrune(undeletable)
                        PROVE  IInv'
<1> DEFINE gone == PrunePaths \ Protected
<1>1. budget' \in [edits : Nat, faults : Nat]
  BY FaultType DEF TickPrune, IInv, TypeOK
<1>2. tick' \in TickLocals
  <2>1. "finish" \in TickPCs
    BY DEF TickPCs
  <2> QED BY <2>1 DEF TickPrune, Goto, IInv, TypeOK, TickLocals
<1>3. /\ disk' = [r \in Routes |-> IF r \in gone \ undeletable THEN NoFile ELSE disk[r]]
      /\ cache' = [r \in Routes |-> IF r \in gone THEN NoFile ELSE cache[r]]
  BY DEF TickPrune, evict_path
<1>4. failedPrunes' \subseteq Routes
  BY DEF TickPrune, IInv, TypeOK
<1> HIDE DEF gone
<1>5. /\ disk' \in [Routes -> Documents \cup {NoFile}]
      /\ cache' \in [Routes -> Documents \cup {NoFile}]
  BY <1>3 DEF IInv, TypeOK
<1>6. DedupMatchesDisk'
  BY <1>3 DEF IInv, DedupMatchesDisk
<1>7. TypeOK'
  BY <1>1, <1>2, <1>4, <1>5 DEF TickPrune, IInv, TypeOK, envVars, graphVars, hostVars, history
<1>8. ~Swapping
  BY DEF TickPrune, Swapping
<1>9. \A q \in Requests : RequestInv(q)'
  BY <1>8, RequestsKept DEF TickPrune, hostVars, history
<1> QED BY <1>6, <1>7, <1>9 DEF TickPrune, IInv, EntriesAreCurrent

LEMMA TickFinishKeeps == ASSUME IInv, TickFinish
                         PROVE  IInv'
<1>1. GoodMap(stale') /\ stale'.generation = stale.generation
  BY TakeGood DEF TickFinish, IInv, TypeOK, GoodMap
<1>2. tick' \in TickLocals
  BY IdleTickType DEF TickFinish, IInv
<1>6. dropped' \in [sources : SUBSET Sources, vanished : SUBSET Routes]
  BY DEF TickFinish, IInv, TypeOK
<1>3. TypeOK'
  BY <1>1, <1>2, <1>6 DEF TickFinish, GoodMap, IInv, TypeOK, envVars, graphVars, hostVars, fileVars, history
<1>4. ~Swapping
  BY DEF TickFinish, Swapping
<1>5. \A q \in Requests : RequestInv(q)'
  BY <1>1, <1>4, RequestsKept DEF TickFinish, hostVars, history
<1> QED BY <1>1, <1>3, <1>5 DEF TickFinish, GoodMap, IInv, fileVars, history, DedupMatchesDisk

-----------------------------------------------------------------------------
(* The requests *)

\* A step of request `q' that changes neither the map's generation nor the
\* host's snapshot leaves the other requests alone.
LEMMA OtherRequestsKept ==
  ASSUME IInv, NEW q \in Requests, \A p \in Requests \ {q} : req'[p] = req[p], RequestInv(q)',
         stale'.generation = stale.generation, host'.snapshot = host.snapshot, UNCHANGED tick
  PROVE  \A p \in Requests : RequestInv(p)'
<1> SUFFICES ASSUME NEW p \in Requests \ {q} PROVE RequestInv(p)'
  OBVIOUS
<1>1. RequestInv(p)
  BY DEF IInv
<1> QED BY <1>1 DEF RequestInv, Claimed, Swapping, HoldsLiveBytes, Render

LEMMA RequestRouteKeeps == ASSUME IInv, NEW q \in Requests, NEW r \in Routes, RequestRoute(q, r)
                           PROVE  IInv'
<1>1. GoodMap(stale') /\ stale'.generation = stale.generation
  BY NoteGood, ClaimOrMarkGood DEF RequestRoute, IInv, TypeOK, GoodMap
<1>2. /\ req[q] \in RequestLocals /\ req' \in [Requests -> RequestLocals]
      /\ req'[q] = [req[q] EXCEPT !.pc = IF IsStale(stale', r) THEN "lock" ELSE "idle",
                                  !.route = IF IsStale(stale', r) THEN r ELSE NoPath]
      /\ \A p \in Requests \ {q} : req'[p] = req[p]
  <2>1. /\ req[q] \in RequestLocals /\ {"lock", "idle"} \subseteq RequestPCs
        /\ req \in [Requests -> RequestLocals]
    BY DEF IInv, TypeOK, RequestPCs
  <2>2. req' = [req EXCEPT ![q].pc = IF IsStale(stale', r) THEN "lock" ELSE "idle",
                           ![q].route = IF IsStale(stale', r) THEN r ELSE NoPath]
    BY DEF RequestRoute
  <2>3. req'[q] = [req[q] EXCEPT !.pc = IF IsStale(stale', r) THEN "lock" ELSE "idle",
                                !.route = IF IsStale(stale', r) THEN r ELSE NoPath]
    BY <2>1, <2>2
  <2>4. req'[q] \in RequestLocals
    BY <2>1, <2>3 DEF RequestLocals
  <2>5. \A p \in Requests \ {q} : req'[p] = req[p]
    BY <2>1, <2>2
  <2>6. req' = [p \in Requests |-> req'[p]]
    BY <2>1, <2>2
  <2> QED BY <2>1, <2>3, <2>4, <2>5, <2>6
<1>3. TypeOK'
  BY <1>1, <1>2 DEF RequestRoute, GoodMap, IInv, TypeOK, envVars, graphVars, hostVars, fileVars, history
<1>4. RequestInv(q)'
  <2>1. RequestInv(q) /\ req[q].pc = "idle"
    BY DEF IInv, RequestRoute
  <2> QED BY <1>2, <2>1 DEF RequestInv, RequestLocals
<1>5. \A p \in Requests : RequestInv(p)'
  BY <1>1, <1>2, <1>4, OtherRequestsKept DEF RequestRoute, hostVars, history
<1> QED BY <1>1, <1>3, <1>5 DEF RequestRoute, GoodMap, IInv, fileVars, history, DedupMatchesDisk

LEMMA RequestClaimKeeps == ASSUME IInv, NEW q \in Requests, RequestClaim(q)
                           PROVE  IInv'
<1>1. req[q] \in RequestLocals /\ RequestInv(q) /\ req[q].pc = "lock" /\ req[q].route \in Routes
  BY DEF IInv, TypeOK, RequestClaim, RequestInv
<1>2. CASE IsStale(stale, req[q].route)
  <2> DEFINE taken == claim(stale, req[q].route)
  <2>1. taken \in Claims /\ taken.output_path = req[q].route /\ taken.generation = stale.generation
    BY <1>1, <1>2, ClaimIsCurrent DEF IInv, TypeOK, GoodMap
  <2>2. req' = [req EXCEPT ![q].pc = "rendering", ![q].claim = taken] /\ renderer' = q
    BY <1>2 DEF RequestClaim
  <2> HIDE DEF taken
  <2>3. /\ req'[q] = [req[q] EXCEPT !.pc = "rendering", !.claim = taken]
        /\ req' \in [Requests -> RequestLocals]
        /\ \A p \in Requests \ {q} : req'[p] = req[p]
    BY <1>1, <2>1, <2>2 DEF IInv, TypeOK, RequestLocals, RequestPCs
  <2>4. TypeOK'
    BY <2>2, <2>3 DEF RequestClaim, IInv, TypeOK, envVars, graphVars, fileVars, history
  <2>5. RequestInv(q)'
    <3>1. stale' = stale /\ stale.generation \in Nat
      BY DEF RequestClaim, IInv, TypeOK, StaleRoutes
    <3> QED BY <1>1, <2>1, <2>3, <3>1 DEF RequestInv, Claimed, RequestLocals
  <2>6. \A p \in Requests : RequestInv(p)'
    BY <2>3, <2>5, OtherRequestsKept DEF RequestClaim
  <2> QED BY <2>4, <2>6 DEF RequestClaim, IInv, fileVars, history, DedupMatchesDisk, EntriesAreCurrent
<1>3. CASE ~IsStale(stale, req[q].route)
  <2>1. /\ req'[q] = [req[q] EXCEPT !.pc = "token"] /\ req' \in [Requests -> RequestLocals]
        /\ \A p \in Requests \ {q} : req'[p] = req[p]
    BY <1>1, <1>3 DEF RequestClaim, GotoReq, IInv, TypeOK, RequestLocals, RequestPCs
  <2>2. renderer' = renderer
    BY <1>3 DEF RequestClaim
  <2>3. TypeOK'
    BY <2>1, <2>2 DEF RequestClaim, IInv, TypeOK, envVars, graphVars, fileVars, history
  <2>4. RequestInv(q)'
    BY <1>1, <2>1 DEF RequestInv, RequestLocals
  <2>5. \A p \in Requests : RequestInv(p)'
    BY <2>1, <2>4, OtherRequestsKept DEF RequestClaim
  <2> QED BY <2>3, <2>5 DEF RequestClaim, IInv, fileVars, history, DedupMatchesDisk, EntriesAreCurrent
<1> QED BY <1>2, <1>3

\* Moving one request to another program counter.
LEMMA GotoReqType ==
  ASSUME TypeOK, NEW q \in Requests, NEW pc \in RequestPCs, GotoReq(q, pc)
  PROVE  /\ req' \in [Requests -> RequestLocals] /\ req'[q] = [req[q] EXCEPT !.pc = pc]
         /\ \A p \in Requests \ {q} : req'[p] = req[p]
BY DEF TypeOK, GotoReq, RequestLocals

LEMMA RequestRenderKeeps == ASSUME IInv, NEW q \in Requests, RequestRenders(q) \/ RequestRenderFails(q)
                            PROVE  IInv'
<1>1. /\ req[q] \in RequestLocals /\ RequestInv(q) /\ req[q].pc = "rendering"
      /\ req[q].route \in Routes /\ Claimed(q) /\ "token" \in RequestPCs
  BY DEF IInv, TypeOK, RequestRenders, RequestRenderFails, RequestInv, RequestPCs
<1>2. CASE RequestRenders(q)
  <2> DEFINE bytes == Render(req[q].route, host.snapshot)
  <2>1. bytes \in Documents
    BY <1>1, RenderIsDocument DEF IInv, TypeOK
  <2>2. req' = [req EXCEPT ![q].pc = "token", ![q].bytes = bytes]
    BY <1>2 DEF RequestRenders
  <2>3. HoldsLiveBytes(q)' <=> req'[q].bytes = Render(req'[q].route, host'.snapshot)
    BY DEF HoldsLiveBytes
  <2>4. /\ host' \in [snapshot : Trees, id : Nat, trace : SUBSET (Routes \cup Pages)]
        /\ host'.snapshot = host.snapshot
    BY <1>1, <1>2 DEF RequestRenders, IInv, TypeOK
  <2>5. Render(req[q].route, host'.snapshot) = bytes
    BY <2>4
  <2> HIDE DEF bytes
  <2>6. /\ req'[q] = [req[q] EXCEPT !.pc = "token", !.bytes = bytes]
        /\ req' \in [Requests -> RequestLocals]
        /\ \A p \in Requests \ {q} : req'[p] = req[p]
    BY <1>1, <2>1, <2>2 DEF IInv, TypeOK, RequestLocals
  <2>7. TypeOK'
    BY <1>2, <2>4, <2>6 DEF RequestRenders, IInv, TypeOK, envVars, graphVars, fileVars, history
  <2>8. RequestInv(q)'
    <3>1. stale' = stale /\ HoldsLiveBytes(q)'
      BY <1>1, <1>2, <2>3, <2>5, <2>6 DEF RequestRenders, RequestLocals
    <3> QED BY <1>1, <2>6, <3>1 DEF RequestInv, Claimed, RequestLocals
  <2>9. \A p \in Requests : RequestInv(p)'
    BY <1>2, <2>4, <2>6, <2>8, OtherRequestsKept DEF RequestRenders
  <2> QED BY <1>2, <2>7, <2>9 DEF RequestRenders, IInv, fileVars, history, DedupMatchesDisk, EntriesAreCurrent
<1>3. CASE RequestRenderFails(q)
  <2>1. budget' \in [edits : Nat, faults : Nat]
    BY <1>3, FaultType DEF RequestRenderFails, IInv, TypeOK
  <2>2. /\ req' \in [Requests -> RequestLocals] /\ req'[q] = [req[q] EXCEPT !.pc = "token"]
        /\ \A p \in Requests \ {q} : req'[p] = req[p]
    BY <1>1, <1>3, GotoReqType DEF RequestRenderFails, IInv
  <2>3. TypeOK'
    BY <1>3, <2>1, <2>2 DEF RequestRenderFails, IInv, TypeOK, envVars, graphVars, fileVars, history
  <2>4. RequestInv(q)'
    BY <1>1, <2>2 DEF RequestInv, RequestLocals
  <2>5. \A p \in Requests : RequestInv(p)'
    BY <1>3, <2>2, <2>4, OtherRequestsKept DEF RequestRenderFails
  <2> QED BY <1>3, <2>3, <2>5 DEF RequestRenderFails, IInv, fileVars, history, DedupMatchesDisk, EntriesAreCurrent
<1> QED BY <1>2, <1>3

LEMMA RequestTokenKeeps == ASSUME IInv, NEW q \in Requests, RequestToken(q)
                           PROVE  IInv'
<1>1. req[q] \in RequestLocals /\ RequestInv(q) /\ req[q].pc = "token" /\ "drain" \in RequestPCs
  BY DEF IInv, TypeOK, RequestToken, RequestPCs
<1>2. /\ req'[q] = [req[q] EXCEPT !.pc = "drain", !.token = token]
      /\ req' \in [Requests -> RequestLocals]
      /\ \A p \in Requests \ {q} : req'[p] = req[p]
  BY <1>1 DEF RequestToken, IInv, TypeOK, RequestLocals
<1>3. TypeOK'
  BY <1>2 DEF RequestToken, IInv, TypeOK, envVars, graphVars, hostVars, fileVars, history
<1>4. RequestInv(q)'
  BY <1>1, <1>2
  DEF RequestToken, hostVars, history, RequestInv, RequestLocals, Claimed, HoldsLiveBytes, Render,
      Swapping
<1>5. \A p \in Requests : RequestInv(p)'
  BY <1>2, <1>4, OtherRequestsKept DEF RequestToken, hostVars, history
<1> QED BY <1>3, <1>5 DEF RequestToken, IInv, fileVars, history, DedupMatchesDisk, EntriesAreCurrent

\* Leaving the provenance reconcile, with or without bytes to write.
LEMMA AfterReconcileKeeps ==
  ASSUME IInv, NEW q \in Requests, req[q].pc \in {"drain", "apply"},
         NEW ok \in BOOLEAN, AfterReconcile(q, ok),
         UNCHANGED <<stale, tick>>, host'.snapshot = host.snapshot
  PROVE  req' \in [Requests -> RequestLocals] /\ \A p \in Requests : RequestInv(p)'
<1>1. req[q] \in RequestLocals /\ RequestInv(q) /\ "write" \in RequestPCs
  BY DEF IInv, TypeOK, RequestPCs
<1>2. \A p \in Requests \ {q} : req'[p] = req[p]
  BY DEF AfterReconcile, IInv, TypeOK
<1>3. CASE req[q].bytes = NoFile
  <2>1. req' = [req EXCEPT ![q] = IdleRequest]
    BY <1>3 DEF AfterReconcile
  <2>2. req' \in [Requests -> RequestLocals] /\ req'[q] = IdleRequest
    BY <2>1, IdleRequestType DEF IInv, TypeOK
  <2>3. RequestInv(q)'
    BY <2>2 DEF RequestInv, IdleRequest
  <2> QED BY <1>2, <2>2, <2>3, OtherRequestsKept
<1>4. CASE req[q].bytes # NoFile
  <2>1. req' = [req EXCEPT ![q] = [req[q] EXCEPT !.pc = "write", !.token = 0, !.drained = {},
                                                 !.provenance = ok]]
    BY <1>4 DEF AfterReconcile
  <2>2. req'[q] = [req[q] EXCEPT !.pc = "write", !.token = 0, !.drained = {}, !.provenance = ok]
    BY <2>1 DEF IInv, TypeOK
  <2>3. req' \in [Requests -> RequestLocals]
    BY <1>1, <2>1 DEF IInv, TypeOK, RequestLocals
  <2>4. RequestInv(q)'
    BY <1>1, <1>4, <2>2 DEF RequestInv, RequestLocals, Claimed, HoldsLiveBytes, Render, Swapping
  <2> QED BY <1>2, <2>3, <2>4, OtherRequestsKept
<1> QED BY <1>3, <1>4

LEMMA RequestDrainKeeps == ASSUME IInv, NEW q \in Requests, RequestDrain(q)
                           PROVE  IInv'
<1>1. /\ req[q] \in RequestLocals /\ RequestInv(q) /\ req[q].pc = "drain" /\ "apply" \in RequestPCs
      /\ host.trace \in SUBSET (Routes \cup Pages)
  BY DEF IInv, TypeOK, RequestDrain, RequestPCs
<1>2. edges' \in [Content -> SUBSET Pages]
  BY DEF RequestDrain, clear_content_edges, IInv, TypeOK
<1>3. /\ host' \in [snapshot : Trees, id : Nat, trace : SUBSET (Routes \cup Pages)]
      /\ host'.snapshot = host.snapshot
  BY DEF RequestDrain, IInv, TypeOK
<1>4. req' \in [Requests -> RequestLocals] /\ \A p \in Requests : RequestInv(p)'
  <2>1. CASE req[q].token = host.id
    <3>1. req' = [req EXCEPT ![q].pc = "apply", ![q].drained = host.trace]
      BY <2>1 DEF RequestDrain
    <3>2. /\ req'[q] = [req[q] EXCEPT !.pc = "apply", !.drained = host.trace]
          /\ req' \in [Requests -> RequestLocals]
          /\ \A p \in Requests \ {q} : req'[p] = req[p]
      BY <1>1, <3>1 DEF IInv, TypeOK, RequestLocals
    <3>3. RequestInv(q)'
      BY <1>1, <1>3, <3>2 DEF RequestDrain, RequestInv, RequestLocals, Claimed, HoldsLiveBytes,
                              Render, Swapping
    <3> QED BY <1>3, <3>2, <3>3, OtherRequestsKept DEF RequestDrain
  <2>2. CASE req[q].token # host.id
    BY <1>1, <1>3, <2>2, AfterReconcileKeeps DEF RequestDrain
  <2> QED BY <2>1, <2>2
<1>5. TypeOK'
  BY <1>2, <1>3, <1>4 DEF RequestDrain, IInv, TypeOK, envVars, fileVars, history
<1> QED BY <1>4, <1>5 DEF RequestDrain, IInv, fileVars, history, DedupMatchesDisk, EntriesAreCurrent

LEMMA RequestApplyKeeps == ASSUME IInv, NEW q \in Requests, RequestApply(q)
                           PROVE  IInv'
<1>1. req[q].drained \in SUBSET (Routes \cup Pages)
  BY DEF IInv, TypeOK, RequestLocals
<1>2. /\ observed' \subseteq Routes \cup Pages /\ edges' \in [Content -> SUBSET Pages]
      /\ budget' \in [edits : Nat, faults : Nat]
  <2>1. CASE UNCHANGED <<graphVars, budget>>
    BY <2>1 DEF graphVars, IInv, TypeOK
  <2>2. CASE Observe(req[q].drained) \/ ObserveFails(req[q].drained)
    BY <1>1, <2>2, ObserveType DEF IInv
  <2> QED BY <2>1, <2>2 DEF RequestApply
<1>3. PICK ok \in BOOLEAN : AfterReconcile(q, ok)
  BY DEF RequestApply
<1>4. req' \in [Requests -> RequestLocals] /\ \A p \in Requests : RequestInv(p)'
  BY <1>3, AfterReconcileKeeps DEF RequestApply, hostVars, history
<1>5. TypeOK'
  BY <1>2, <1>4 DEF RequestApply, IInv, TypeOK, envVars, hostVars, fileVars, history
<1> QED BY <1>4, <1>5 DEF RequestApply, IInv, fileVars, history, DedupMatchesDisk, EntriesAreCurrent

\* A request ends, its write done, refused or failed.
LEMMA RequestEndKeeps ==
  ASSUME IInv, NEW q \in Requests, req' = [req EXCEPT ![q] = IdleRequest],
         stale'.generation = stale.generation, UNCHANGED <<tick, host>>
  PROVE  req' \in [Requests -> RequestLocals] /\ \A p \in Requests : RequestInv(p)'
<1>1. /\ req' \in [Requests -> RequestLocals] /\ req'[q] = IdleRequest
      /\ \A p \in Requests \ {q} : req'[p] = req[p]
  BY IdleRequestType DEF IInv, TypeOK
<1>2. RequestInv(q)'
  BY <1>1 DEF RequestInv, IdleRequest
<1> QED BY <1>1, <1>2, OtherRequestsKept

LEMMA RequestWriteKeeps == ASSUME IInv, NEW q \in Requests, RequestWrite(q)
                           PROVE  IInv'
<1>1. /\ req[q] \in RequestLocals /\ req[q].pc = "write"
      /\ req[q].route \in Routes /\ req[q].claim \in Claims
  BY DEF IInv, TypeOK, RequestWrite, RequestInv, Claimed
<1>2. GoodMap(stale') /\ stale'.generation = stale.generation
  BY <1>1, ClearIfCurrentGood DEF RequestWrite, IInv, TypeOK, GoodMap
<1>3. /\ disk' \in [Routes -> Documents \cup {NoFile}]
      /\ cache' \in [Routes -> Documents \cup {NoFile}]
      /\ failedPrunes' \subseteq Routes /\ DedupMatchesDisk'
  <2>1. CASE StillCurrent(q)
    <3>1. CommitDocument(req[q].route, req[q].bytes) /\ req[q].bytes \in Documents \cup {NoFile}
      BY <1>1, <2>1 DEF RequestWrite, RequestLocals
    <3> QED BY <1>1, <3>1, CommitKeeps DEF IInv
  <2>2. CASE ~StillCurrent(q)
    BY <2>2 DEF RequestWrite, IInv, TypeOK, DedupMatchesDisk
  <2> QED BY <2>1, <2>2
<1>4. req' \in [Requests -> RequestLocals] /\ \A p \in Requests : RequestInv(p)'
  BY <1>2, RequestEndKeeps DEF RequestWrite, hostVars, history
<1>5. TypeOK'
  BY <1>2, <1>3, <1>4 DEF RequestWrite, GoodMap, IInv, TypeOK, envVars, graphVars, hostVars, history
<1> QED BY <1>2, <1>3, <1>4, <1>5 DEF GoodMap, IInv

LEMMA RequestWriteFailsKeeps == ASSUME IInv, NEW q \in Requests, RequestWriteFails(q)
                                PROVE  IInv'
<1>1. budget' \in [edits : Nat, faults : Nat]
  BY FaultType DEF RequestWriteFails, IInv
<1>2. req' \in [Requests -> RequestLocals] /\ \A p \in Requests : RequestInv(p)'
  BY RequestEndKeeps DEF RequestWriteFails, hostVars, history
<1>3. TypeOK'
  BY <1>1, <1>2 DEF RequestWriteFails, IInv, TypeOK, envVars, graphVars, hostVars, fileVars, history
<1> QED BY <1>2, <1>3 DEF RequestWriteFails, IInv, fileVars, history, DedupMatchesDisk, EntriesAreCurrent

-----------------------------------------------------------------------------
(* The theorems *)

LEMMA NextIInv == IInv /\ [Next]_vars => IInv'
<1> SUFFICES ASSUME IInv, [Next]_vars PROVE IInv'
  OBVIOUS
<1>1. CASE \E c \in Sources, v \in Values \cup {Absent} : Edit(c, v)
  BY <1>1, EditKeeps
<1>2. CASE Tick
  BY <1>2, TickBeginKeeps, TickPlanKeeps, RefreshKeeps, SwapHostKeeps, SwapTablesKeeps,
     RenderEagerKeeps, MarkStaleKeeps, TickReconcileKeeps, TickWriteKeeps, TickWriteFailsKeeps,
     TickPruneKeeps, TickFinishKeeps
  DEF Tick
<1>3. CASE \E q \in Requests : RequestStep(q) \/ \E r \in Routes : RequestRoute(q, r)
  BY <1>3, RequestRouteKeeps, RequestClaimKeeps, RequestRenderKeeps, RequestTokenKeeps,
     RequestDrainKeeps, RequestApplyKeeps, RequestWriteKeeps, RequestWriteFailsKeeps
  DEF RequestStep
<1>4. CASE UNCHANGED vars
  <2>1. TypeOK'
    BY <1>4 DEF vars, IInv, TypeOK
  <2>2. \A q \in Requests : RequestInv(q)'
    BY <1>4, RequestsKept DEF vars, Swapping
  <2> QED BY <1>4, <2>1, <2>2 DEF vars, IInv, DedupMatchesDisk, EntriesAreCurrent
<1> QED BY <1>1, <1>2, <1>3, <1>4 DEF Next

LEMMA Invariant == Spec => []IInv
BY InitIInv, NextIInv, PTL DEF Spec

\* Every variable, the tick's locals and each request's locals keep their types.
THEOREM TypeCorrect == Spec => []TypeOK
<1>1. IInv => TypeOK
  BY DEF IInv
<1> QED BY <1>1, Invariant, PTL

\* Whatever tick and requests write, skip, prune or fail to write, the dedup
\* cache never claims bytes that are not on disk.
THEOREM DedupIsSafe == Spec => []DedupMatchesDisk
<1>1. IInv => DedupMatchesDisk
  BY DEF IInv
<1> QED BY <1>1, Invariant, PTL

\* A request whose claim revalidates under the exclusion lock writes what the
\* live host renders now, whatever ticks ran since it rendered.
THEOREM GuardedWritesAreLive == Spec => []GuardedWriteIsLive
<1>1. IInv => GuardedWriteIsLive
  <2> SUFFICES ASSUME IInv, NEW q \in Requests, Revalidated(q), ~SwappingInDiscovery
               PROVE  HoldsLiveBytes(q)
    BY DEF GuardedWriteIsLive
  <2>1. /\ RequestInv(q) /\ req[q].bytes # NoFile /\ Claimed(q)
        /\ stale.entries[req[q].claim.output_path] = req[q].claim.generation
    BY DEF IInv, RequestInv, Revalidated, claim_is_current
  <2>2. req[q].claim.generation = stale.generation
    BY <2>1 DEF IInv, EntriesAreCurrent, Claimed, Claims, NoEntry
  <2>3. ~Swapping
    BY ConstantAssumption DEF Revalidated, SwappingInDiscovery, Discovering, Swapping
  <2> QED BY <2>1, <2>2, <2>3 DEF RequestInv
<1> QED BY <1>1, Invariant, PTL

\* A claim taken before the route tables were swapped never validates again.
THEOREM SwapOutdatesClaims ==
  ASSUME NEW s, GoodMap(s), NEW c \in Claims, c.generation <= s.generation,
         NEW vanished \in SUBSET Routes
  PROVE  ~claim_is_current(note_table_swap(s, vanished), c)
BY DEF GoodMap, StaleRoutes, Claims, note_table_swap, claim_is_current, NoEntry

\* No tick and no request takes the document of a live route off the disk.
THEOREM LiveDocumentsStay == Spec => NeverPrunesLive
<1>1. ASSUME IInv, [Next]_vars, NEW r \in table, disk[r] # NoFile
      PROVE  disk'[r] # NoFile
  <2>1. r \in Routes /\ disk \in [Routes -> Documents \cup {NoFile}]
    BY <1>1 DEF IInv, TypeOK
  <2>2. ASSUME NEW s \in Routes, NEW bytes, bytes # NoFile, CommitDocument(s, bytes)
        PROVE  disk'[r] # NoFile
    BY <1>1, <2>1, <2>2 DEF CommitDocument
  <2>3. ASSUME NEW s \in Routes, TickWrite(s)
        PROVE  disk'[r] # NoFile
    <3>1. tick.out[s] \in Documents
      BY <1>1, <2>3 DEF TickWrite, IInv, TypeOK, TickLocals, Outputs
    <3> QED BY <2>2, <2>3, <3>1, DocumentAssumption DEF TickWrite
  <2>4. ASSUME NEW undeletable \in SUBSET Routes, TickPrune(undeletable)
        PROVE  disk'[r] # NoFile
    <3>1. r \notin PrunePaths \ Protected
      BY DEF Protected
    <3> QED BY <1>1, <2>1, <2>4, <3>1 DEF TickPrune
  <2>5. ASSUME NEW q \in Requests, RequestWrite(q)
        PROVE  disk'[r] # NoFile
    <3>1. req[q].bytes # NoFile /\ req[q].route \in Routes
      BY <1>1, <2>5 DEF RequestWrite, IInv, RequestInv
    <3> QED BY <1>1, <2>2, <2>5, <3>1 DEF RequestWrite
  <2>6. CASE UNCHANGED disk
    BY <1>1, <2>6
  <2>7. \/ UNCHANGED disk
        \/ \E s \in Routes : TickWrite(s)
        \/ \E undeletable \in SUBSET Routes : TickPrune(undeletable)
        \/ \E q \in Requests : RequestWrite(q)
    BY <1>1 DEF Next, Edit, Tick, TickBegin, TickPlan, TickEnter, RefreshBundle, RefreshFails,
       SwapHost, BeginTrace, SwapTables, RenderEager, MarkStale, TickReconcile, TickWriteFails,
       TickFinish, RequestStep, RequestRoute, RequestClaim, RequestRenders, RequestRenderFails,
       RequestToken, RequestDrain, RequestApply, RequestWriteFails, fileVars, history, vars
  <2> QED BY <2>3, <2>4, <2>5, <2>6, <2>7
<1>2. IInv /\ [Next]_vars => [\A r \in table : disk[r] # NoFile => disk'[r] # NoFile]_vars
  BY <1>1
<1> QED BY <1>2, Invariant, PTL DEF Spec, NeverPrunesLive

\* What is queued for the tick's outcome is live: the queue is filtered when the
\* tables are swapped, and fed from the live table only.
Announceable ==
  /\ stale.tick_stale \subseteq table
  /\ tick.pc = "mark" => tick.toStale \subseteq table

LEMMA SwapAnnounceable == ASSUME IInv, Announceable, SwapTables
                          PROVE  Announceable'
<1> DEFINE live     == RoutesOf(tick.snapshot)
           vanished == table \ live
           identity == \E c \in IslandSources : tick.previous[c] # tick.snapshot[c]
           swapped  == note_table_swap(stale, vanished)
           marked   == mark_stale(swapped, IF identity THEN live ELSE Seeds)
<1>1. Seeds \subseteq live
  BY ConstantAssumption DEF RoutesOf
<1>2. swapped.tick_stale = stale.tick_stale \ vanished /\ GoodMap(swapped)
  <2>1. vanished \in SUBSET Routes /\ GoodMap(stale)
    BY DEF IInv, TypeOK, GoodMap
  <2>2. GoodMap(swapped)
    BY <2>1, SwapGood
  <2> QED BY <2>1, <2>2 DEF note_table_swap, GoodMap, StaleRoutes
<1> HIDE DEF swapped
<1>3. marked.tick_stale \subseteq live /\ GoodMap(marked)
  <2>1. (IF identity THEN live ELSE Seeds) \in SUBSET Routes
    BY <1>1 DEF RoutesOf
  <2>2. GoodMap(marked)
    BY <1>2, <2>1, MarkGood
  <2> QED BY <1>1, <1>2, <2>2 DEF mark_stale, GoodMap, StaleRoutes, Announceable
<1> HIDE DEF marked
<1>4. stale' = restale_dynamic_injected(marked) /\ table' = live
  BY DEF SwapTables, Restaled, swapped, marked
<1>5. stale'.tick_stale = marked.tick_stale
  BY <1>3, <1>4 DEF restale_dynamic_injected, GoodMap, StaleRoutes
<1>6. tick'.pc \in {"plan", "render"}
  BY DEF SwapTables, AfterRefresh, IInv, TypeOK, TickLocals
<1> QED BY <1>3, <1>4, <1>5, <1>6 DEF Announceable

LEMMA NextAnnounceable == IInv /\ Announceable /\ [Next]_vars => Announceable'
<1> SUFFICES ASSUME IInv, Announceable, [Next]_vars PROVE Announceable'
  OBVIOUS
<1>1. CASE SwapTables
  BY <1>1, SwapAnnounceable
<1>2. ASSUME UNCHANGED <<stale, table>>, tick'.pc # "mark" \/ UNCHANGED tick
      PROVE  Announceable'
  BY <1>2 DEF Announceable
<1>3. ASSUME stale'.tick_stale = stale.tick_stale, UNCHANGED table, tick'.pc # "mark" \/ UNCHANGED tick
      PROVE  Announceable'
  BY <1>3 DEF Announceable
<1>4. GoodMap(stale) /\ tick \in TickLocals /\ req \in [Requests -> RequestLocals]
  BY DEF IInv, TypeOK, GoodMap
<1>5. ASSUME NEW failed \in SUBSET Routes, RenderEager(failed)
      PROVE  Announceable'
  <2>1. tick'.toStale = (Selected \ Eager) \cup failed
    BY <1>4, <1>5 DEF RenderEager, TickLocals
  <2>2. Selected \subseteq table /\ failed \subseteq table
    BY <1>5 DEF RenderEager, Selected, Eager
  <2> QED BY <1>5, <2>1, <2>2 DEF RenderEager, Announceable
<1>6. CASE MarkStale
  <2>1. stale'.tick_stale = stale.tick_stale \cup tick.toStale
    BY <1>4, <1>6 DEF MarkStale, mark_stale, GoodMap, StaleRoutes
  <2>2. tick'.pc = "reconcile"
    BY <1>4, <1>6 DEF MarkStale, TickLocals
  <2> QED BY <1>6, <2>1, <2>2 DEF MarkStale, hostVars, history, Announceable
<1>7. ASSUME NEW r \in Routes, TickWrite(r)
      PROVE  Announceable'
  <2>1. stale'.tick_stale = stale.tick_stale
    BY <1>4, <1>7 DEF TickWrite, clear_stale, GoodMap, StaleRoutes
  <2>2. tick'.pc # "mark"
    BY <1>4, <1>7 DEF TickWrite, TickLocals
  <2> QED BY <1>3, <1>7, <2>1, <2>2 DEF TickWrite, hostVars, history
<1>8. CASE TickFinish
  <2>1. stale'.tick_stale = {}
    BY <1>4, <1>8 DEF TickFinish, take_tick_stale, GoodMap, StaleRoutes
  <2>2. tick'.pc # "mark"
    BY <1>8 DEF TickFinish, IdleTick
  <2> QED BY <1>8, <2>1, <2>2 DEF Announceable
<1>9. ASSUME NEW q \in Requests, NEW r \in Routes, RequestRoute(q, r)
      PROVE  Announceable'
  <2>1. stale'.tick_stale = stale.tick_stale
    BY <1>4, <1>9, NoteGood DEF RequestRoute, note_dynamic_injected, claim_or_mark_stale, GoodMap, StaleRoutes
  <2> QED BY <1>3, <1>9, <2>1 DEF RequestRoute, hostVars, history
<1>10. ASSUME NEW q \in Requests, RequestWrite(q)
       PROVE  Announceable'
  <2>1. stale'.tick_stale = stale.tick_stale
    BY <1>4, <1>10 DEF RequestWrite, clear_if_current, GoodMap, StaleRoutes
  <2> QED BY <1>3, <1>10, <2>1 DEF RequestWrite, hostVars, history
<1>11. CASE \/ \E c \in Sources, v \in Values \cup {Absent} : Edit(c, v)
            \/ TickBegin \/ TickPlan \/ TickEnter \/ RefreshBundle \/ RefreshFails \/ SwapHost
            \/ BeginTrace \/ TickReconcile
            \/ \E r \in Routes : TickWriteFails(r)
            \/ \E undeletable \in SUBSET Routes : TickPrune(undeletable)
  <2>1. UNCHANGED <<stale, table>>
    BY <1>11 DEF Edit, TickBegin, TickPlan, TickEnter, RefreshBundle, RefreshFails, SwapHost,
       BeginTrace, TickReconcile, TickWriteFails, TickPrune, hostVars, history
  <2>2. CASE \E c \in Sources, v \in Values \cup {Absent} : Edit(c, v)
    BY <1>2, <2>1, <2>2 DEF Edit
  <2>3. CASE TickBegin \/ TickPlan \/ TickEnter
    <3>1. tick'.pc \in {"plan", "discover", "enter", "render", "reload"}
      BY <1>4, <2>3 DEF TickBegin, TickPlan, TickEnter, TickLocals
    <3> QED BY <1>2, <2>1, <3>1
  <2>4. CASE RefreshBundle
    <3>1. tick'.pc \in {"plan", "render", "swapHost"}
      BY <1>4, <2>4 DEF RefreshBundle, AfterRefresh, TickLocals
    <3> QED BY <1>2, <2>1, <3>1
  <2>5. CASE RefreshFails \/ \E r \in Routes : TickWriteFails(r)
    <3>1. tick'.pc = "idle"
      BY <2>5 DEF RefreshFails, TickWriteFails, AbortTick, IdleTick
    <3> QED BY <1>2, <2>1, <3>1
  <2>6. CASE \/ SwapHost \/ BeginTrace \/ TickReconcile
             \/ \E undeletable \in SUBSET Routes : TickPrune(undeletable)
    <3>1. tick'.pc \in {"beginTrace", "swapTables", "write", "finish"}
      BY <1>4, <2>6 DEF SwapHost, BeginTrace, TickReconcile, TickPrune, Goto, TickLocals
    <3> QED BY <1>2, <2>1, <3>1
  <2> QED BY <1>11, <2>2, <2>3, <2>4, <2>5, <2>6
<1>12. CASE \/ UNCHANGED vars
            \/ \E q \in Requests : \/ RequestClaim(q) \/ RequestRenders(q) \/ RequestRenderFails(q)
                                    \/ RequestToken(q) \/ RequestDrain(q) \/ RequestApply(q)
                                    \/ RequestWriteFails(q)
  <2>1. UNCHANGED <<stale, table, tick>>
    BY <1>12 DEF vars, RequestClaim, RequestRenders, RequestRenderFails, RequestToken, RequestDrain,
       RequestApply, RequestWriteFails, hostVars, history
  <2> QED BY <1>2, <2>1
<1> QED
  BY <1>1, <1>5, <1>6, <1>7, <1>8, <1>9, <1>10, <1>11, <1>12 DEF Next, Tick, RequestStep

LEMMA InitAnnounceable == Init => Announceable
<1> SUFFICES ASSUME Init PROVE Announceable
  OBVIOUS
<1>1. stale.tick_stale = {}
  BY DEF Init
<1>2. tick.pc = "idle"
  BY DEF Init, IdleTick
<1> QED BY <1>1, <1>2 DEF Announceable

\* Every route a tick's outcome announces as stale is in the live route table.
THEOREM AnnouncementsResolve == Spec => []AnnouncedRoutesResolve
<1>1. Init => Announceable
  BY InitAnnounceable
<1>2. Announceable => AnnouncedRoutesResolve
  BY DEF Announceable, AnnouncedRoutesResolve
<1> QED BY <1>1, <1>2, NextAnnounceable, Invariant, PTL DEF Spec
-----------------------------------------------------------------------------
(* Documents of routes that are gone.                                      *)

\* What is stale may be rendered, and what is rendered is live.
Live ==
  /\ stale.dynamic_injected \subseteq Injected
  /\ \A r \in Routes : IsStale(stale, r) => r \in table \cup Injected
  /\ tick.pc \in {"mark", "reconcile", "write"} => DOMAIN tick.out \subseteq table
  /\ IF tick.pc = "write" THEN tick.written \subseteq table
     ELSE tick.pc # "finish" => tick.written = {}

\* A tick has vanished routes from its table swap to its end, and until its prune
\* their documents are accounted for by them.
Gone == IF tick.pc = "finish" THEN {} ELSE tick.vanished

Accounted ==
  /\ \/ tick.vanished = {}
     \/ tick.pc \in {"plan", "enter"} /\ tick.fresh
     \/ tick.pc \in {"render", "mark", "reconcile", "write", "finish"}
  /\ \A r \in Routes \ Injected :
       disk[r] # NoFile => r \in table \cup failedPrunes \cup dropped.vanished \cup Gone

LEMMA InitAccounted == Init => Live /\ Accounted
<1> SUFFICES ASSUME Init PROVE Live /\ Accounted
  OBVIOUS
<1>1. /\ tick.pc = "idle" /\ tick.vanished = {} /\ tick.written = {}
      /\ stale.dynamic_injected = {}
      /\ \A r \in Routes : stale.entries[r] = IF EagerBoot \/ r \notin table THEN NoEntry ELSE 0
      /\ \A r \in Routes : disk[r] # NoFile => r \in table
  BY DEF Init, IdleTick
<1> QED BY <1>1 DEF Live, Accounted, IsStale

LEMMA MarkStales ==
  ASSUME NEW s, GoodMap(s), NEW paths \in SUBSET Routes
  PROVE  /\ mark_stale(s, paths).dynamic_injected = s.dynamic_injected
         /\ \A r \in Routes : IsStale(mark_stale(s, paths), r) <=> IsStale(s, r) \/ r \in paths
BY DEF mark_stale, IsStale, GoodMap, EntriesAreCurrent, StaleRoutes, NoEntry

LEMMA SwapAccounted ==
  ASSUME IInv, Announceable, Live, Accounted, SwapTables
  PROVE  Live' /\ Accounted'
<1> DEFINE live     == RoutesOf(tick.snapshot)
           vanished == table \ live
           identity == \E c \in IslandSources : tick.previous[c] # tick.snapshot[c]
           swapped  == note_table_swap(stale, vanished)
           marked   == mark_stale(swapped, IF identity THEN live ELSE Seeds)
<1>1. live \subseteq Routes \ Injected /\ vanished \in SUBSET Routes /\ Seeds \subseteq live
  BY ConstantAssumption DEF IInv, TypeOK, RoutesOf
<1>2. table' = live /\ UNCHANGED fileVars /\ tick.pc = "swapTables" /\ tick \in TickLocals
  BY DEF SwapTables, IInv, TypeOK
<1>3. /\ tick'.pc \in {"plan", "render"} /\ tick'.vanished = vanished /\ tick'.written = tick.written
      /\ tick'.pc = "plan" => tick'.fresh
  BY <1>2 DEF SwapTables, AfterRefresh, TickLocals
<1>4. dropped'.vanished = dropped.vanished \ live /\ dropped \in [sources : SUBSET Sources, vanished : SUBSET Routes]
  BY DEF SwapTables, IInv, TypeOK
<1>5. GoodMap(stale)
  BY DEF IInv, TypeOK, GoodMap
<1>6. /\ GoodMap(swapped) /\ swapped.dynamic_injected = stale.dynamic_injected
      /\ \A r \in Routes : IsStale(swapped, r) => IsStale(stale, r) /\ r \notin vanished
  BY <1>1, <1>5, SwapGood DEF note_table_swap, IsStale, GoodMap, StaleRoutes
<1> HIDE DEF swapped
<1>7. /\ GoodMap(marked) /\ marked.dynamic_injected = stale.dynamic_injected
      /\ \A r \in Routes : IsStale(marked, r) => IsStale(swapped, r) \/ r \in live
  <2>1. PICK paths \in SUBSET Routes : marked = mark_stale(swapped, paths) /\ paths \subseteq live
    BY <1>1
  <2> HIDE DEF marked
  <2>2. /\ marked.dynamic_injected = swapped.dynamic_injected
        /\ \A r \in Routes : IsStale(marked, r) => IsStale(swapped, r) \/ r \in paths
    BY <1>6, <2>1, MarkStales
  <2> QED BY <1>6, <2>1, <2>2, MarkGood
<1>8. stale' = restale_dynamic_injected(marked)
  BY DEF SwapTables, Restaled, swapped
<1> HIDE DEF marked
<1>9. /\ stale'.dynamic_injected = stale.dynamic_injected
      /\ \A r \in Routes : IsStale(stale', r) => IsStale(marked, r) \/ r \in stale.dynamic_injected
  BY <1>7, <1>8 DEF restale_dynamic_injected, IsStale, GoodMap, StaleRoutes
<1>10. Live'
  <2>1. \A r \in Routes : IsStale(stale', r) => r \in live \cup Injected
    BY <1>6, <1>7, <1>9 DEF Live
  <2> QED BY <1>2, <1>3, <1>9, <2>1 DEF Live
<1>11. Accounted'
  <2>1. tick.vanished = {}
    BY <1>2 DEF Accounted
  <2>2. ASSUME NEW r \in Routes \ Injected, disk[r] # NoFile
        PROVE  r \in live \cup failedPrunes \cup dropped'.vanished \cup vanished
    BY <1>4, <2>1, <2>2 DEF Accounted, Gone
  <2> QED BY <1>2, <1>3, <2>2 DEF Accounted, Gone, fileVars
<1> QED BY <1>10, <1>11

\* What a document written or cleared leaves.
LEMMA CommitAccounted ==
  ASSUME IInv, Live, Accounted, NEW r \in Routes, NEW bytes, CommitDocument(r, bytes),
         r \in table \cup Injected, UNCHANGED <<table, dropped>>, Gone' = Gone
  PROVE  \A s \in Routes \ Injected :
           disk'[s] # NoFile => s \in table' \cup failedPrunes' \cup dropped'.vanished \cup Gone'
<1> SUFFICES ASSUME NEW s \in Routes \ Injected, disk'[s] # NoFile, s # r
             PROVE  s \in table \cup failedPrunes' \cup dropped.vanished \cup Gone
  OBVIOUS
<1>1. disk'[s] = disk[s] /\ (s \in failedPrunes => s \in failedPrunes')
  BY DEF CommitDocument, IInv, TypeOK
<1> QED BY <1>1 DEF Accounted

\* Steps of the tick that write no document and swap no table.
LEMMA TickAccounted ==
  ASSUME IInv, Announceable, Live, Accounted,
         \/ TickBegin \/ RefreshBundle \/ RefreshFails \/ SwapHost \/ BeginTrace \/ TickPlan \/ TickEnter
         \/ MarkStale \/ TickReconcile \/ TickFinish
         \/ \E failed \in SUBSET Routes : RenderEager(failed)
         \/ \E r \in Routes : TickWriteFails(r)
  PROVE  Live' /\ Accounted'
<1>1. tick \in TickLocals /\ GoodMap(stale) /\ UNCHANGED <<table, fileVars>>
  BY DEF IInv, TypeOK, GoodMap, TickBegin, RefreshBundle, RefreshFails, SwapHost, BeginTrace, TickPlan,
         TickEnter, MarkStale, TickReconcile, TickFinish, RenderEager, TickWriteFails, hostVars, history
<1>2. CASE TickBegin \/ RefreshBundle \/ SwapHost \/ BeginTrace \/ TickPlan \/ TickEnter
  <2>1. /\ tick'.written = tick.written /\ tick'.vanished = tick.vanished
        /\ tick.pc \in {"idle", "discover", "reload", "swapHost", "beginTrace", "plan", "enter"}
        /\ tick'.pc \in {"discover", "reload", "plan", "render", "swapHost", "beginTrace", "swapTables", "enter"}
        /\ UNCHANGED <<stale, dropped>>
    BY <1>1, <1>2 DEF TickBegin, RefreshBundle, SwapHost, BeginTrace, TickPlan, TickEnter, Goto, AfterRefresh,
                      TickLocals, history
  <2>2. \/ tick'.vanished = {}
        \/ tick'.pc = "enter" /\ tick'.fresh
        \/ tick'.pc = "render"
    BY <1>1, <1>2 DEF TickBegin, RefreshBundle, SwapHost, BeginTrace, TickPlan, TickEnter, Goto, AfterRefresh,
                      TickLocals, Accounted
  <2>3. Live'
    BY <1>1, <2>1 DEF Live
  <2>4. Accounted'
    BY <1>1, <2>1, <2>2 DEF Accounted, Gone, fileVars
  <2> QED BY <2>3, <2>4
<1>3. CASE RefreshFails \/ \E r \in Routes : TickWriteFails(r)
  <2>1. /\ tick'.pc = "idle" /\ tick'.vanished = {} /\ tick'.written = {} /\ UNCHANGED stale
        /\ dropped'.vanished = dropped.vanished \cup tick.vanished
    BY <1>3 DEF RefreshFails, TickWriteFails, AbortTick, Forget, IdleTick
  <2>2. Gone \subseteq tick.vanished
    BY DEF Gone
  <2>3. Live'
    BY <1>1, <2>1 DEF Live
  <2>4. Accounted'
    BY <1>1, <2>1, <2>2 DEF Accounted, Gone, fileVars
  <2> QED BY <2>3, <2>4
<1>4. CASE TickFinish
  <2>1. tick'.pc = "idle" /\ tick'.vanished = {} /\ tick'.written = {} /\ tick.pc = "finish"
    BY <1>4 DEF TickFinish, IdleTick
  <2>2. stale'.dynamic_injected = stale.dynamic_injected /\ stale'.entries = stale.entries
    BY <1>1, <1>4 DEF TickFinish, take_tick_stale, GoodMap, StaleRoutes
  <2>3. dropped'.vanished = dropped.vanished
    BY <1>4 DEF TickFinish, IInv, TypeOK
  <2>4. Live'
    BY <1>1, <2>1, <2>2 DEF Live, IsStale
  <2>5. Accounted'
    BY <1>1, <2>1, <2>3 DEF Accounted, Gone, fileVars
  <2> QED BY <2>4, <2>5
<1>5. CASE MarkStale
  <2>1. /\ tick.pc = "mark" /\ tick'.pc = "reconcile" /\ tick'.written = tick.written
        /\ tick'.vanished = tick.vanished /\ tick'.out = tick.out /\ UNCHANGED dropped
    BY <1>1, <1>5 DEF MarkStale, TickLocals
  <2>2. /\ stale'.dynamic_injected = stale.dynamic_injected
        /\ \A r \in Routes : IsStale(stale', r) => IsStale(stale, r) \/ r \in tick.toStale
    BY <1>1, <1>5 DEF MarkStale, mark_stale, GoodMap, StaleRoutes, IsStale
  <2>3. tick.toStale \subseteq table
    BY <2>1 DEF Announceable
  <2>4. Live'
    BY <1>1, <2>1, <2>2, <2>3 DEF Live
  <2>5. Accounted'
    BY <1>1, <2>1 DEF Accounted, Gone, fileVars
  <2> QED BY <2>4, <2>5
<1>6. CASE TickReconcile
  <2>1. /\ tick.pc = "reconcile" /\ tick'.pc = "write" /\ tick'.written = tick.written
        /\ tick'.vanished = tick.vanished /\ tick'.out = tick.out /\ UNCHANGED <<stale, dropped>>
    BY <1>1, <1>6 DEF TickReconcile, Goto, TickLocals, history
  <2>2. Live'
    BY <1>1, <2>1 DEF Live
  <2>3. Accounted'
    BY <1>1, <2>1 DEF Accounted, Gone, fileVars
  <2> QED BY <2>2, <2>3
<1>7. ASSUME NEW failed \in SUBSET Routes, RenderEager(failed)
      PROVE  Live' /\ Accounted'
  <2>1. /\ tick.pc = "render" /\ tick'.pc = "mark" /\ tick'.written = tick.written
        /\ tick'.vanished = tick.vanished /\ tick'.out = RendersOf(host, Eager \ failed)
        /\ UNCHANGED <<stale, dropped>>
    BY <1>1, <1>7 DEF RenderEager, TickLocals, history
  <2>2. DOMAIN tick'.out \subseteq table
    BY <2>1 DEF RendersOf, Eager, Selected
  <2>3. Live'
    BY <1>1, <2>1, <2>2 DEF Live
  <2>4. Accounted'
    BY <1>1, <2>1 DEF Accounted, Gone, fileVars
  <2> QED BY <2>3, <2>4
<1> QED BY <1>2, <1>3, <1>4, <1>5, <1>6, <1>7

LEMMA WriteAccounted ==
  ASSUME IInv, Live, Accounted, NEW r \in Routes, TickWrite(r)
  PROVE  Live' /\ Accounted'
<1>1. /\ tick \in TickLocals /\ GoodMap(stale) /\ tick.pc = "write" /\ r \in DOMAIN tick.out
      /\ UNCHANGED <<table, dropped>>
  BY DEF IInv, TypeOK, GoodMap, TickWrite, hostVars, history
<1>2. /\ tick'.pc = "write" /\ tick'.vanished = tick.vanished
      /\ tick'.written = tick.written \cup {r} /\ DOMAIN tick'.out = DOMAIN tick.out \ {r}
  BY <1>1 DEF TickWrite, TickLocals
<1>3. r \in table
  BY <1>1 DEF Live
<1>4. /\ stale'.dynamic_injected = stale.dynamic_injected
      /\ \A s \in Routes : IsStale(stale', s) => IsStale(stale, s)
  BY <1>1 DEF TickWrite, clear_stale, GoodMap, StaleRoutes, IsStale
<1>5. Live'
  BY <1>1, <1>2, <1>3, <1>4 DEF Live
<1>6. Accounted'
  <2>1. Gone' = Gone /\ CommitDocument(r, tick.out[r])
    BY <1>1, <1>2 DEF Gone, TickWrite
  <2> QED BY <1>1, <1>2, <1>3, <2>1, CommitAccounted DEF Accounted
<1> QED BY <1>5, <1>6

LEMMA PruneAccounted ==
  ASSUME IInv, Live, Accounted, NEW undeletable \in SUBSET Routes, TickPrune(undeletable)
  PROVE  Live' /\ Accounted'
<1> DEFINE gone == PrunePaths \ Protected
<1>1. /\ tick \in TickLocals /\ tick.pc = "write" /\ UNCHANGED <<table, dropped, stale>>
      /\ tick'.pc = "finish" /\ tick'.vanished = tick.vanished
  BY DEF IInv, TypeOK, TickPrune, Goto, TickLocals, hostVars, history
<1>2. /\ \A s \in Routes : disk'[s] = IF s \in gone \ undeletable THEN NoFile ELSE disk[s]
      /\ failedPrunes' = (failedPrunes \ PrunePaths) \cup undeletable
  BY DEF TickPrune
<1>3. Protected = table
  BY <1>1 DEF Live, Protected
<1>4. Live'
  BY <1>1 DEF Live
<1>5. ASSUME NEW s \in Routes \ Injected, disk'[s] # NoFile
      PROVE  s \in table \cup failedPrunes' \cup dropped.vanished
  <2>1. disk[s] # NoFile /\ (s \notin gone \/ s \in undeletable)
    BY <1>2, <1>5
  <2>2. s \in table \cup failedPrunes \cup dropped.vanished \cup tick.vanished
    BY <1>1, <2>1 DEF Accounted, Gone
  <2>3. tick.vanished \subseteq PrunePaths
    BY DEF PrunePaths
  <2> QED BY <1>2, <1>3, <2>1, <2>2, <2>3
<1>6. Accounted'
  BY <1>1, <1>5 DEF Accounted, Gone
<1> QED BY <1>4, <1>6

LEMMA RequestAccounted ==
  ASSUME IInv, Live, Accounted, NEW q \in Requests, RequestWrite(q)
  PROVE  Live' /\ Accounted'
<1>1. /\ GoodMap(stale) /\ req[q].route \in Routes /\ req[q].claim \in Claims
      /\ req[q].claim.output_path = req[q].route /\ UNCHANGED <<table, dropped, tick>>
  BY DEF IInv, TypeOK, GoodMap, RequestWrite, RequestInv, Claimed, hostVars, history
<1>2. CASE StillCurrent(q)
  <2>1. req[q].route \in table \cup Injected
    <3>1. stale.entries[req[q].route] \in Nat
      BY <1>1, <1>2 DEF StillCurrent, claim_is_current, Claims
    <3>2. IsStale(stale, req[q].route)
      BY <3>1 DEF IsStale, NoEntry
    <3> QED BY <1>1, <3>2 DEF Live
  <2>2. /\ stale'.dynamic_injected = stale.dynamic_injected
        /\ \A s \in Routes : IsStale(stale', s) => IsStale(stale, s)
    BY <1>1, <1>2 DEF RequestWrite, clear_if_current, GoodMap, StaleRoutes, IsStale, Claims
  <2>3. Gone' = Gone /\ CommitDocument(req[q].route, req[q].bytes)
    BY <1>1, <1>2 DEF Gone, RequestWrite
  <2>4. Live'
    BY <1>1, <2>2 DEF Live
  <2>5. Accounted'
    BY <1>1, <2>1, <2>3, CommitAccounted DEF Accounted
  <2> QED BY <2>4, <2>5
<1>3. CASE ~StillCurrent(q)
  <2>1. UNCHANGED <<disk, failedPrunes, stale>>
    BY <1>3 DEF RequestWrite
  <2> QED BY <1>1, <2>1 DEF Live, Accounted, Gone
<1> QED BY <1>2, <1>3

LEMMA RouteAccounted ==
  ASSUME IInv, Live, Accounted, NEW q \in Requests, NEW r \in Routes, RequestRoute(q, r)
  PROVE  Live' /\ Accounted'
<1>1. GoodMap(stale) /\ UNCHANGED <<table, dropped, tick, disk, failedPrunes>>
  BY DEF IInv, TypeOK, GoodMap, RequestRoute, hostVars, fileVars, history
<1>2. /\ stale'.dynamic_injected \subseteq stale.dynamic_injected \cup Injected
      /\ \A s \in Routes : IsStale(stale', s) => IsStale(stale, s) \/ s \in Injected
  <2> DEFINE noted == note_dynamic_injected(stale, r)
  <2>1. GoodMap(noted) /\ noted.dynamic_injected = stale.dynamic_injected \cup {r} /\ noted.entries = stale.entries
    BY <1>1, NoteGood DEF note_dynamic_injected, GoodMap, StaleRoutes
  <2>2. stale' = stale \/ (r \in Injected /\ stale' \in {noted, claim_or_mark_stale(noted, r)})
    BY DEF RequestRoute
  <2> HIDE DEF noted
  <2>3. /\ claim_or_mark_stale(noted, r).dynamic_injected = noted.dynamic_injected
        /\ \A s \in Routes : s # r => claim_or_mark_stale(noted, r).entries[s] = noted.entries[s]
    BY <2>1 DEF claim_or_mark_stale, GoodMap, StaleRoutes
  <2> QED BY <2>1, <2>2, <2>3 DEF IsStale
<1> QED BY <1>1, <1>2 DEF Live, Accounted, Gone

LEMMA NextAccounted == IInv /\ Announceable /\ Live /\ Accounted /\ [Next]_vars => Live' /\ Accounted'
<1> SUFFICES ASSUME IInv, Announceable, Live, Accounted, [Next]_vars PROVE Live' /\ Accounted'
  OBVIOUS
<1>1. CASE Tick
  BY <1>1, SwapAccounted, TickAccounted, WriteAccounted, PruneAccounted DEF Tick
<1>2. CASE \/ \E c \in Sources, v \in Values \cup {Absent} : Edit(c, v)
           \/ UNCHANGED vars
           \/ \E q \in Requests : \/ RequestClaim(q) \/ RequestRenders(q) \/ RequestRenderFails(q)
                                   \/ RequestToken(q) \/ RequestDrain(q) \/ RequestApply(q)
                                   \/ RequestWriteFails(q)
  <2>1. UNCHANGED <<stale, table, tick, disk, failedPrunes, dropped>>
    BY <1>2 DEF vars, Edit, RequestClaim, RequestRenders, RequestRenderFails, RequestToken, RequestDrain,
       RequestApply, RequestWriteFails, hostVars, fileVars, history
  <2> QED BY <2>1 DEF Live, Accounted, Gone
<1>3. CASE \E q \in Requests : RequestWrite(q) \/ \E r \in Routes : RequestRoute(q, r)
  BY <1>3, RequestAccounted, RouteAccounted
<1> QED BY <1>1, <1>2, <1>3 DEF Next, RequestStep

\* Between ticks a document belongs to a live route, or its removal is queued, or
\* it was the business of a tick that failed, for any edits, failures and requests.
THEOREM NoOrphans == Spec => []NoOrphan
<1>1. Live /\ Accounted => NoOrphan
  <2> SUFFICES ASSUME Accounted, tick.pc = "idle" PROVE NoOrphan
    BY DEF NoOrphan
  <2>1. Gone = {}
    BY DEF Accounted, Gone
  <2> QED BY <2>1 DEF Accounted, NoOrphan
<1>2. Init => Announceable
  BY InitAnnounceable
<1> QED BY <1>1, <1>2, InitAccounted, NextAccounted, NextAnnounceable, Invariant, PTL DEF Spec
-----------------------------------------------------------------------------
(* Readers of a changed file.                                              *)

\* The sites of which the planner can know every reader: the content a route reads
\* is read by its page's paths() too, whose reads every host records when it
\* starts, or the route is always there and boot rendered it; and what decides
\* that a route exists is read by its render or by paths().
ReadersAreKnown ==
  /\ \A r \in Routes \ Injected : \/ Reads[r] \cap Content \subseteq PathReads[PageOf[r]]
                                  \/ EagerBoot /\ Own[r] = NoSource
  /\ \A r \in Routes : Own[r] # NoSource => Own[r] \in Reads[r] \cup PathReads[PageOf[r]]

\* The pages with recorded reads of content file `c', whether or not it exists.
Readers(c) == {p \in Pages : \/ p \in observed /\ c \in PathReads[p]
                             \/ \E r \in observed \cap Routes : PageOf[r] = p /\ c \in Reads[r]}

\* The edges of a file are all or none of them, and the observations, which are
\* never retracted, include the reads of every paths() and, after an eager boot,
\* those of the routes that are always there.
EdgesAreWhole ==
  /\ \A c \in Content : edges[c] \in {{}, Readers(c)}
  /\ {p \in Pages : PathReads[p] # {}} \subseteq observed
  /\ EagerBoot => {r \in Routes \ Injected : Own[r] = NoSource} \subseteq observed

\* The pages of the routes that a change of `c' can affect.
Affected(c) == {PageOf[r] : r \in {s \in Routes \ Injected : c \in Reads[s] \/ c = Own[s]}}

LEMMA InitWhole == Init => EdgesAreWhole
<1> SUFFICES ASSUME Init PROVE EdgesAreWhole
  OBVIOUS
<1>1. \A c \in Content : edges[c] \in {{}, Readers(c)}
  BY DEF Init, ContentReaders, Readers
<1>2. {r \in Routes \ Injected : Own[r] = NoSource} \subseteq table
  BY DEF Init, RoutesOf
<1>3. observed = IF EagerBoot THEN table \cup Pages ELSE {p \in Pages : PathReads[p] # {}}
  BY DEF Init
<1> QED BY <1>1, <1>2, <1>3 DEF EdgesAreWhole

\* A reconciliation, complete or not, leaves all the edges or none.
LEMMA ObserveWhole ==
  ASSUME EdgesAreWhole, NEW drained, Observe(drained) \/ ObserveFails(drained)
  PROVE  EdgesAreWhole'
<1>1. observed \subseteq observed'
  BY DEF Observe, ObserveFails
<1>2. \A c \in Content : edges'[c] \in {{}, Readers(c)'}
  <2>1. CASE Observe(drained)
    BY <2>1 DEF Observe, replace_content_edges, ContentReaders, Readers
  <2>2. CASE ObserveFails(drained)
    BY <2>2 DEF ObserveFails, clear_content_edges
  <2> QED BY <2>1, <2>2
<1> QED BY <1>1, <1>2 DEF EdgesAreWhole

LEMMA NextWhole == IInv /\ EdgesAreWhole /\ [Next]_vars => EdgesAreWhole'
<1> SUFFICES ASSUME IInv, EdgesAreWhole, [Next]_vars PROVE EdgesAreWhole'
  OBVIOUS
<1>1. ASSUME UNCHANGED observed, \A c \in Content : edges'[c] \in {{}, edges[c]}
      PROVE  EdgesAreWhole'
  BY <1>1 DEF EdgesAreWhole, Readers
<1>2. CASE TickBegin
  <2>1. UNCHANGED observed /\ \A c \in Content : edges'[c] \in {{}, edges[c]}
    BY <1>2 DEF TickBegin
  <2> QED BY <1>1, <2>1
<1>3. CASE TickReconcile
  BY <1>3, ObserveWhole DEF TickReconcile
<1>4. ASSUME NEW q \in Requests, RequestDrain(q)
      PROVE  EdgesAreWhole'
  <2>1. UNCHANGED observed /\ \A c \in Content : edges'[c] \in {{}, edges[c]}
    BY <1>4 DEF RequestDrain, clear_content_edges
  <2> QED BY <1>1, <2>1
<1>5. ASSUME NEW q \in Requests, RequestApply(q)
      PROVE  EdgesAreWhole'
  <2>1. CASE UNCHANGED graphVars
    BY <1>1, <2>1 DEF graphVars
  <2>2. CASE Observe(req[q].drained) \/ ObserveFails(req[q].drained)
    BY <2>2, ObserveWhole
  <2> QED BY <1>5, <2>1, <2>2 DEF RequestApply
<1>6. CASE UNCHANGED graphVars
  BY <1>1, <1>6 DEF graphVars
<1>7. \/ TickBegin \/ TickReconcile \/ UNCHANGED graphVars
      \/ \E q \in Requests : RequestDrain(q) \/ RequestApply(q)
  BY DEF Next, Edit, Tick, TickPlan, TickEnter, RefreshBundle, RefreshFails, SwapHost, BeginTrace,
     SwapTables, RenderEager, MarkStale, TickWrite, TickWriteFails, TickPrune, TickFinish, RequestStep,
     RequestRoute, RequestClaim, RequestRenders, RequestRenderFails, RequestToken, RequestWrite,
     RequestWriteFails, graphVars, history, vars
<1> QED BY <1>2, <1>3, <1>4, <1>5, <1>6, <1>7

\* What is affected is found: by the edges, which are whole, or because there are none.
LEMMA AffectedAreDirty ==
  ASSUME IInv, EdgesAreWhole, ReadersAreKnown, NEW c \in Sources
  PROVE  (c \in Content /\ edges[c] = {}) \/ Affected(c) \subseteq dirty_pages(c)
<1> SUFFICES ASSUME c \in Content => edges[c] # {},
                    NEW r \in Routes \ Injected, c \in Reads[r] \/ c = Own[r]
             PROVE  PageOf[r] \in dirty_pages(c)
  BY DEF Affected
<1>1. PageOf[r] \in Pages /\ PathReads[PageOf[r]] \subseteq Content /\ NoSource \notin Sources
  BY ConstantAssumption
<1>2. c \in Reads[r] \/ c \in PathReads[PageOf[r]]
  BY <1>1 DEF ReadersAreKnown
<1>3. CASE c \in Content
  <2>1. edges[c] = Readers(c)
    BY <1>3 DEF EdgesAreWhole
  <2>2. CASE c \in PathReads[PageOf[r]]
    BY <1>1, <1>3, <2>1, <2>2 DEF EdgesAreWhole, Readers, dirty_pages
  <2>3. CASE c \notin PathReads[PageOf[r]]
    <3>1. EagerBoot /\ Own[r] = NoSource
      BY <1>2, <1>3, <2>3 DEF ReadersAreKnown
    <3> QED BY <1>1, <1>2, <1>3, <2>1, <2>3, <3>1 DEF EdgesAreWhole, Readers, dirty_pages
  <2> QED BY <2>2, <2>3
<1>4. CASE c \notin Content
  BY <1>1, <1>2, <1>4 DEF dirty_pages
<1> QED BY <1>3, <1>4

\* A changed file selects the page of every route it affects.
LEMMA AffectedArePlanned ==
  ASSUME IInv, EdgesAreWhole, ReadersAreKnown, NEW c \in Sources
  PROVE  Affected(c) \subseteq PagesFor(c)
<1>1. Affected(c) \subseteq Pages
  BY ConstantAssumption DEF Affected
<1> QED BY <1>1, AffectedAreDirty DEF PagesFor, dirty_pages

\* Wherever readers are known, the planner finds every page with a route that reads
\* a changed file, whatever reconciliations failed and whoever drained the traces.
THEOREM ReadersAreReached ==
  ASSUME ReadersAreKnown
  PROVE  Spec => []PlannerReachesReaders
<1>1. IInv /\ EdgesAreWhole => PlannerReachesReaders
  <2> SUFFICES ASSUME IInv, EdgesAreWhole, NEW r \in table, NEW c \in Reads[r] \cap Content
               PROVE  PageOf[r] \in PagesFor(c)
    BY DEF PlannerReachesReaders
  <2>1. r \in Routes \ Injected /\ c \in Sources
    BY DEF IInv, TypeOK, Content
  <2>2. PageOf[r] \in Affected(c)
    BY <2>1 DEF Affected
  <2> QED BY <2>1, <2>2, AffectedArePlanned
<1> QED BY <1>1, InitWhole, NextWhole, Invariant, PTL DEF Spec
-----------------------------------------------------------------------------
(* What a fresh document may still miss.                                   *)

Edited(changes) == {change[1] : change \in changes}

\* The sources with a change that waits for a tick, or for its end, or that was
\* lost with a tick that had not bundled.
Unapplied == dropped.sources \cup Edited(pending) \cup Edited(tick.batch)

\* Where a tick holds the exclusion lock, and what it has not got yet.
Phases ==
  /\ tick.pc \in {"idle", "discover", "plan", "enter"} => exclusion = Nobody
  /\ tick.pc \in {"reload", "render", "mark", "reconcile", "write", "finish"} => exclusion = Watcher
  /\ tick.pc \in {"idle", "discover"} => ~tick.fresh
  /\ tick.pc = "idle" => tick.batch = {}

\* The tick has refreshed: what its host does not know was edited since.
Refreshed == \/ tick.pc \in {"beginTrace", "swapTables", "render", "mark", "reconcile", "write", "finish"}
             \/ tick.pc \in {"plan", "enter"} /\ tick.fresh

\* Trees that differ, differ in what is unapplied; and the table is that of the
\* host, or of the previous one until the tables are swapped.
Snapshots ==
  /\ \A c \in Sources : src[c] # host.snapshot[c] => c \in Unapplied
  /\ Refreshed => \A c \in Sources : src[c] # host.snapshot[c] => c \in Edited(pending)
  /\ tick.pc = "swapHost" =>
       \A c \in Sources : /\ tick.snapshot[c] # host.snapshot[c] => c \in Unapplied
                          /\ src[c] # tick.snapshot[c] => c \in Edited(pending)
  /\ Swapping => /\ host.snapshot = tick.snapshot
                 /\ \A c \in Sources : tick.previous[c] # host.snapshot[c] => c \in Unapplied
  /\ table = RoutesOf(IF Swapping THEN tick.previous ELSE host.snapshot)

\* From the plan on, the tick has the pages of everything its batch affects; those of
\* removed files it has from the start, before their edges go.
Planned == \/ tick.pc \in {"enter", "reload", "render", "mark", "reconcile", "write", "finish"}
           \/ tick.pc \in {"swapHost", "beginTrace", "swapTables"} /\ exclusion = Watcher

Chosen == \A change \in tick.batch :
            change[2] = "Removed" \/ Planned => Affected(change[1]) \subseteq tick.pages

Course == Phases /\ Snapshots /\ Chosen

LEMMA InitCourse == Init => Course
<1> SUFFICES ASSUME Init PROVE Course
  OBVIOUS
<1>1. /\ tick.pc = "idle" /\ tick.batch = {} /\ tick.fresh = FALSE /\ exclusion = Nobody
      /\ host.snapshot = src /\ table = RoutesOf(src)
  BY DEF Init, IdleTick
<1>2. Phases /\ Chosen
  BY <1>1 DEF Phases, Chosen
<1>3. Snapshots
  BY <1>1 DEF Snapshots, Refreshed, Swapping
<1> QED BY <1>2, <1>3 DEF Course

\* A tick that starts moves changes from the watcher to its batch.
LEMMA BeginCourse ==
  ASSUME IInv, EdgesAreWhole, ReadersAreKnown, Course, TickBegin
  PROVE  Course' /\ Unapplied' = Unapplied
<1>1. PICK registry : tick'.batch = Normalized(pending, registry)
  BY DEF TickBegin, IInv, TypeOK, TickLocals
<1>2. /\ tick \in TickLocals /\ tick.pc = "idle" /\ pending' = {} /\ tick'.pc \in {"discover", "plan"}
      /\ tick'.fresh = tick.fresh /\ UNCHANGED <<src, host, table, exclusion, dropped>>
  BY DEF TickBegin, IInv, TypeOK, TickLocals, hostVars, history
<1>3. Edited(tick'.batch) = Edited(pending) /\ Edited(tick.batch) = {} /\ Edited(pending') = {}
  <2> DEFINE N(x) == IF x[2] = "Created" /\ (x[1] \in registry \/ (x[1] \in Content /\ edges[x[1]] # {}))
                     THEN <<x[1], "Modified">> ELSE x
  <2>1. Normalized(pending, registry) = {N(x) : x \in pending}
    BY DEF Normalized
  <2>2. \A x : N(x)[1] = x[1]
    OBVIOUS
  <2> HIDE DEF N
  <2>3. Edited({N(x) : x \in pending}) = Edited(pending)
    BY <2>2 DEF Edited
  <2>4. tick.batch = {}
    BY <1>2 DEF Course, Phases
  <2> QED BY <1>1, <1>2, <2>1, <2>3, <2>4 DEF Edited
<1>4. Unapplied' = Unapplied
  BY <1>2, <1>3 DEF Unapplied
<1>5. Phases'
  BY <1>2 DEF Phases, Course
<1>6. Snapshots'
  BY <1>2, <1>4 DEF Snapshots, Refreshed, Swapping, Course, Phases
<1>7. Chosen'
  <2> SUFFICES ASSUME NEW change \in tick'.batch, change[2] = "Removed"
               PROVE  Affected(change[1]) \subseteq tick'.pages
    BY <1>2 DEF Chosen, Planned, Affected
  <2> DEFINE removed == Edited({x \in pending : x[2] = "Removed"})
  <2>1. change \in pending
    BY <1>1 DEF Normalized
  <2>2. change[1] \in removed /\ change[1] \in Sources
    BY <2>1 DEF Edited, IInv, TypeOK
  <2>3. tick'.pages = FormerConsumers(removed)
    BY <1>2 DEF TickBegin, TickLocals, Edited
  <2>4. Affected(change[1]) \subseteq Pages
    BY ConstantAssumption DEF Affected
  <2>5. CASE \E c \in removed \cap Content : edges[c] = {}
    BY <2>3, <2>4, <2>5 DEF FormerConsumers
  <2>6. CASE ~ \E c \in removed \cap Content : edges[c] = {}
    <3>1. tick'.pages = UNION {dirty_pages(c) : c \in removed}
      BY <2>3, <2>6 DEF FormerConsumers
    <3>2. Affected(change[1]) \subseteq dirty_pages(change[1])
      BY <2>2, <2>6, AffectedAreDirty
    <3> QED BY <2>2, <3>1, <3>2
  <2> QED BY <2>5, <2>6
<1> QED BY <1>4, <1>5, <1>6, <1>7 DEF Course

\* The plan adds the pages of what was created or modified.
LEMMA PlanCourse ==
  ASSUME IInv, EdgesAreWhole, ReadersAreKnown, Course, TickPlan
  PROVE  Course' /\ Unapplied' = Unapplied
<1> DEFINE planned == UNION {PagesFor(change[1]) : change \in {x \in tick.batch : x[2] # "Removed"}}
<1>1. /\ tick \in TickLocals /\ tick.pc = "plan" /\ tick'.pc = "enter" /\ tick'.batch = tick.batch
      /\ tick'.fresh = tick.fresh /\ tick'.pages = tick.pages \cup planned
      /\ UNCHANGED <<src, pending, host, table, exclusion, dropped>>
  BY DEF TickPlan, IInv, TypeOK, TickLocals, hostVars, envVars, history
<1>2. Unapplied' = Unapplied
  BY <1>1 DEF Unapplied
<1>3. Phases'
  BY <1>1 DEF Phases, Course
<1>4. Snapshots'
  BY <1>1, <1>2 DEF Snapshots, Refreshed, Swapping, Course
<1>5. ASSUME NEW change \in tick'.batch
      PROVE  Affected(change[1]) \subseteq tick'.pages
  <2>1. change \in tick.batch /\ change[1] \in Sources
    BY <1>1 DEF TickLocals
  <2>2. CASE change[2] = "Removed"
    BY <1>1, <2>1, <2>2 DEF Chosen, Course
  <2>3. CASE change[2] # "Removed"
    <3>1. Affected(change[1]) \subseteq PagesFor(change[1])
      BY <2>1, AffectedArePlanned
    <3> QED BY <1>1, <2>1, <2>3, <3>1
  <2> QED BY <2>2, <2>3
<1> QED BY <1>2, <1>3, <1>4, <1>5 DEF Course, Chosen, Affected

\* The refresh up to the skip or the swap of the host.
LEMMA RefreshCourse ==
  ASSUME IInv, Course, TickEnter \/ RefreshBundle \/ SwapHost \/ BeginTrace
  PROVE  Course' /\ Unapplied' = Unapplied
<1>1. /\ tick \in TickLocals /\ tick'.batch = tick.batch /\ tick'.pages = tick.pages
      /\ UNCHANGED <<src, pending, table, dropped>> /\ exclusion \in {Watcher, Nobody} /\ Watcher # Nobody
  <2>1. tick \in TickLocals /\ exclusion \in {Watcher, Nobody} /\ Watcher # Nobody
    BY ConstantAssumption DEF IInv, TypeOK
  <2>2. tick'.batch = tick.batch /\ tick'.pages = tick.pages
    BY <2>1 DEF TickEnter, RefreshBundle, SwapHost, BeginTrace, Goto, TickLocals
  <2>3. UNCHANGED <<src, pending, table, dropped>>
    BY DEF TickEnter, RefreshBundle, SwapHost, BeginTrace, hostVars, envVars, history
  <2> QED BY <2>1, <2>2, <2>3
<1>2. Unapplied' = Unapplied
  BY <1>1 DEF Unapplied
<1>3. CASE TickEnter
  <2>1. /\ tick.pc = "enter" /\ tick'.pc = (IF tick.fresh THEN "render" ELSE "reload")
        /\ tick'.fresh = tick.fresh /\ exclusion' = Watcher /\ UNCHANGED host
    BY <1>1, <1>3 DEF TickEnter, TickLocals, hostVars, history
  <2>2. Phases'
    BY <1>1, <2>1 DEF Phases, Course
  <2>3. Snapshots'
    BY <1>1, <1>2, <2>1 DEF Snapshots, Refreshed, Swapping, Course
  <2>4. Chosen'
    BY <1>1, <2>1 DEF Chosen, Planned, Course, Affected
  <2> QED BY <1>2, <2>2, <2>3, <2>4 DEF Course
<1>4. CASE RefreshBundle
  <2>1. /\ tick.pc \in {"discover", "reload"} /\ UNCHANGED <<host, exclusion>>
        /\ \/ /\ src = host.snapshot /\ tick'.pc = (IF Discovering THEN "plan" ELSE "render")
              /\ tick'.fresh = Discovering
           \/ tick'.pc = "swapHost" /\ tick'.snapshot = src /\ tick'.fresh = tick.fresh
    BY <1>1, <1>4 DEF RefreshBundle, TickLocals, hostVars, history, should_skip_refresh, AfterRefresh
  <2>2. Discovering <=> tick.pc = "discover"
    BY <1>1, <2>1 DEF Discovering, Phases, Course
  <2>3. Phases'
    BY <1>1, <2>1, <2>2 DEF Phases, Course
  <2>4. Snapshots'
    BY <1>1, <1>2, <2>1 DEF Snapshots, Refreshed, Swapping, Course
  <2>5. Chosen'
    BY <1>1, <2>1, <2>2 DEF Chosen, Planned, Discovering, Course, Affected
  <2> QED BY <1>2, <2>3, <2>4, <2>5 DEF Course
<1>5. CASE SwapHost
  <2>1. /\ tick.pc = "swapHost" /\ tick'.pc = "beginTrace" /\ UNCHANGED exclusion
        /\ tick'.snapshot = tick.snapshot /\ tick'.previous = host.snapshot
        /\ tick'.fresh = tick.fresh /\ host'.snapshot = tick.snapshot
    BY <1>1, <1>5 DEF SwapHost, TickLocals
  <2>2. Phases'
    BY <1>1, <2>1 DEF Phases, Course
  <2>3. \A c \in Sources : src'[c] # host'.snapshot[c] => c \in Edited(pending)
    BY <1>1, <2>1 DEF Snapshots, Course
  <2>4. \A c \in Sources : tick'.previous[c] # host'.snapshot[c] => c \in Unapplied
    BY <1>1, <2>1 DEF Snapshots, Course
  <2>5. table' = RoutesOf(tick'.previous)
    BY <1>1, <2>1 DEF Snapshots, Course, Swapping
  <2>6. Edited(pending) \subseteq Unapplied
    BY DEF Unapplied
  <2>7. Snapshots'
    BY <1>1, <1>2, <2>1, <2>3, <2>4, <2>5, <2>6 DEF Snapshots, Swapping
  <2>8. Chosen'
    BY <1>1, <2>1 DEF Chosen, Planned, Course, Affected
  <2> QED BY <1>2, <2>2, <2>7, <2>8 DEF Course
<1>6. CASE BeginTrace
  <2>1. /\ tick.pc = "beginTrace" /\ tick'.pc = "swapTables" /\ UNCHANGED <<host, exclusion>>
        /\ tick'.snapshot = tick.snapshot /\ tick'.previous = tick.previous /\ tick'.fresh = tick.fresh
    BY <1>1, <1>6 DEF BeginTrace, Goto, TickLocals
  <2>2. Phases'
    BY <1>1, <2>1 DEF Phases, Course
  <2>3. Snapshots'
    BY <1>1, <1>2, <2>1 DEF Snapshots, Refreshed, Swapping, Course
  <2>4. Chosen'
    BY <1>1, <2>1 DEF Chosen, Planned, Course, Affected
  <2> QED BY <1>2, <2>2, <2>3, <2>4 DEF Course
<1> QED BY <1>3, <1>4, <1>5, <1>6

LEMMA SwapCourse ==
  ASSUME IInv, Course, SwapTables
  PROVE  Course' /\ Unapplied' = Unapplied
<1>1. /\ tick \in TickLocals /\ tick.pc = "swapTables" /\ tick'.batch = tick.batch
      /\ tick.pages \subseteq tick'.pages /\ tick'.pc = AfterRefresh /\ tick'.fresh = Discovering
      /\ table' = RoutesOf(tick.snapshot) /\ dropped'.sources = dropped.sources
      /\ UNCHANGED <<src, pending, host, exclusion>> /\ exclusion \in {Watcher, Nobody} /\ Watcher # Nobody
  BY ConstantAssumption DEF SwapTables, IInv, TypeOK, TickLocals, envVars, history
<1>2. Unapplied' = Unapplied
  BY <1>1 DEF Unapplied
<1>3. /\ exclusion = Nobody => tick'.pc = "plan" /\ tick'.fresh
      /\ exclusion = Watcher => tick'.pc = "render"
  BY <1>1 DEF AfterRefresh, Discovering
<1>4. Phases'
  BY <1>1, <1>3 DEF Phases
<1>5. Snapshots'
  BY <1>1, <1>2, <1>3 DEF Snapshots, Refreshed, Swapping, Course
<1>6. Chosen'
  BY <1>1, <1>3 DEF Chosen, Planned, Course, Affected
<1> QED BY <1>2, <1>4, <1>5, <1>6 DEF Course

\* The rest of a tick keeps the host, the table and the plan.
LEMMA ApplyCourse ==
  ASSUME IInv, Course,
         \/ MarkStale \/ TickReconcile
         \/ \E failed \in SUBSET Routes : RenderEager(failed)
         \/ \E r \in Routes : TickWrite(r)
         \/ \E undeletable \in SUBSET Routes : TickPrune(undeletable)
  PROVE  Course' /\ Unapplied' = Unapplied
<1>1. /\ tick \in TickLocals /\ tick'.batch = tick.batch /\ tick'.pages = tick.pages
      /\ tick.pc \in {"render", "mark", "reconcile", "write"}
      /\ tick'.pc \in {"mark", "reconcile", "write", "finish"}
      /\ host'.snapshot = host.snapshot /\ UNCHANGED <<src, pending, table, exclusion, dropped>>
  BY DEF MarkStale, TickReconcile, RenderEager, TickWrite, TickPrune, Goto, IInv, TypeOK, TickLocals,
         hostVars, envVars, history
<1>2. Unapplied' = Unapplied
  BY <1>1 DEF Unapplied
<1>3. Phases'
  BY <1>1 DEF Phases, Course
<1>4. Snapshots'
  BY <1>1, <1>2 DEF Snapshots, Refreshed, Swapping, Course
<1>5. Chosen'
  BY <1>1 DEF Chosen, Planned, Course, Affected
<1> QED BY <1>2, <1>3, <1>4, <1>5 DEF Course

\* A tick that fails to bundle leaves its changes unapplied; one that ends, or fails
\* at a document, has applied them.
LEMMA EndCourse ==
  ASSUME IInv, Course, TickFinish \/ RefreshFails \/ \E r \in Routes : TickWriteFails(r)
  PROVE  /\ Course'
         /\ Unapplied' = IF RefreshFails THEN Unapplied
                         ELSE (dropped.sources \ Edited(tick.batch)) \cup Edited(pending)
<1>1. /\ tick \in TickLocals /\ tick.pc # "idle" /\ ~Swapping
      /\ tick'.pc = "idle" /\ tick'.batch = {} /\ tick'.fresh = FALSE
      /\ UNCHANGED <<src, pending, host, table>> /\ exclusion \in {Watcher, Nobody} /\ exclusion' = Nobody
  BY DEF TickFinish, RefreshFails, TickWriteFails, AbortTick, IdleTick, IInv, TypeOK, hostVars, envVars,
         history, Swapping
<1>2. Edited(tick'.batch) = {}
  BY <1>1 DEF Edited
<1>3. CASE ~RefreshFails
  <2>1. dropped'.sources = dropped.sources \ Edited(tick.batch)
    BY <1>3 DEF TickFinish, TickWriteFails, Forget, Batch, IInv, TypeOK, Edited
  <2>2. Unapplied' = (dropped.sources \ Edited(tick.batch)) \cup Edited(pending)
    BY <1>1, <1>2, <2>1 DEF Unapplied
  <2>3. \A c \in Sources : src[c] # host.snapshot[c] => c \in Edited(pending)
    BY <1>3 DEF TickFinish, TickWriteFails, Snapshots, Refreshed, Course
  <2>4. Phases' /\ Chosen'
    BY <1>1 DEF Phases, Chosen
  <2>5. Snapshots'
    BY <1>1, <2>2, <2>3 DEF Snapshots, Refreshed, Swapping, Course
  <2> QED BY <1>3, <2>2, <2>4, <2>5 DEF Course
<1>4. CASE RefreshFails
  <2>1. dropped'.sources = dropped.sources \cup Edited(tick.batch)
    BY <1>4 DEF RefreshFails, Forget, Batch, Edited
  <2>2. Unapplied' = Unapplied
    BY <1>1, <1>2, <2>1 DEF Unapplied
  <2>3. Phases' /\ Chosen'
    BY <1>1 DEF Phases, Chosen
  <2>4. Snapshots'
    BY <1>1, <2>2 DEF Snapshots, Refreshed, Swapping, Course
  <2> QED BY <1>4, <2>2, <2>3, <2>4 DEF Course
<1> QED BY <1>3, <1>4

\* An edit is unapplied from the moment it happens.
LEMMA EditCourse ==
  ASSUME IInv, Course, NEW c \in Sources, NEW v \in Values \cup {Absent}, Edit(c, v)
  PROVE  Course' /\ Unapplied \subseteq Unapplied'
<1>1. UNCHANGED <<host, table, tick, exclusion, dropped>> /\ \A d \in Sources : d # c => src'[d] = src[d]
  BY DEF Edit, hostVars, history, IInv, TypeOK, Trees
<1>2. Edited(pending) \cup {c} \subseteq Edited(pending')
  <2>1. PICK kind : pending' = pending \cup {<<c, kind>>}
    BY DEF Edit
  <2>2. <<c, kind>>[1] = c
    OBVIOUS
  <2> QED BY <2>1, <2>2 DEF Edited
<1>3. Unapplied \cup {c} \subseteq Unapplied'
  BY <1>1, <1>2 DEF Unapplied
<1>4. Phases' /\ Chosen'
  BY <1>1 DEF Phases, Chosen, Planned, Course, Affected
<1>5. Snapshots'
  BY <1>1, <1>2, <1>3 DEF Snapshots, Refreshed, Swapping, Course
<1> QED BY <1>3, <1>4, <1>5 DEF Course

\* Requests change nothing of this.
LEMMA RequestCourse ==
  ASSUME Course, UNCHANGED <<src, pending, table, tick, exclusion, dropped>>, host'.snapshot = host.snapshot
  PROVE  Course' /\ Unapplied' = Unapplied
BY DEF Course, Phases, Snapshots, Refreshed, Swapping, Chosen, Planned, Unapplied, Affected
-----------------------------------------------------------------------------
(* What is fresh is current.                                               *)

Restamped == \E c \in IslandSources : tick.previous[c] # tick.snapshot[c]

\* The inputs a fresh document may have an old value of.  What the browser token is
\* made of is not among them, since a change of it re-stales every document, save
\* between the swap of the host and that of the tables.
Outdated == IF Swapping /\ Restamped THEN Unapplied ELSE Unapplied \ IslandSources

\* A servable route that is not stale, and no failed write left behind, has on disk
\* what it would be rendered to, but for what is outdated.
Upheld ==
  \A r \in table \ unwritten : ~IsStale(stale, r) /\ Own[r] \notin Unapplied =>
    disk[r] # NoFile /\ \A c \in Inputs(r) \ Outdated : disk[r][c] = host.snapshot[c]

\* Every swap of the tables re-stales the dynamic injected routes it remembers, and
\* it remembers all that have a document or a request under way.
InjectedUpheld ==
  ~Swapping =>
    \A r \in Injected : ~IsStale(stale, r) /\ disk[r] # NoFile => disk[r] = Render(r, host.snapshot)

Remembered ==
  \A r \in Injected :
    disk[r] # NoFile \/ (\E q \in Requests : req[q].pc # "idle" /\ req[q].route = r)
      => r \in stale.dynamic_injected

\* What the tick has selected is, in this order, rendered, marked, written.
Advanced ==
  /\ tick.pc \in {"mark", "reconcile", "write"} =>
       \A r \in DOMAIN tick.out : tick.out[r] = Render(r, host.snapshot)
  /\ tick.pc = "mark" => Selected \subseteq DOMAIN tick.out \cup tick.toStale
  /\ tick.pc = "reconcile" => \A r \in Selected : r \in DOMAIN tick.out \/ IsStale(stale, r)
  /\ tick.pc = "write" =>
       \A r \in Selected : r \in DOMAIN tick.out \/ IsStale(stale, r) \/ disk[r] = Render(r, host.snapshot)
  /\ tick.pc = "finish" => \A r \in Selected : IsStale(stale, r) \/ disk[r] = Render(r, host.snapshot)

\* In the window between the two swaps a claim may still be current while its bytes
\* are those of the previous host.
BytesOfEither ==
  \A q \in Requests : req[q].bytes # NoFile /\ req[q].claim.generation = stale.generation /\ Swapping =>
    req[q].bytes \in {Render(req[q].route, tick.previous), Render(req[q].route, host.snapshot)}

Truthful == Upheld /\ InjectedUpheld /\ Remembered /\ Advanced /\ BytesOfEither

LEMMA InitTruthful == Init => Truthful
<1> SUFFICES ASSUME Init PROVE Truthful
  OBVIOUS
<1>1. /\ tick.pc = "idle" /\ host.snapshot = src /\ table = RoutesOf(src) /\ table \subseteq Routes \ Injected
      /\ \A q \in Requests : req[q].pc = "idle" /\ req[q].bytes = NoFile
  BY DEF Init, IdleTick, IdleRequest, RoutesOf
<1>2. src \in Trees
  BY ConstantAssumption DEF Init, Trees
<1>3. \A r \in Injected : r \in Routes /\ disk[r] = NoFile
  BY <1>1, ConstantAssumption DEF Init
<1>4. Upheld
  <2> SUFFICES ASSUME NEW r \in table, ~IsStale(stale, r)
               PROVE  disk[r] # NoFile /\ \A c \in Inputs(r) : disk[r][c] = host.snapshot[c]
    BY DEF Upheld
  <2>1. r \in Routes /\ EagerBoot
    BY <1>1 DEF Init, IsStale, NoEntry
  <2>2. disk[r] = Render(r, src)
    BY <2>1 DEF Init
  <2> QED BY <1>1, <1>2, <2>1, <2>2, RenderIsDocument, DocumentAssumption DEF Render
<1> QED BY <1>1, <1>3, <1>4 DEF Truthful, InjectedUpheld, Remembered, Advanced, BytesOfEither, Swapping

\* A step that changes no document and no host, and forgets no staleness and no change.
LEMMA UpheldStays ==
  ASSUME Truthful, UNCHANGED <<table, disk>>, host'.snapshot = host.snapshot, Unapplied \subseteq Unapplied',
         \A r \in Routes : IsStale(stale, r) => IsStale(stale', r), table \subseteq Routes,
         \A r \in unwritten : r \in unwritten' \/ IsStale(stale', r),
         Swapping => Swapping' /\ (Restamped => Restamped')
  PROVE  Upheld' /\ InjectedUpheld'
<1>1. Outdated \subseteq Outdated'
  BY DEF Outdated
<1>2. Upheld'
  BY <1>1 DEF Truthful, Upheld
<1>3. Injected \subseteq Routes
  BY ConstantAssumption
<1>4. InjectedUpheld'
  BY <1>3 DEF Truthful, InjectedUpheld, Render
<1> QED BY <1>2, <1>4

\* The tick's steps outside its two swaps and its application.
LEMMA PreparationTruthful ==
  ASSUME IInv, Course, Truthful, Unapplied' = Unapplied,
         \/ TickBegin \/ TickPlan \/ TickEnter \/ RefreshBundle \/ BeginTrace \/ RefreshFails
  PROVE  Truthful'
<1>1. UNCHANGED <<table, disk, stale, req, unwritten>> /\ UNCHANGED host
  BY DEF TickBegin, TickPlan, TickEnter, RefreshBundle, BeginTrace, RefreshFails,
         hostVars, fileVars, history
<1>2. tick \in TickLocals /\ table \subseteq Routes
  BY DEF IInv, TypeOK
<1>3. /\ tick'.pc \notin {"mark", "reconcile", "write", "finish"}
      /\ IF BeginTrace THEN Swapping /\ Swapping' /\ tick'.previous = tick.previous /\ tick'.snapshot = tick.snapshot
         ELSE ~Swapping /\ ~Swapping'
  <2>1. CASE BeginTrace
    BY <1>2, <2>1 DEF BeginTrace, Goto, TickLocals, Swapping
  <2>2. CASE TickBegin \/ TickPlan \/ TickEnter \/ RefreshBundle
    BY <1>2, <2>2 DEF TickBegin, TickPlan, TickEnter, RefreshBundle, BeginTrace, TickLocals, Swapping, AfterRefresh
  <2>3. CASE RefreshFails
    BY <1>2, <2>3 DEF RefreshFails, BeginTrace, AbortTick, IdleTick, Swapping
  <2> QED BY <2>1, <2>2, <2>3
<1>4. Upheld' /\ InjectedUpheld'
  BY <1>1, <1>2, <1>3, UpheldStays DEF Restamped
<1>5. Remembered' /\ Advanced'
  BY <1>1, <1>3 DEF Truthful, Remembered, Advanced
<1>6. BytesOfEither'
  BY <1>1, <1>3 DEF Truthful, BytesOfEither, Render
<1> QED BY <1>4, <1>5, <1>6 DEF Truthful

\* The host is swapped: what is unapplied may differ now.
LEMMA SwapHostTruthful ==
  ASSUME IInv, Course, Truthful, Unapplied' = Unapplied, SwapHost
  PROVE  Truthful'
<1>1. /\ tick \in TickLocals /\ tick.pc = "swapHost" /\ tick'.pc = "beginTrace"
      /\ tick'.snapshot = tick.snapshot /\ tick'.previous = host.snapshot /\ host'.snapshot = tick.snapshot
      /\ UNCHANGED <<table, disk, stale, req, unwritten>>
  BY DEF SwapHost, IInv, TypeOK, TickLocals, fileVars, history
<1>2. ~Swapping /\ Swapping'
  BY <1>1 DEF Swapping
<1>3. Upheld'
  <2> SUFFICES ASSUME NEW r \in table \ unwritten, ~IsStale(stale, r), Own[r] \notin Unapplied
               PROVE  disk[r] # NoFile /\ \A c \in Inputs(r) \ Outdated' : disk[r][c] = host'.snapshot[c]
    BY <1>1 DEF Upheld
  <2>1. disk[r] # NoFile /\ \A c \in Inputs(r) \ Outdated : disk[r][c] = host.snapshot[c]
    BY DEF Truthful, Upheld
  <2>2. ASSUME NEW c \in Inputs(r) \ Outdated'
        PROVE  c \notin Outdated /\ host'.snapshot[c] = host.snapshot[c]
    <3>1. c \in Sources
      BY ConstantAssumption DEF IInv, TypeOK, Inputs
    <3>2. c \notin Unapplied => host'.snapshot[c] = host.snapshot[c]
      BY <1>1, <3>1 DEF Course, Snapshots
    <3>3. c \in Unapplied => c \in IslandSources /\ ~Restamped'
      BY <1>2, <2>2 DEF Outdated
    <3>4. c \in Unapplied => host'.snapshot[c] = host.snapshot[c]
      BY <1>1, <3>3 DEF Restamped
    <3>5. c \notin Outdated
      BY <1>2, <3>3 DEF Outdated
    <3> QED BY <3>2, <3>4, <3>5
  <2> QED BY <2>1, <2>2
<1>4. InjectedUpheld' /\ Remembered' /\ Advanced'
  BY <1>1, <1>2 DEF Truthful, InjectedUpheld, Remembered, Advanced
<1>5. BytesOfEither'
  <2> SUFFICES ASSUME NEW q \in Requests, req[q].bytes # NoFile, req[q].claim.generation = stale.generation
               PROVE  req[q].bytes = Render(req[q].route, host.snapshot)
    BY <1>1 DEF BytesOfEither, Render
  <2> QED BY <1>2 DEF IInv, RequestInv, HoldsLiveBytes
<1> QED BY <1>3, <1>4, <1>5 DEF Truthful

\* The tables are swapped: a new token re-stales every route, any swap the dynamic
\* injected ones, and a route that was added is owned by an unapplied source.
LEMMA SwapTablesTruthful ==
  ASSUME IInv, Course, Truthful, Unapplied' = Unapplied, SwapTables
  PROVE  Truthful'
<1> DEFINE live     == RoutesOf(tick.snapshot)
           vanished == table \ live
           identity == \E c \in IslandSources : tick.previous[c] # tick.snapshot[c]
           swapped  == note_table_swap(stale, vanished)
           marked   == mark_stale(swapped, IF identity THEN live ELSE Seeds)
<1>1. /\ tick \in TickLocals /\ tick.pc = "swapTables" /\ table' = live
      /\ host.snapshot = tick.snapshot /\ table = RoutesOf(tick.previous)
      /\ UNCHANGED <<host, disk, req>>
  <2>1. tick \in TickLocals /\ tick.pc = "swapTables" /\ table' = live /\ UNCHANGED <<host, disk, req>>
    BY DEF SwapTables, IInv, TypeOK, fileVars, history
  <2>2. host.snapshot = tick.snapshot /\ table = RoutesOf(tick.previous)
    BY <2>1 DEF Course, Snapshots, Swapping
  <2> QED BY <2>1, <2>2
<1>2. tick'.pc \in {"plan", "render"}
  BY <1>1 DEF SwapTables, AfterRefresh, TickLocals
<1>3. Swapping /\ ~Swapping'
  BY <1>1, <1>2 DEF Swapping
<1>4. live \in SUBSET Routes /\ vanished \in SUBSET Routes /\ Seeds \in SUBSET Routes /\ GoodMap(stale)
  BY ConstantAssumption DEF IInv, TypeOK, RoutesOf, GoodMap
<1>5. /\ GoodMap(swapped) /\ swapped.dynamic_injected = stale.dynamic_injected
      /\ \A r \in Routes \ vanished : IsStale(stale, r) => IsStale(swapped, r)
  <2>1. GoodMap(swapped) /\ swapped.dynamic_injected = stale.dynamic_injected
    BY <1>4, SwapGood DEF note_table_swap, GoodMap, StaleRoutes
  <2>2. \A r \in Routes : swapped.entries[r] = IF r \in vanished \/ stale.entries[r] = NoEntry THEN NoEntry
                                               ELSE stale.generation + 1
    BY <1>4 DEF note_table_swap, GoodMap, StaleRoutes
  <2>3. stale.generation + 1 # NoEntry
    BY <1>4 DEF GoodMap, StaleRoutes, NoEntry
  <2> QED BY <2>1, <2>2, <2>3 DEF IsStale
<1> HIDE DEF swapped
<1>6. /\ GoodMap(marked) /\ marked.dynamic_injected = swapped.dynamic_injected
      /\ \A r \in Routes : IsStale(swapped, r) => IsStale(marked, r)
      /\ identity => \A r \in live : IsStale(marked, r)
  <2>1. PICK paths \in SUBSET Routes : marked = mark_stale(swapped, paths) /\ (identity => paths = live)
    BY <1>4
  <2> HIDE DEF marked
  <2> QED BY <1>4, <1>5, <2>1, MarkStales, MarkGood
<1>7. stale' = restale_dynamic_injected(marked)
  BY DEF SwapTables, Restaled, swapped
<1> HIDE DEF marked
<1>8. /\ stale'.dynamic_injected = stale.dynamic_injected
      /\ \A r \in Routes : IsStale(marked, r) \/ r \in stale.dynamic_injected => IsStale(stale', r)
  BY <1>5, <1>6, <1>7 DEF restale_dynamic_injected, IsStale, GoodMap, StaleRoutes, NoEntry
<1>9. Upheld'
  <2> SUFFICES ASSUME NEW r \in live \ unwritten', ~IsStale(stale', r), Own[r] \notin Unapplied
               PROVE  disk[r] # NoFile /\ \A c \in Inputs(r) \ Outdated' : disk[r][c] = host.snapshot[c]
    BY <1>1 DEF Upheld
  <2>1. ~Restamped /\ ~IsStale(stale, r)
    BY <1>4, <1>5, <1>6, <1>8 DEF Restamped
  <2>4. r \notin unwritten
    BY DEF SwapTables
  <2>2. r \in table
    <3>1. r \in Routes \ Injected /\ Own[r] \in Sources \cup {NoSource}
      BY ConstantAssumption DEF RoutesOf
    <3>2. Own[r] # NoSource => tick.previous[Own[r]] # Absent
      BY <1>1, <1>3, <3>1 DEF Course, Snapshots, RoutesOf
    <3> QED BY <1>1, <3>1, <3>2 DEF RoutesOf
  <2>3. Outdated' = Outdated
    BY <1>3, <2>1 DEF Outdated
  <2> QED BY <2>1, <2>2, <2>3, <2>4 DEF Truthful, Upheld
<1>10. Remembered'
  BY <1>1, <1>8 DEF Truthful, Remembered
<1>11. InjectedUpheld'
  BY <1>1, <1>8, ConstantAssumption DEF Truthful, InjectedUpheld, Remembered
<1>12. Advanced' /\ BytesOfEither'
  BY <1>2, <1>3 DEF Advanced, BytesOfEither
<1> QED BY <1>9, <1>10, <1>11, <1>12 DEF Truthful

\* The tick renders, marks and reconciles.
LEMMA RenderTruthful ==
  ASSUME IInv, Course, Truthful, Unapplied' = Unapplied,
         \/ MarkStale \/ TickReconcile
         \/ \E failed \in SUBSET Routes : RenderEager(failed)
  PROVE  Truthful'
<1>1. /\ tick \in TickLocals /\ table \subseteq Routes /\ GoodMap(stale)
      /\ host'.snapshot = host.snapshot /\ UNCHANGED <<table, disk, req>>
  BY DEF MarkStale, TickReconcile, RenderEager, IInv, TypeOK, GoodMap, hostVars, fileVars, history
<1>2. /\ tick.pc \in {"render", "mark", "reconcile"} /\ tick'.pc \in {"mark", "reconcile", "write"}
      /\ tick'.pages = tick.pages
  BY <1>1 DEF MarkStale, TickReconcile, RenderEager, Goto, TickLocals
<1>3. Selected' = Selected
  BY <1>1, <1>2 DEF Selected
<1>4. /\ stale'.dynamic_injected = stale.dynamic_injected
      /\ \A r \in Routes : IsStale(stale, r) => IsStale(stale', r)
  <2>1. CASE MarkStale
    <3>1. stale' = mark_stale(stale, tick.toStale) /\ tick.toStale \in SUBSET Routes
      BY <1>1, <2>1 DEF MarkStale, TickLocals
    <3> QED BY <1>1, <3>1, MarkStales
  <2>2. CASE ~MarkStale
    BY <2>2 DEF TickReconcile, RenderEager
  <2> QED BY <2>1, <2>2
<1>9. \A r \in unwritten : r \in unwritten' \/ IsStale(stale', r)
  <2>1. CASE MarkStale
    <3>1. stale' = mark_stale(stale, tick.toStale) /\ tick.toStale \in SUBSET Routes
      BY <1>1, <2>1 DEF MarkStale, TickLocals
    <3>2. unwritten' = unwritten \ tick.toStale
      BY <2>1 DEF MarkStale
    <3> QED BY <1>1, <3>1, <3>2, MarkStales
  <2>2. CASE ~MarkStale
    BY <2>2 DEF TickReconcile, RenderEager, history
  <2> QED BY <2>1, <2>2
<1>5. Upheld' /\ InjectedUpheld'
  BY <1>1, <1>2, <1>4, <1>9, UpheldStays DEF Swapping
<1>6. Remembered'
  BY <1>1, <1>4 DEF Truthful, Remembered
<1>7. BytesOfEither'
  BY <1>2 DEF BytesOfEither, Swapping
<1>8. Advanced'
  <2>1. ASSUME NEW failed \in SUBSET Routes, RenderEager(failed)
        PROVE  Advanced'
    <3>1. /\ tick'.pc = "mark" /\ tick'.out = RendersOf(host, Eager \ failed)
          /\ tick'.toStale = (Selected \ Eager) \cup failed
      BY <1>1, <2>1 DEF RenderEager, TickLocals
    <3>2. DOMAIN tick'.out = Eager \ failed
      BY <3>1 DEF RendersOf
    <3>3. \A r \in DOMAIN tick'.out : tick'.out[r] = Render(r, host.snapshot)
      BY <3>1 DEF RendersOf
    <3> QED BY <1>1, <1>3, <3>1, <3>2, <3>3 DEF Advanced, Render
  <2>2. CASE MarkStale
    <3>1. /\ tick.pc = "mark" /\ tick'.pc = "reconcile" /\ tick'.out = tick.out
          /\ stale' = mark_stale(stale, tick.toStale) /\ tick.toStale \in SUBSET Routes
      BY <1>1, <2>2 DEF MarkStale, TickLocals
    <3>2. \A r \in Routes : r \in tick.toStale => IsStale(stale', r)
      BY <1>1, <3>1, MarkStales
    <3>3. Selected \subseteq Routes
      BY <1>1 DEF Selected
    <3> QED BY <1>1, <1>3, <3>1, <3>2, <3>3 DEF Truthful, Advanced, Render
  <2>3. CASE TickReconcile
    <3>1. /\ tick.pc = "reconcile" /\ tick'.pc = "write" /\ tick'.out = tick.out /\ UNCHANGED stale
      BY <1>1, <2>3 DEF TickReconcile, Goto, TickLocals
    <3> QED BY <1>1, <1>3, <3>1 DEF Truthful, Advanced, Render
  <2> QED BY <2>1, <2>2, <2>3
<1> QED BY <1>5, <1>6, <1>7, <1>8 DEF Truthful

\* A committed document is on disk, whether it was written or deduplicated.
LEMMA CommitIsOnDisk ==
  ASSUME IInv, NEW r \in Routes, NEW bytes, bytes # NoFile, CommitDocument(r, bytes)
  PROVE  disk'[r] = bytes /\ \A s \in Routes \ {r} : disk'[s] = disk[s]
BY DEF CommitDocument, IInv, TypeOK, DedupMatchesDisk

\* The tick writes a document it rendered from the live host.
LEMMA WriteTruthful ==
  ASSUME IInv, Course, Live, Truthful, Unapplied' = Unapplied, NEW r \in Routes, TickWrite(r)
  PROVE  Truthful'
<1>1. /\ tick \in TickLocals /\ table \subseteq Routes \ Injected /\ GoodMap(stale)
      /\ tick.pc = "write" /\ r \in DOMAIN tick.out /\ UNCHANGED <<table, host, req>>
  BY DEF TickWrite, IInv, TypeOK, GoodMap, hostVars, history
<1>2. /\ tick'.pc = "write" /\ tick'.pages = tick.pages
      /\ tick'.out = [s \in DOMAIN tick.out \ {r} |-> tick.out[s]]
  BY <1>1 DEF TickWrite, TickLocals
<1>3. r \in table /\ tick.out[r] = Render(r, host.snapshot) /\ tick.out[r] # NoFile
  <2>1. r \in table
    BY <1>1 DEF Live
  <2>2. tick.out[r] = Render(r, host.snapshot)
    BY <1>1 DEF Truthful, Advanced
  <2>3. host.snapshot \in Trees
    BY DEF IInv, TypeOK
  <2> QED BY <2>1, <2>2, <2>3, RenderIsDocument, DocumentAssumption
<1>4. disk'[r] = Render(r, host.snapshot) /\ \A s \in Routes \ {r} : disk'[s] = disk[s]
  BY <1>3, CommitIsOnDisk DEF TickWrite
<1>5. /\ stale'.dynamic_injected = stale.dynamic_injected
      /\ \A s \in Routes \ {r} : IsStale(stale', s) <=> IsStale(stale, s)
  BY <1>1 DEF TickWrite, clear_stale, GoodMap, StaleRoutes, IsStale
<1>6. ~Swapping /\ ~Swapping'
  BY <1>1, <1>2 DEF Swapping
<1>7. Upheld'
  <2> SUFFICES ASSUME NEW s \in table \ unwritten', ~IsStale(stale', s), Own[s] \notin Unapplied
               PROVE  disk'[s] # NoFile /\ \A c \in Inputs(s) \ Outdated : disk'[s][c] = host.snapshot[c]
    BY <1>1, <1>6 DEF Upheld, Outdated
  <2>1. CASE s = r
    BY <1>3, <1>4, <2>1 DEF Render
  <2>2. CASE s # r
    <3>1. s \notin unwritten
      BY <2>2 DEF TickWrite
    <3> QED BY <1>1, <1>4, <1>5, <2>2, <3>1 DEF Truthful, Upheld
  <2> QED BY <2>1, <2>2
<1>8. InjectedUpheld' /\ Remembered'
  <2>1. \A s \in Injected : s \in Routes \ {r}
    BY <1>1, <1>3, ConstantAssumption
  <2> QED BY <1>1, <1>4, <1>5, <1>6, <2>1 DEF Truthful, InjectedUpheld, Remembered, Render
<1>9. Advanced'
  <2>1. Selected' = Selected /\ Selected \subseteq Routes
    BY <1>1, <1>2 DEF Selected
  <2>2. DOMAIN tick'.out = DOMAIN tick.out \ {r} /\ \A s \in DOMAIN tick'.out : tick'.out[s] = tick.out[s]
    BY <1>2
  <2>3. \A s \in Selected : s \in DOMAIN tick'.out \/ IsStale(stale', s) \/ disk'[s] = Render(s, host.snapshot)
    BY <1>1, <1>4, <1>5, <2>1, <2>2 DEF Truthful, Advanced
  <2>4. \A s \in DOMAIN tick'.out : tick'.out[s] = Render(s, host.snapshot)
    BY <1>1, <2>2 DEF Truthful, Advanced
  <2> QED BY <1>1, <1>2, <2>1, <2>3, <2>4 DEF Advanced, Render
<1>10. BytesOfEither'
  BY <1>6 DEF BytesOfEither
<1> QED BY <1>7, <1>8, <1>9, <1>10 DEF Truthful

\* The prune leaves the documents of the table alone.
LEMMA PruneTruthful ==
  ASSUME IInv, Course, Truthful, Unapplied' = Unapplied, NEW undeletable \in SUBSET Routes, TickPrune(undeletable)
  PROVE  Truthful'
<1>1. /\ tick \in TickLocals /\ table \subseteq Routes \ Injected
      /\ tick.pc = "write" /\ DOMAIN tick.out = {} /\ UNCHANGED <<table, host, stale, req, unwritten>>
      /\ tick'.pc = "finish" /\ tick'.pages = tick.pages
  BY DEF TickPrune, Goto, IInv, TypeOK, TickLocals, hostVars, history
<1>2. /\ \A r \in table : disk'[r] = disk[r]
      /\ \A r \in Routes : disk'[r] \in {NoFile, disk[r]}
  BY <1>1 DEF TickPrune, Protected
<1>3. ~Swapping /\ ~Swapping' /\ Injected \subseteq Routes
  BY <1>1, ConstantAssumption DEF Swapping
<1>4. Upheld'
  BY <1>1, <1>2, <1>3 DEF Truthful, Upheld, Outdated
<1>5. InjectedUpheld' /\ Remembered'
  BY <1>1, <1>2, <1>3 DEF Truthful, InjectedUpheld, Remembered, Render
<1>6. Advanced'
  BY <1>1, <1>2 DEF Truthful, Advanced, Selected, Render
<1>7. BytesOfEither'
  BY <1>3 DEF BytesOfEither
<1> QED BY <1>4, <1>5, <1>6, <1>7 DEF Truthful

\* The end of a tick applies its batch, and so does a tick that fails at a document:
\* the documents of the selection are current, stale or unwritten, and the batch does
\* not affect the others.
LEMMA FinishTruthful ==
  ASSUME IInv, Course, Truthful, TickFinish \/ \E r \in Routes : TickWriteFails(r),
         Unapplied' = (dropped.sources \ Edited(tick.batch)) \cup Edited(pending)
  PROVE  Truthful'
<1>1. /\ tick \in TickLocals /\ table \subseteq Routes \ Injected /\ GoodMap(stale) /\ host.snapshot \in Trees
      /\ tick.pc \in {"write", "finish"} /\ tick'.pc = "idle" /\ UNCHANGED <<table, host, disk, req>>
  BY DEF TickFinish, TickWriteFails, AbortTick, IdleTick, IInv, TypeOK, GoodMap, hostVars, fileVars, history
<1>2. stale'.dynamic_injected = stale.dynamic_injected /\ stale'.entries = stale.entries
  BY <1>1 DEF TickFinish, TickWriteFails, take_tick_stale, GoodMap, StaleRoutes
<1>3. ~Swapping /\ ~Swapping'
  BY <1>1 DEF Swapping
<1>7. \A r \in Selected \ unwritten' : IsStale(stale, r) \/ disk[r] = Render(r, host.snapshot)
  <2>1. CASE TickFinish
    BY <2>1 DEF TickFinish, Truthful, Advanced
  <2>2. CASE \E r \in Routes : TickWriteFails(r)
    <3>1. tick.pc = "write" /\ unwritten' = unwritten \cup {s \in DOMAIN tick.out : ~IsStale(stale, s)}
      BY <2>2 DEF TickWriteFails
    <3> QED BY <3>1 DEF Truthful, Advanced
  <2> QED BY <2>1, <2>2
<1>8. unwritten \subseteq unwritten'
  BY DEF TickFinish, TickWriteFails
<1>4. Upheld'
  <2> SUFFICES ASSUME NEW r \in table \ unwritten', ~IsStale(stale, r), Own[r] \notin Unapplied'
               PROVE  disk[r] # NoFile /\ \A c \in Inputs(r) \ Outdated' : disk[r][c] = host.snapshot[c]
    BY <1>1, <1>2 DEF Upheld, IsStale
  <2>1. r \in Routes \ Injected
    BY <1>1
  <2>2. CASE r \in Selected
    <3>1. disk[r] = Render(r, host.snapshot)
      BY <1>7, <2>2
    <3> QED BY <1>1, <2>1, <3>1, RenderIsDocument, DocumentAssumption DEF Render
  <2>3. CASE r \notin Selected
    <3>1. \A c \in Edited(tick.batch) : PageOf[r] \notin Affected(c)
      BY <1>1, <2>3 DEF Selected, Edited, Course, Chosen, Planned
    <3>2. \A c \in Edited(tick.batch) : c \notin Reads[r] /\ c # Own[r]
      BY <2>1, <3>1 DEF Affected
    <3>3. Own[r] \notin Unapplied
      BY <3>2 DEF Unapplied
    <3>4. Inputs(r) \ Outdated' \subseteq Inputs(r) \ Outdated
      BY <1>3, <3>2 DEF Outdated, Unapplied, Inputs
    <3> QED BY <1>8, <3>3, <3>4 DEF Truthful, Upheld
  <2> QED BY <2>2, <2>3
<1>5. InjectedUpheld' /\ Remembered'
  BY <1>1, <1>2, <1>3 DEF Truthful, InjectedUpheld, Remembered, Render, IsStale
<1>6. Advanced' /\ BytesOfEither'
  BY <1>1, <1>3 DEF Advanced, BytesOfEither
<1> QED BY <1>4, <1>5, <1>6 DEF Truthful

\* A request route is looked up: nothing becomes fresh.
LEMMA RouteTruthful ==
  ASSUME IInv, Course, Truthful, Unapplied' = Unapplied, NEW q \in Requests, NEW r \in Routes, RequestRoute(q, r)
  PROVE  Truthful'
<1> DEFINE noted == note_dynamic_injected(stale, r)
<1>1. /\ GoodMap(stale) /\ table \subseteq Routes \ Injected /\ req \in [Requests -> RequestLocals]
      /\ UNCHANGED <<table, host, tick, disk, unwritten>>
  BY DEF IInv, TypeOK, GoodMap, RequestRoute, hostVars, fileVars, history
<1>2. GoodMap(noted) /\ noted.dynamic_injected = stale.dynamic_injected \cup {r} /\ noted.entries = stale.entries
      /\ noted.generation = stale.generation
  BY <1>1, NoteGood DEF note_dynamic_injected, GoodMap, StaleRoutes
<1>3. \/ r \in table /\ stale' = stale
      \/ r \in Injected /\ stale' \in {noted, claim_or_mark_stale(noted, r)}
  BY DEF RequestRoute
<1> HIDE DEF noted
<1>4. LET marked == claim_or_mark_stale(noted, r) IN
        /\ marked.dynamic_injected = noted.dynamic_injected /\ marked.generation = noted.generation
        /\ \A s \in Routes : IsStale(noted, s) => IsStale(marked, s)
        /\ \A s \in Routes \ {r} : marked.entries[s] = noted.entries[s]
  BY <1>2 DEF claim_or_mark_stale, GoodMap, StaleRoutes, IsStale
<1>5. /\ \A s \in Routes : IsStale(stale, s) => IsStale(stale', s)
      /\ \A s \in Routes : s \notin Injected => stale'.entries[s] = stale.entries[s]
      /\ stale.dynamic_injected \subseteq stale'.dynamic_injected
      /\ r \in Injected => r \in stale'.dynamic_injected
      /\ stale'.generation = stale.generation
  BY <1>1, <1>2, <1>3, <1>4 DEF IsStale
<1>6. Upheld' /\ InjectedUpheld'
  BY <1>1, <1>5, UpheldStays DEF Swapping, Restamped
<1>7. /\ req'[q].route \in {r, NoPath} /\ req'[q].bytes = req[q].bytes /\ req[q].bytes = NoFile
      /\ \A p \in Requests \ {q} : req'[p] = req[p]
  BY <1>1 DEF RequestRoute, RequestLocals, IInv, RequestInv
<1>8. Remembered'
  <2> SUFFICES ASSUME NEW s \in Injected,
                      disk[s] # NoFile \/ (\E p \in Requests : req'[p].pc # "idle" /\ req'[p].route = s)
               PROVE  s \in stale'.dynamic_injected
    BY <1>1 DEF Remembered
  <2>1. s # NoPath
    BY ConstantAssumption
  <2>2. s = r \/ s \in stale.dynamic_injected
    BY <1>7, <2>1 DEF Truthful, Remembered
  <2> QED BY <1>5, <2>2
<1>9. Advanced'
  <2>1. Selected \subseteq Routes \ Injected /\ Selected' = Selected
    BY <1>1 DEF Selected
  <2> QED BY <1>1, <1>5, <2>1 DEF Truthful, Advanced, IsStale, Render
<1>10. BytesOfEither'
  BY <1>1, <1>5, <1>7 DEF Truthful, BytesOfEither, Swapping, Render
<1> QED BY <1>6, <1>8, <1>9, <1>10 DEF Truthful

\* A request that writes holds bytes of the live host, or of the previous one in the
\* window in which no current document may differ in anything else.
LEMMA RequestWriteTruthful ==
  ASSUME IInv, Course, Truthful, Unapplied' = Unapplied, NEW q \in Requests, RequestWrite(q)
  PROVE  Truthful'
<1> DEFINE r == req[q].route
<1>1. /\ GoodMap(stale) /\ table \subseteq Routes \ Injected /\ req \in [Requests -> RequestLocals]
      /\ exclusion = Nobody /\ req[q].pc = "write" /\ req' = [req EXCEPT ![q] = IdleRequest]
      /\ UNCHANGED <<table, host, tick, unwritten>>
  BY DEF IInv, TypeOK, GoodMap, RequestWrite, hostVars, history
<1>2. /\ Claimed(q) /\ r \in Routes /\ req[q].bytes # NoFile /\ req[q].claim \in Claims
      /\ req[q].claim.output_path = r
  BY <1>1 DEF IInv, RequestInv, Claimed
<1>3. tick.pc \notin {"mark", "reconcile", "write", "finish"}
  BY <1>1, ConstantAssumption DEF Course, Phases
<1>4. IdleRequest.pc = "idle" /\ IdleRequest.bytes = NoFile
  BY DEF IdleRequest
<1>5. \A p \in Requests : req'[p] = IF p = q THEN IdleRequest ELSE req[p]
  BY <1>1
<1>6. /\ stale'.dynamic_injected = stale.dynamic_injected /\ stale'.generation = stale.generation
      /\ \A s \in Routes \ {r} : stale'.entries[s] = stale.entries[s]
  BY <1>1, <1>2 DEF RequestWrite, clear_if_current, GoodMap, StaleRoutes
<1>7. Advanced' /\ BytesOfEither'
  <2>1. Advanced'
    BY <1>1, <1>3 DEF Advanced
  <2>2. BytesOfEither'
    BY <1>1, <1>4, <1>5, <1>6 DEF Truthful, BytesOfEither, Swapping, Render
  <2> QED BY <2>1, <2>2
<1>8. CASE ~StillCurrent(q)
  <2>1. UNCHANGED <<disk, stale>>
    BY <1>8 DEF RequestWrite
  <2>2. Upheld' /\ InjectedUpheld'
    BY <1>1, <2>1, UpheldStays DEF Swapping, Restamped
  <2>3. Remembered'
    BY <1>4, <1>5, <2>1 DEF Truthful, Remembered
  <2> QED BY <1>7, <2>2, <2>3 DEF Truthful
<1>9. CASE StillCurrent(q)
  <2>1. /\ req[q].claim.generation = stale.generation /\ IsStale(stale, r)
    BY <1>1, <1>2, <1>9 DEF StillCurrent, claim_is_current, GoodMap, EntriesAreCurrent, StaleRoutes, Claims,
                            NoEntry, IsStale
  <2>2. disk'[r] = req[q].bytes /\ \A s \in Routes \ {r} : disk'[s] = disk[s]
    BY <1>2, <1>9, CommitIsOnDisk DEF RequestWrite
  <2>3. ~Swapping => req[q].bytes = Render(r, host.snapshot)
    BY <1>2, <2>1 DEF IInv, RequestInv, HoldsLiveBytes
  <2>4. Swapping => req[q].bytes \in {Render(r, tick.previous), Render(r, host.snapshot)}
    BY <1>2, <2>1 DEF Truthful, BytesOfEither
  <2>5. Upheld'
    <3> SUFFICES ASSUME NEW s \in table \ unwritten, ~IsStale(stale', s), Own[s] \notin Unapplied
                 PROVE  disk'[s] # NoFile /\ \A c \in Inputs(s) \ Outdated : disk'[s][c] = host.snapshot[c]
      BY <1>1 DEF Upheld, Outdated, Swapping, Restamped
    <3>1. CASE s # r
      BY <1>1, <1>6, <2>2, <3>1 DEF Truthful, Upheld, IsStale
    <3>2. CASE s = r
      <4>1. ASSUME NEW c \in Inputs(r) \ Outdated
            PROVE  req[q].bytes[c] = host.snapshot[c]
        <5>1. c \in Sources
          BY <1>2, ConstantAssumption DEF Inputs
        <5>2. CASE req[q].bytes = Render(r, host.snapshot)
          BY <4>1, <5>2 DEF Render
        <5>3. CASE Swapping /\ req[q].bytes = Render(r, tick.previous)
          <6>1. c \notin Unapplied => tick.previous[c] = host.snapshot[c]
            BY <5>1, <5>3 DEF Course, Snapshots
          <6>2. c \in Unapplied => c \in IslandSources /\ ~Restamped
            BY <4>1, <5>3 DEF Outdated
          <6>3. c \in Unapplied => tick.previous[c] = host.snapshot[c]
            BY <5>3, <6>2 DEF Restamped, Course, Snapshots
          <6> QED BY <4>1, <5>3, <6>1, <6>3 DEF Render
        <5> QED BY <2>3, <2>4, <5>2, <5>3
      <4> QED BY <1>2, <2>2, <3>2, <4>1
    <3> QED BY <3>1, <3>2
  <2>6. InjectedUpheld'
    BY <1>1, <1>6, <2>2, <2>3, ConstantAssumption DEF Truthful, InjectedUpheld, Swapping, IsStale, Render
  <2>7. Remembered'
    <3> SUFFICES ASSUME NEW s \in Injected,
                        disk'[s] # NoFile \/ (\E p \in Requests : req'[p].pc # "idle" /\ req'[p].route = s)
                 PROVE  s \in stale.dynamic_injected
      BY <1>6 DEF Remembered
    <3>1. s \in Routes
      BY ConstantAssumption
    <3>2. disk[s] # NoFile \/ (\E p \in Requests : req[p].pc # "idle" /\ req[p].route = s)
      BY <1>1, <1>4, <1>5, <2>2, <3>1
    <3> QED BY <3>2 DEF Truthful, Remembered
  <2> QED BY <1>7, <2>5, <2>6, <2>7 DEF Truthful
<1> QED BY <1>8, <1>9

\* The other steps of a request change its own locals and the traces.
LEMMA RequestTruthful ==
  ASSUME IInv, Course, Truthful, Unapplied' = Unapplied, NEW q \in Requests,
         \/ RequestClaim(q) \/ RequestRenders(q) \/ RequestRenderFails(q) \/ RequestToken(q)
         \/ RequestDrain(q) \/ RequestApply(q) \/ RequestWriteFails(q)
  PROVE  Truthful'
<1>1. /\ table \subseteq Routes /\ req \in [Requests -> RequestLocals] /\ host'.snapshot = host.snapshot
      /\ UNCHANGED <<table, tick, stale, disk, unwritten>>
  BY DEF IInv, TypeOK, RequestClaim, RequestRenders, RequestRenderFails, RequestToken, RequestDrain,
         RequestApply, RequestWriteFails, hostVars, fileVars, history
<1>2. req[q].pc # "idle" /\ \A p \in Requests \ {q} : req'[p] = req[p]
  BY <1>1 DEF RequestClaim, RequestRenders, RequestRenderFails, RequestToken, RequestDrain,
         RequestApply, RequestWriteFails, AfterReconcile, GotoReq
<1>3. req'[q].pc # "idle" => req'[q].route = req[q].route
  <2>1. CASE RequestClaim(q) \/ RequestRenders(q) \/ RequestRenderFails(q) \/ RequestToken(q)
    BY <1>1, <2>1 DEF RequestClaim, RequestRenders, RequestRenderFails, RequestToken, GotoReq, RequestLocals
  <2>2. ASSUME NEW ok, AfterReconcile(q, ok)
        PROVE  req'[q].pc # "idle" => req'[q].route = req[q].route
    BY <1>1, <2>2 DEF AfterReconcile, IdleRequest, RequestLocals
  <2>3. CASE RequestDrain(q) \/ RequestApply(q)
    <3>1. CASE \E ok \in BOOLEAN : AfterReconcile(q, ok)
      BY <2>2, <3>1
    <3>2. CASE req' = [req EXCEPT ![q].pc = "apply", ![q].drained = host.trace]
      BY <1>1, <3>2 DEF RequestLocals
    <3> QED BY <2>3, <3>1, <3>2 DEF RequestDrain, RequestApply
  <2>4. CASE RequestWriteFails(q)
    BY <1>1, <2>4 DEF RequestWriteFails, IdleRequest
  <2> QED BY <2>1, <2>3, <2>4
<1>4. \/ req'[q].bytes = NoFile
      \/ req'[q].bytes = Render(req'[q].route, host.snapshot)
      \/ req'[q].bytes = req[q].bytes /\ req'[q].route = req[q].route /\ req'[q].claim = req[q].claim
  <2>1. CASE RequestClaim(q)
    BY <1>1, <2>1 DEF RequestClaim, GotoReq, RequestLocals, IInv, RequestInv
  <2>2. CASE RequestRenders(q)
    BY <1>1, <2>2 DEF RequestRenders, RequestLocals
  <2>3. CASE RequestRenderFails(q) \/ RequestToken(q)
    BY <1>1, <2>3 DEF RequestRenderFails, RequestToken, GotoReq, RequestLocals
  <2>4. ASSUME NEW ok, AfterReconcile(q, ok)
        PROVE  req'[q].bytes = NoFile \/
                 (req'[q].bytes = req[q].bytes /\ req'[q].route = req[q].route /\ req'[q].claim = req[q].claim)
    BY <1>1, <2>4 DEF AfterReconcile, IdleRequest, RequestLocals
  <2>5. CASE RequestDrain(q) \/ RequestApply(q)
    <3>1. CASE \E ok \in BOOLEAN : AfterReconcile(q, ok)
      BY <2>4, <3>1
    <3>2. CASE req' = [req EXCEPT ![q].pc = "apply", ![q].drained = host.trace]
      BY <1>1, <3>2 DEF RequestLocals
    <3> QED BY <2>5, <3>1, <3>2 DEF RequestDrain, RequestApply
  <2>6. CASE RequestWriteFails(q)
    BY <1>1, <2>6 DEF RequestWriteFails, IdleRequest
  <2> QED BY <2>1, <2>2, <2>3, <2>5, <2>6
<1>5. Upheld' /\ InjectedUpheld'
  BY <1>1, UpheldStays DEF Swapping, Restamped
<1>6. Remembered'
  BY <1>1, <1>2, <1>3 DEF Truthful, Remembered
<1>7. Advanced'
  BY <1>1 DEF Truthful, Advanced, Selected, Render
<1>8. BytesOfEither'
  <2> SUFFICES ASSUME NEW p \in Requests, req'[p].bytes # NoFile,
                      req'[p].claim.generation = stale.generation, Swapping
               PROVE  req'[p].bytes \in {Render(req'[p].route, tick.previous), Render(req'[p].route, host.snapshot)}
    BY <1>1 DEF BytesOfEither, Swapping, Render
  <2> QED BY <1>2, <1>4 DEF Truthful, BytesOfEither
<1> QED BY <1>5, <1>6, <1>7, <1>8 DEF Truthful

LEMMA NextTruthful ==
  ASSUME ReadersAreKnown
  PROVE  IInv /\ Live /\ EdgesAreWhole /\ Course /\ Truthful /\ [Next]_vars => Course' /\ Truthful'
<1> SUFFICES ASSUME IInv, Live, EdgesAreWhole, Course, Truthful, [Next]_vars PROVE Course' /\ Truthful'
  OBVIOUS
<1>1. CASE Tick
  <2>1. CASE TickBegin
    BY <2>1, BeginCourse, PreparationTruthful
  <2>2. CASE TickPlan
    BY <2>2, PlanCourse, PreparationTruthful
  <2>3. CASE TickEnter \/ RefreshBundle \/ BeginTrace
    BY <2>3, RefreshCourse, PreparationTruthful
  <2>4. CASE SwapHost
    BY <2>4, RefreshCourse, SwapHostTruthful
  <2>5. CASE SwapTables
    BY <2>5, SwapCourse, SwapTablesTruthful
  <2>6. CASE MarkStale \/ TickReconcile \/ \E failed \in SUBSET Routes : RenderEager(failed)
    BY <2>6, ApplyCourse, RenderTruthful
  <2>7. CASE \E r \in Routes : TickWrite(r)
    BY <2>7, ApplyCourse, WriteTruthful
  <2>8. CASE \E undeletable \in SUBSET Routes : TickPrune(undeletable)
    BY <2>8, ApplyCourse, PruneTruthful
  <2>9. CASE TickFinish \/ \E r \in Routes : TickWriteFails(r)
    <3>1. ~RefreshFails
      BY <2>9 DEF TickFinish, RefreshFails, TickWriteFails
    <3> QED BY <2>9, <3>1, EndCourse, FinishTruthful
  <2>10. CASE RefreshFails
    BY <2>10, EndCourse, PreparationTruthful
  <2> QED BY <1>1, <2>1, <2>2, <2>3, <2>4, <2>5, <2>6, <2>7, <2>8, <2>9, <2>10 DEF Tick
<1>2. ASSUME NEW c \in Sources, NEW v \in Values \cup {Absent}, Edit(c, v)
      PROVE  Course' /\ Truthful'
  <2>1. Course' /\ Unapplied \subseteq Unapplied'
    BY <1>2, EditCourse
  <2>2. UNCHANGED <<table, host, tick, stale, disk, req, unwritten>> /\ table \subseteq Routes
    BY <1>2 DEF Edit, hostVars, fileVars, history, IInv, TypeOK
  <2>3. Upheld' /\ InjectedUpheld'
    BY <2>1, <2>2, UpheldStays DEF Swapping, Restamped
  <2>4. Remembered' /\ Advanced' /\ BytesOfEither'
    BY <2>2 DEF Truthful, Remembered, Advanced, BytesOfEither, Swapping, Selected, Render
  <2> QED BY <2>1, <2>3, <2>4 DEF Truthful
<1>3. ASSUME NEW q \in Requests, RequestStep(q) \/ \E r \in Routes : RequestRoute(q, r)
      PROVE  Course' /\ Truthful'
  <2>1. UNCHANGED <<src, pending, table, tick, exclusion, dropped>> /\ host'.snapshot = host.snapshot
    BY <1>3 DEF RequestStep, RequestRoute, RequestClaim, RequestRenders, RequestRenderFails, RequestToken,
       RequestDrain, RequestApply, RequestWrite, RequestWriteFails, hostVars, envVars, history, IInv, TypeOK
  <2>2. Course' /\ Unapplied' = Unapplied
    BY <2>1, RequestCourse
  <2> QED BY <1>3, <2>2, RouteTruthful, RequestWriteTruthful, RequestTruthful DEF RequestStep
<1>4. CASE UNCHANGED vars
  <2>1. /\ UNCHANGED <<src, pending, table, host, tick, exclusion, dropped, stale, disk, req, unwritten>>
        /\ table \subseteq Routes
    BY <1>4 DEF vars, IInv, TypeOK
  <2>2. Course' /\ Unapplied' = Unapplied
    BY <2>1, RequestCourse
  <2>3. Upheld' /\ InjectedUpheld'
    BY <2>1, <2>2, UpheldStays DEF Swapping, Restamped
  <2>4. Remembered' /\ Advanced' /\ BytesOfEither'
    BY <2>1 DEF Truthful, Remembered, Advanced, BytesOfEither, Swapping, Selected, Render
  <2> QED BY <2>2, <2>3, <2>4 DEF Truthful
<1> QED BY <1>1, <1>2, <1>3, <1>4 DEF Next

\* Wherever readers are known, a route that is not stale between ticks has on disk
\* what the live host renders, but for changes no tick has taken or bundled and a
\* document that a failed write left as it was: for any requests racing the ticks, any
\* edits and any failures.
THEOREM FreshIsCurrent ==
  ASSUME ReadersAreKnown
  PROVE  Spec => []FreshMeansCurrent
<1>1. IInv /\ Course /\ Truthful => FreshMeansCurrent
  <2> SUFFICES ASSUME IInv, Course, Truthful, tick.pc = "idle", NEW r \in (table \cup Injected) \ unwritten,
                      ~IsStale(stale, r), Own[r] \notin Unsettled, r \in table \/ disk[r] # NoFile
               PROVE  disk[r] # NoFile /\ \A c \in Inputs(r) \ Unsettled : disk[r][c] = host.snapshot[c]
    BY DEF FreshMeansCurrent
  <2>1. Unsettled = Unapplied /\ ~Swapping
    BY DEF Unsettled, Unapplied, Edited, Course, Phases, Swapping
  <2>2. CASE r \in table
    BY <2>1, <2>2 DEF Truthful, Upheld, Outdated
  <2>3. CASE r \in Injected /\ disk[r] # NoFile
    BY <2>1, <2>3 DEF Truthful, InjectedUpheld, Render
  <2> QED BY <2>2, <2>3
<1>2. Init => Announceable
  BY InitAnnounceable
<1>3. IInv /\ Live /\ EdgesAreWhole /\ Course /\ Truthful /\ [Next]_vars => Course' /\ Truthful'
  BY NextTruthful
<1> QED BY <1>1, <1>2, <1>3, InitAccounted, NextAccounted, NextAnnounceable, InitWhole, NextWhole, InitCourse,
           InitTruthful, Invariant, PTL DEF Spec
=============================================================================
