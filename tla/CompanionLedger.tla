---------------------------- MODULE CompanionLedger ----------------------------
(***************************************************************************)
(* The two ledgers that decide which generated companion files may be      *)
(* deleted: one for the islands bundle, one for the client scripts.  Both  *)
(* keep the file names of the live generation, of a staged one, of the     *)
(* generations retained behind it and of candidates nobody has settled.    *)
(* A commit or an abort returns a new ledger and the files to delete.      *)
(***************************************************************************)
EXTENDS Naturals, Sequences

CONSTANTS Files,             \* companion file names
          Tokens,            \* resolved identities of islands builds
          RetainedIslands,   \* RETAINED_ISLANDS_GENERATIONS
          RetainedScripts,   \* RETAINED_CLIENT_SCRIPT_GENERATIONS
          Nothing            \* an empty Option

IslandsLedgers ==
  [live : SUBSET Files, staged : (SUBSET Files) \cup {Nothing},
   unresolved : SUBSET Files, baseline : SUBSET Files, retained : Seq(SUBSET Files),
   token : Tokens \cup {Nothing}, staged_token : Tokens \cup {Nothing}]

Generations == [names : SUBSET Files, changed : BOOLEAN]
ScriptLedgers ==
  [live : SUBSET Files, staged : Generations \cup {Nothing},
   unresolved : SUBSET Files, baseline : SUBSET Files, retained : Seq(SUBSET Files)]

NewIslandsLedger ==
  [live |-> {}, staged |-> Nothing, unresolved |-> {}, baseline |-> {},
   retained |-> <<>>, token |-> Nothing, staged_token |-> Nothing]
NewScriptLedger ==
  [live |-> {}, staged |-> Nothing, unresolved |-> {}, baseline |-> {}, retained |-> <<>>]

Retained(l)       == UNION {l.retained[i] : i \in DOMAIN l.retained}
Youngest(gens, n) == SubSeq(gens, 1, IF Len(gens) < n THEN Len(gens) ELSE n)
Evicted(l, n)     == UNION {l.retained[i] : i \in {j \in DOMAIN l.retained : j > n}}

(* Common to both *)
begin(l)                  == [l EXCEPT !.baseline = l.unresolved]
track_candidate(l, names) == [l EXCEPT !.unresolved = @ \cup names]
-----------------------------------------------------------------------------
(* Islands *)

invalidate_build_reuse(l) == [l EXCEPT !.token = Nothing]

stage(l, names)              == [l EXCEPT !.staged = names, !.staged_token = Nothing]
stage_build(l, names, token) == [l EXCEPT !.staged = names, !.staged_token = token]

can_reuse_build(l, token, disk) ==
  l.staged = Nothing /\ l.token = token /\ l.live \subseteq disk

AbortedIslands(l) == (l.unresolved \ l.baseline) \ (l.live \cup Retained(l))
abort_islands(l) ==
  [l EXCEPT !.staged = Nothing, !.staged_token = Nothing, !.token = Nothing,
            !.unresolved = l.baseline]

Promoted(l) ==
  IF l.staged = Nothing THEN l
  ELSE [l EXCEPT !.live = l.staged, !.staged = Nothing,
                 !.token = l.staged_token, !.staged_token = Nothing,
                 !.retained = IF l.live # {} /\ l.live # l.staged THEN <<l.live>> \o @ ELSE @]

commit_islands(l, preserve_lazy) ==
  LET next == Promoted(l)
  IN  IF preserve_lazy
      THEN [next EXCEPT !.unresolved = @ \cup next.live \cup Retained(next)]
      ELSE [next EXCEPT !.unresolved = {}, !.retained = Youngest(@, RetainedIslands)]

(* Mutant: a commit deletes although old bodies are still served. *)
PrunesUnderRetention(l, preserve_lazy) ==
  LET next == Promoted(l)
      kept == commit_islands(l, FALSE)
  IN  (next.unresolved \cup Evicted(next, RetainedIslands)) \ (kept.live \cup Retained(kept))

PrunedIslands(l, preserve_lazy) ==
  LET next == Promoted(l)
      kept == commit_islands(l, preserve_lazy)
  IN  IF preserve_lazy THEN {}
      ELSE (next.unresolved \cup Evicted(next, RetainedIslands))
             \ (kept.live \cup Retained(kept))
-----------------------------------------------------------------------------
(* Client scripts *)

(* Mutant: a build protects only the generations behind the live one. *)
LiveUnprotected(l) == Retained(l) \cup l.unresolved

protected_filenames(l) == l.live \cup Retained(l) \cup l.unresolved

stage_generation(l, names, build_changed) ==
  [l EXCEPT !.staged = [names |-> names, changed |-> build_changed \/ names # l.live]]

AbortedScripts(l) == (l.unresolved \ l.baseline) \ (l.live \cup Retained(l) \cup l.baseline)
abort_scripts(l)  == [l EXCEPT !.staged = Nothing, !.unresolved = l.baseline]

Aged(l) == [l EXCEPT !.live = l.staged.names, !.staged = Nothing, !.retained = <<l.live>> \o @]

commit_scripts(l) ==
  CASE l.staged = Nothing -> l
    [] l.staged # Nothing /\ ~l.staged.changed -> [l EXCEPT !.live = l.staged.names, !.staged = Nothing]
    [] OTHER -> [Aged(l) EXCEPT !.unresolved = {}, !.retained = Youngest(@, RetainedScripts)]

PrunedScripts(l) ==
  LET kept == commit_scripts(l)
  IN  IF l.staged = Nothing \/ ~l.staged.changed THEN {}
      ELSE (l.unresolved \cup Evicted(Aged(l), RetainedScripts)) \ (kept.live \cup Retained(kept))
=============================================================================
