------------------------------ MODULE StaleMap ------------------------------
(***************************************************************************)
(* The stale-route map of a dev session (struct StaleRoutes of             *)
(* commands/dev.rs): which output routes must be re-rendered before they   *)
(* are served, and at which generation each of them became stale.  Every   *)
(* method of the code runs under one mutex, so every operator below is one *)
(* atomic transformation of the record.                                    *)
(*                                                                         *)
(* The hash map `entries` is a total function whose value NoEntry stands   *)
(* for an absent key.  `tick_stale` is a vector in the code that is sorted *)
(* and deduplicated when it is drained, hence a set here.                  *)
(***************************************************************************)
EXTENDS Integers

CONSTANT Routes  \* output paths, relative to the dev HTML root

NoEntry == -1

StaleRoutes == [generation       : Nat,
                entries          : [Routes -> Nat \cup {NoEntry}],
                tick_stale       : SUBSET Routes,
                dynamic_injected : SUBSET Routes]

Claims == [output_path : Routes, generation : Nat]

IsStale(s, r) == s.entries[r] # NoEntry

\* Record `paths` at the current generation and queue them for this tick's
\* outcome.
mark_stale(s, paths) ==
  [s EXCEPT !.entries = [r \in Routes |-> IF r \in paths THEN s.generation ELSE @[r]],
            !.tick_stale = @ \cup paths]

clear_stale(s, paths) ==
  [s EXCEPT !.entries = [r \in Routes |-> IF r \in paths THEN NoEntry ELSE @[r]]]

\* Mutant: vanished routes stay in this tick's announcement.
note_table_swap_announcing(s, vanished) ==
  LET generation == s.generation + 1 IN
  [s EXCEPT !.generation = generation,
            !.entries = [r \in Routes |->
                           IF r \in vanished \/ @[r] = NoEntry THEN NoEntry ELSE generation]]

\* The route tables moved: a new generation, every outstanding entry is
\* re-recorded at it, and what vanished is forgotten.
note_table_swap(s, vanished) ==
  LET generation == s.generation + 1 IN
  [s EXCEPT !.generation = generation,
            !.entries = [r \in Routes |->
                           IF r \in vanished \/ @[r] = NoEntry THEN NoEntry ELSE generation],
            !.tick_stale = @ \ vanished]

take_tick_stale(s) == [s EXCEPT !.tick_stale = {}]

claim(s, r) == [output_path |-> r, generation |-> s.entries[r]]

\* A request-time mark: no announcement, and an existing entry keeps its
\* generation.
claim_or_mark_stale(s, r) ==
  [s EXCEPT !.entries[r] = IF @ = NoEntry THEN s.generation ELSE @]

note_dynamic_injected(s, r) == [s EXCEPT !.dynamic_injected = @ \cup {r}]

restale_dynamic_injected(s) ==
  [s EXCEPT !.entries = [r \in Routes |->
                           IF r \in s.dynamic_injected THEN s.generation ELSE @[r]]]

\* Mutant: any outstanding entry validates the claim.
claim_is_current_anyhow(s, c) == IsStale(s, c.output_path)

claim_is_current(s, c) == s.entries[c.output_path] = c.generation

clear_if_current(s, c) ==
  LET recorded == s.entries[c.output_path] IN
  [s EXCEPT !.entries[c.output_path] =
              IF recorded # NoEntry /\ c.generation >= recorded THEN NoEntry ELSE @]
=============================================================================
