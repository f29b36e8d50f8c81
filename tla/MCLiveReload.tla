----------------------------- MODULE MCLiveReload -----------------------------
(***************************************************************************)
(* Instances of LiveReload for TLC.                                        *)
(***************************************************************************)
EXTENDS LiveReload

CONSTANT tab

Quiet == [reasons |-> {}, css |-> FALSE, islands |-> "same", recovery |-> FALSE]
MCOutcomes ==
  {[Quiet EXCEPT !.reasons = {"pages_pruned"}],
   [Quiet EXCEPT !.css = TRUE],
   [Quiet EXCEPT !.islands = "components"],
   [Quiet EXCEPT !.reasons = {"pages_stale", "ssr_routes_published"}, !.css = TRUE,
                 !.islands = "changed"],
   [Quiet EXCEPT !.css = TRUE, !.recovery = TRUE]}
=============================================================================
