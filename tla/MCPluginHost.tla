----------------------------- MODULE MCPluginHost -----------------------------
(* Instances of PluginHost for TLC: a hook's call and a request's. *)
EXTENDS PluginHost

CONSTANTS hook, call
=============================================================================
