----------------------------- MODULE MCEngineCache ----------------------------
(* Two dialers, two nodes, an old and a new configuration and a pool of one   *)
(* engine: replacements, evictions and duplicate creations for one node all   *)
(* happen within three calls.                                                 *)
EXTENDS EngineCache

CONSTANTS d1, d2, n1, n2, e1, e2, e3, old, new

===============================================================================
