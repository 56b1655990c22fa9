--------------------------- MODULE MCScriptCache ----------------------------
(* Instances of ScriptCache for TLC. *)
EXTENDS ScriptCache
=============================================================================
