------------------------------ MODULE MCShell ------------------------------
(* Instance of Shell: two calls at a time, two sessions. *)
EXTENDS Shell
============================================================================
