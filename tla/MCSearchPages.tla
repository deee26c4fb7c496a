---------------------------- MODULE MCSearchPages ----------------------------
(* An instance of SearchPages for TLC: two files and the order of their paths. *)
EXTENDS SearchPages

CONSTANTS f, g

ByPath == <<f, g>>
=============================================================================
