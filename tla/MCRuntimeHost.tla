---------------------------- MODULE MCRuntimeHost ----------------------------
(* An instance of RuntimeHost for TLC: two extensions that want the same names, *)
(* with manifests that gain and lose capabilities, items and hooks.             *)
EXTENDS RuntimeHost

M(name, capabilities, items, hks) ==
  [name |-> name, capabilities |-> capabilities, items |-> items, hooks |-> hks]

FewManifests ==
  {M("a", {"tool_register"}, {<<"tool", "x">>}, {}),
   M("a", {"tool_register", "event_hook_register"}, {<<"tool", "y">>}, {"h"}),
   M("a", {"event_hook_register"}, {}, {}),
   M("b", {"tool_register"}, {<<"tool", "x">>}, {}),
   M("b", {"tool_register", "command_register"}, {<<"command", "x">>}, {}),
   M("b", {}, {<<"tool", "y">>}, {})}
=============================================================================
