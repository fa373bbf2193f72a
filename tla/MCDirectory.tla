---------------------------- MODULE MCDirectory ----------------------------
(* Directory for TLC: paths of one or two names. *)
EXTENDS Directory, TLC
CONSTANTS a, p1, p2

MCPaths == {<<a>>, <<a, a>>, <<Up, a>>}
MCCallsOf == p1 :> {"mkdir", "remove"} @@ p2 :> {"create", "remove", "open", "chdir"}
=============================================================================
