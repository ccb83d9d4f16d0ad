---------------------------- MODULE MCConnection ----------------------------
(***************************************************************************)
(* A configuration with two virtual hosts.  On h1 a path leads to each     *)
(* kind of backend, one to a second proxy and one to nothing; on h2 one    *)
(* path leads to a proxy of its own.  "other" is a Host header that names  *)
(* no configured host.                                                     *)
(***************************************************************************)
EXTENDS Connection

MCHosts     == {"h1", "h2"}
MCHostNames == {"h1", "h2", "other"}
MCPaths     == {"app", "app2", "chat", "files", "nowhere"}
MCBackends  == {"proxy1", "proxy2", "handler1", "dir1", "proxy3"}

MCRoute ==
    [h1 |-> [app |-> "proxy1", app2 |-> "proxy2", chat |-> "handler1",
             files |-> "dir1", nowhere |-> None],
     h2 |-> [app |-> "proxy3", app2 |-> None, chat |-> None,
             files |-> None, nowhere |-> None]]

MCBackendType ==
    [proxy1 |-> "PROXY", proxy2 |-> "PROXY", proxy3 |-> "PROXY",
     handler1 |-> "HANDLER", dir1 |-> "DIRECTORY"]
=============================================================================
