------------------------------ MODULE MCProcess -------------------------------
(***************************************************************************)
(* The process around the connections.  A behaviour is about one of its    *)
(* parts: signals and reloads (Lifecycle), the PID file (PidFile), the     *)
(* files of a directory (Dir), or its sockets (Net).                       *)
(***************************************************************************)
EXTENDS Lifecycle, PidFile, Dir, Net

VARIABLE part       \* "life", "pid", "dir" or "net"

vars == <<lifevars, pidvars, dirvars, netvars, part>>

(* In the behaviours of another part a module stays in its first initial state. *)
Init ==
    /\ LifeInit /\ PidInit /\ DirInit /\ NetInit
    /\ part \in {"life", "pid", "dir", "net"}
    /\ part # "pid" => chrooted
    /\ part # "dir" => ~ssl

Life == part = "life" /\ LifeNext /\ UNCHANGED <<pidvars, dirvars, netvars, part>>
Pid == part = "pid" /\ PidNext /\ UNCHANGED <<lifevars, dirvars, netvars, part>>
Files == part = "dir" /\ DirNext /\ UNCHANGED <<lifevars, pidvars, netvars, part>>
Network == part = "net" /\ NetNext /\ UNCHANGED <<lifevars, pidvars, dirvars, part>>

Next == Life \/ Pid \/ Files \/ Network

(* The main task goes on: poll reports what it waits for, delays end, and some client *)
(* connects again.                                                                    *)
Spec ==
    /\ Init /\ [][Next]_vars
    /\ WF_vars(part = "life" /\ MainStep /\ UNCHANGED <<pidvars, dirvars, netvars, part>>)

(* Two connections with three descriptors and one reload; three processes; two clients of *)
(* two files and a directory over a cache of two records; two tasks that dial hosts over  *)
(* three descriptors.                                                                     *)

MCPathSeq == <<"a", "b", "c">>

\* Addresses of the three classes in four parts and in fewer, a part that is too large, names.
MCNames == {<<10, 1, 2, 3>>, <<10, 1>>, <<172, 1, 2>>, <<200, 1>>, <<>>, <<10, 256, 1, 1>>,
            <<WORD, WORD>>, <<10, WORD>>}
MCResolved == [n \in {<<WORD, WORD>>, <<10, WORD>>} |-> <<127, 0, 0, Len(n)>>]
=============================================================================
