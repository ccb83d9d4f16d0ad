--------------------------- MODULE ConnectionLife ---------------------------
(***************************************************************************)
(* What a connection task promises to the rest of the server.  Other parts *)
(* know a connection only by its descriptor and its registration, and the  *)
(* process by the sockets it has open: the task registers at most once,    *)
(* holds at most one upstream link and only while it is registered, gives  *)
(* its descriptor back exactly once, and ends owing nothing.               *)
(***************************************************************************)
EXTENDS Naturals

VARIABLES
    phase,  \* "accepted", "registered", "released" or "ended"
    link    \* upstream sockets: 0 or 1

vars == <<phase, link>>

Init == phase = "accepted" /\ link = 0

Register ==
    /\ phase = "accepted"
    /\ phase' = "registered"
    /\ UNCHANGED link

Dial ==
    /\ phase = "registered"
    /\ link = 0
    /\ link' = 1
    /\ UNCHANGED phase

Hangup ==
    /\ link = 1
    /\ link' = 0
    /\ UNCHANGED phase

Release ==
    /\ phase \in {"accepted", "registered"}
    /\ phase' = "released"
    /\ link' = 0

End ==
    /\ phase = "released"
    /\ phase' = "ended"
    /\ UNCHANGED link

Next == Register \/ Dial \/ Hangup \/ Release \/ End

Spec == Init /\ [][Next]_vars
=============================================================================
