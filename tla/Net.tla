-------------------------------- MODULE Net ---------------------------------
(***************************************************************************)
(* The sockets that src/task/net.c makes: netannounce, netaccept and       *)
(* netdial with netlookup and parseip, called by tasks of one process.  A  *)
(* call is suspended in fdwait.  When the wait lists have no room, fdwait  *)
(* switches the task away before it returns -1, and nothing readies it     *)
(* (src/task/fd.c, module FdTask): such a call never goes on.              *)
(*                                                                         *)
(* A name is the sequence of its parts between dots: numbers, or words.    *)
(***************************************************************************)
EXTENDS Null, Integers, Sequences, FiniteSets

CONSTANTS
    Callers,    \* tasks that dial
    Sockets,    \* the descriptor numbers
    Names,      \* names to dial
    WORD,       \* a part of a name that is not a number
    Resolved    \* the address that the resolver has for every name it knows

(* The resolver is asked for what is not an address. *)
ASSUME NetAssumption ==
    /\ Sockets \subseteq Nat
    /\ WORD \notin Nat
    /\ Names \subseteq Seq(Nat \cup {WORD})
    /\ \A name \in DOMAIN Resolved : \E i \in 1..4 : i <= Len(name) /\ name[i] = WORD

VARIABLES
    open,     \* [Sockets -> the socket: what it is for and the address it connects to, or NULL]
    dial,     \* [Callers -> NULL, or the call of netdial: the name and its descriptor]
    dialled,  \* [Callers -> NULL, or what the last netdial returned]
    kept,     \* the descriptors that were returned and not closed
    stuck     \* tasks in netdial whose fdwait found no room

netvars == <<open, dial, dialled, kept, stuck>>

NetInit ==
    /\ open = [s \in Sockets |-> NULL]
    /\ dial = [t \in Callers |-> NULL] /\ dialled = [t \in Callers |-> NULL]
    /\ kept = {}
    /\ stuck = {}

-----------------------------------------------------------------------------
CLASS(byte) == byte \div 64

(* Where the parts of a short address go; NULL when there are too few. *)
Placed(b, parts) ==
    CASE parts = 4 \/ CLASS(b[1]) = 3 -> b
      [] parts = 3 /\ CLASS(b[1]) \in {0, 1} -> [b EXCEPT ![4] = b[3], ![3] = b[2], ![2] = 0]
      [] parts = 3 /\ CLASS(b[1]) = 2 -> [b EXCEPT ![4] = b[3], ![3] = 0]
      [] parts = 2 /\ CLASS(b[1]) \in {0, 1} -> [b EXCEPT ![4] = b[2], ![3] = 0, ![2] = 0]
      [] OTHER -> NULL

(* parseip: the first four parts; bytes that no part sets have what the stack had. *)
parseip(name, stack) ==
    LET parts == IF Len(name) < 4 THEN Len(name) ELSE 4 IN
    IF \E i \in 1..parts : name[i] = WORD \/ name[i] \notin 0..255 THEN NULL
    ELSE Placed([i \in 1..4 |-> IF i <= parts THEN name[i] ELSE stack], parts)

(* netlookup *)
netlookup(name, stack) ==
    IF parseip(name, stack) # NULL THEN parseip(name, stack)
    ELSE IF name \in DOMAIN Resolved THEN Resolved[name] ELSE NULL

-----------------------------------------------------------------------------
(* socket, or accept: the lowest number that is free. *)
Lowest == CHOOSE s \in Sockets : open[s] = NULL /\ \A r \in Sockets : open[r] = NULL => s <= r
Opened(kind, peer) == [open EXCEPT ![Lowest] = [kind |-> kind, peer |-> peer]]
HasRoom == \E s \in Sockets : open[s] = NULL

(* NULL is no socket and no call. *)
Peers == {netlookup(name, stack) : name \in Names, stack \in {0, 200}} \cup {NULL}
Socket == [kind : {"listen", "client", "dial"}, peer : Peers]
Call == [name : Names, fd : Sockets \cup {-1}]

ASSUME NetNullAssumption == NULL \notin Socket /\ NULL \notin Call

Busy == {dial[t].fd : t \in {t \in Callers : dial[t] # NULL}}

(* bind fails when the port is taken, and the socket is closed again. *)
netannounce ==
    /\ HasRoom
    /\ \A s \in Sockets : open[s] # NULL => open[s].kind # "listen"
    /\ open' = Opened("listen", NULL)
    /\ kept' = kept \cup {Lowest}
    /\ UNCHANGED <<dial, dialled, stuck>>

(* netaccept, once fdwait has returned; without room it does not return. *)
netaccept ==
    /\ HasRoom
    /\ \E s \in kept : open[s].kind = "listen"
    /\ open' = Opened("client", NULL)
    /\ kept' = kept \cup {Lowest}
    /\ UNCHANGED <<dial, dialled, stuck>>

Return(t, result) ==
    /\ dial' = [dial EXCEPT ![t] = NULL]
    /\ dialled' = [dialled EXCEPT ![t] = result]

(* netdial up to the wait: the look-up, a socket, connect, which may fail at once, and     *)
(* fdwait, which may find no room.                                                         *)
netdial(t, name, stack) ==
    LET ip == netlookup(name, stack) IN
    /\ dial[t] = NULL /\ dialled[t] = NULL
    /\ IF ip = NULL \/ ~HasRoom
       THEN /\ Return(t, [name |-> name, fd |-> -1])
            /\ UNCHANGED <<open, kept, stuck>>
       ELSE /\ open' = Opened("dial", ip)
            /\ dial' = [dial EXCEPT ![t] = [name |-> name, fd |-> Lowest]]
            /\ \E room \in BOOLEAN : stuck' = IF room THEN stuck ELSE stuck \cup {t}
            /\ UNCHANGED <<dialled, kept>>

(* fdtask has readied the task. *)
Waited(t) == dial[t] # NULL /\ t \notin stuck

netdial_connected(t) ==
    /\ Waited(t)
    /\ Return(t, dial[t])
    /\ kept' = kept \cup {dial[t].fd}
    /\ UNCHANGED <<open, stuck>>

(* mutant: the socket of a refused connection stays open *)
netdial_refused_Open(t) ==
    /\ Waited(t)
    /\ Return(t, [name |-> dial[t].name, fd |-> -1])
    /\ UNCHANGED <<open, kept, stuck>>

(* connect fails, or getpeername says so afterwards. *)
netdial_refused(t) ==
    /\ Waited(t)
    /\ open' = [open EXCEPT ![dial[t].fd] = NULL]
    /\ Return(t, [name |-> dial[t].name, fd |-> -1])
    /\ UNCHANGED <<kept, stuck>>

(* fdclose: whoever got a descriptor is done with it. *)
close_kept(s) ==
    /\ s \in kept
    /\ open' = [open EXCEPT ![s] = NULL]
    /\ kept' = kept \ {s}
    /\ dialled' = [t \in Callers |->
                    IF dialled[t] # NULL /\ dialled[t].fd = s THEN NULL ELSE dialled[t]]
    /\ UNCHANGED <<dial, stuck>>

(* A task that got no connection goes on to its next call. *)
Again(t) ==
    /\ dialled[t] # NULL /\ dialled[t].fd = -1
    /\ dialled' = [dialled EXCEPT ![t] = NULL]
    /\ UNCHANGED <<open, dial, kept, stuck>>

NetNext ==
    \/ netannounce \/ netaccept
    \/ \E t \in Callers :
        \/ \E name \in Names, stack \in {0, 200} : netdial(t, name, stack)
        \/ netdial_connected(t) \/ netdial_refused(t) \/ Again(t)
    \/ \E s \in Sockets : close_kept(s)

NetSpec == NetInit /\ [][NetNext]_netvars

-----------------------------------------------------------------------------
(* netdial: whichever way the calls of several tasks end, an open descriptor belongs to   *)
(* who got it or to one call that is under way, never to both.  A call whose wait found no *)
(* room stays under way, with its descriptor.                                              *)
DescriptorsAccounted ==
    /\ {s \in Sockets : open[s] # NULL} = kept \cup Busy
    /\ kept \cap Busy = {}
    /\ \A t, u \in Callers :
        dial[t] # NULL /\ dial[u] # NULL /\ dial[t].fd = dial[u].fd => t = u

Octets(name) == Len(name) = 4 /\ \A i \in 1..4 : name[i] \in 0..255

(* netlookup: a connection that netdial returns goes to the address that the name is, or   *)
(* that the resolver has for it.  An address in two or three parts begins with the first   *)
(* part and ends with the last, but one of class C or without parts has random bytes.      *)
DialsTheNamedHost ==
    \A t \in Callers : dialled[t] # NULL /\ dialled[t].fd # -1 =>
        LET name == dialled[t].name
            peer == open[dialled[t].fd].peer
            first == IF Len(name) = 0 THEN 255 ELSE name[1] IN
        /\ Octets(name) => peer = name
        /\ name \in DOMAIN Resolved => peer = Resolved[name]
        /\ Len(name) \in {2, 3} /\ WORD \notin {name[i] : i \in DOMAIN name} /\ first < 192 =>
            peer[1] = first /\ peer[4] = name[Len(name)]

(***************************************************************************)
(* task/net.c: every socket that a failed or finished call has opened is   *)
(* closed or owned by one, and it is the named host that was dialled.      *)
(***************************************************************************)
SocketsAccounted ==
    /\ DescriptorsAccounted /\ DialsTheNamedHost
=============================================================================
