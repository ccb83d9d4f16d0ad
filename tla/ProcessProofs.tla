--------------------------- MODULE ProcessProofs ----------------------------
(***************************************************************************)
(* Proofs about the process around the connections, for any number of      *)
(* server processes, dialling tasks, descriptors, connections, reloads,    *)
(* paths and slots of the cache: the PID file (PidFile), the sockets of    *)
(* netdial (Net), reload and shutdown (Lifecycle), and the file records of *)
(* a directory (Dir).                                                      *)
(***************************************************************************)
EXTENDS PidFile, Net, Lifecycle, Dir, FiniteSetTheorems, FunctionTheorems, TLAPS

(***************************************************************************)
(*                             The PID file                                *)
(*                                                                         *)
(* The file of a running server is safe from a process that starts: as     *)
(* long as the server listens, by the port, which only one process has;    *)
(* and once it has closed its socket, by what the starting process has     *)
(* read in the file.                                                       *)
(***************************************************************************)
PidTypeOK ==
    /\ proc \in [Procs -> {"new", "loaded", "read", "cleared", "jailed", "test", "written", "serving",
                           "draining", "exited", "dead"}]
    /\ seen \in [Procs -> Procs \cup {NULL}]
    /\ port \in Procs \cup {NULL} /\ pidfile \in Procs \cup {NULL}

(* From load_server until terminate a process has the port. *)
HasPort(p) == proc[p] \in {"loaded", "read", "cleared", "jailed", "test", "written", "serving"}

OneHasThePort == \A p \in Procs : HasPort(p) => port = p

(* Between Unixy_pid_read and unlink the file does not change, unless it disappears. *)
SeenIsTheFile == \A p \in Procs : proc[p] = "read" => seen[p] \in Procs /\ pidfile \in {seen[p], NULL}

PidInv ==
    /\ PidTypeOK /\ OneHasThePort /\ SeenIsTheFile
    /\ PidFileNamesTheServer /\ CleanExitRemovesFile

(* Before any process starts there is neither port nor file. *)
LEMMA PidInitInv == PidInit => PidInv
  BY PidAssumption DEF PidInit, PidInv, PidTypeOK, OneHasThePort, HasPort, SeenIsTheFile,
     PidFileNamesTheServer, CleanExitRemovesFile

(* A process that ends without cleanup leaves the file and frees only its own port. *)
LEMMA DieInv ==
    ASSUME PidInv, NEW p \in Procs, Die(p)
    PROVE  PidInv'
<1> USE PidAssumption DEF PidInv, Die, At
<1>1. PidTypeOK'
  BY DEF PidTypeOK
<1>2. OneHasThePort'
  BY DEF OneHasThePort, HasPort, PidTypeOK
<1>3. SeenIsTheFile' /\ PidFileNamesTheServer' /\ CleanExitRemovesFile'
  BY DEF SeenIsTheFile, PidFileNamesTheServer, CleanExitRemovesFile, PidTypeOK
<1> QED BY <1>1, <1>2, <1>3

(* Starting: the port, the file of a process that is gone, the own file. *)
LEMMA StartInv ==
    ASSUME PidInv, NEW p \in Procs, load_server(p) \/ clear_pid_file(p) \/ attempt_chroot_drop(p)
    PROVE  PidInv'
<1> USE PidAssumption DEF PidInv, At
<1>1. CASE load_server(p)
  <2>1. CASE port = NULL
    BY <1>1, <2>1 DEF load_server, PidTypeOK, OneHasThePort, HasPort, SeenIsTheFile,
       PidFileNamesTheServer, CleanExitRemovesFile
  <2> QED BY <1>1, <2>1, DieInv DEF load_server
<1>2. CASE Unixy_pid_read(p)
  BY <1>2 DEF Unixy_pid_read, PidTypeOK, OneHasThePort, HasPort, SeenIsTheFile,
     PidFileNamesTheServer, CleanExitRemovesFile
<1>3. CASE Unixy_remove_dead_pidfile(p)
  <2>1. CASE Unixy_still_running(p) \/ pidfile = NULL
    BY <1>3, <2>1, DieInv DEF Unixy_remove_dead_pidfile
  <2>2. CASE ~(Unixy_still_running(p) \/ pidfile = NULL)
    <3>1. /\ proc[p] = "read" /\ port = p /\ pidfile = seen[p] /\ seen[p] \in Procs
          /\ proc[seen[p]] \in {"new", "exited", "dead"}
      BY <1>3, <2>2 DEF Unixy_remove_dead_pidfile, Unixy_still_running, Alive, OneHasThePort, HasPort,
         SeenIsTheFile
    <3>2. \A q \in Procs : proc[q] \notin {"written", "serving", "draining"}
      BY <3>1 DEF PidFileNamesTheServer
    <3>3. \A q \in Procs : proc[q] = "read" => q = p
      BY <3>1 DEF OneHasThePort, HasPort
    <3>4. /\ proc' = [proc EXCEPT ![p] = "cleared"] /\ pidfile' = NULL
          /\ UNCHANGED <<seen, port, chrooted, reloaded>>
      BY <1>3, <2>2 DEF Unixy_remove_dead_pidfile
    <3> QED BY <3>1, <3>2, <3>3, <3>4
        DEF PidTypeOK, OneHasThePort, HasPort, SeenIsTheFile, PidFileNamesTheServer, CleanExitRemovesFile
  <2> QED BY <2>1, <2>2
<1>4. CASE Unixy_chroot(p) \/ Unixy_drop_priv(p)
  BY <1>4 DEF Unixy_chroot, Unixy_drop_priv, PidTypeOK, OneHasThePort, HasPort, SeenIsTheFile,
     PidFileNamesTheServer, CleanExitRemovesFile
<1>5. CASE Unixy_pid_file(p)
  <2>1. CASE pidfile # NULL
    BY <1>5, <2>1, DieInv DEF Unixy_pid_file
  <2>2. CASE pidfile = NULL
    <3>1. \A q \in Procs : proc[q] \notin {"written", "serving", "draining"}
      BY <2>2 DEF PidFileNamesTheServer
    <3>2. proc[p] \in {"jailed", "test"} /\ port = p
      BY <1>5 DEF Unixy_pid_file, OneHasThePort, HasPort
    <3>3. \A q \in Procs : proc[q] # "read"
      BY <3>2 DEF OneHasThePort, HasPort
    <3> QED BY <1>5, <2>2, <3>1, <3>2, <3>3
        DEF Unixy_pid_file, PidTypeOK, OneHasThePort, HasPort, SeenIsTheFile, PidFileNamesTheServer,
            CleanExitRemovesFile
  <2> QED BY <2>1, <2>2
<1> QED BY <1>1, <1>2, <1>3, <1>4, <1>5 DEF clear_pid_file, attempt_chroot_drop

(* Serving and stopping: a process removes no file but its own. *)
LEMMA StopInv ==
    ASSUME PidInv, NEW p \in Procs, reload_path(p) \/ StopListening(p) \/ Unlink(p)
    PROVE  PidInv'
<1> USE PidAssumption DEF PidInv, At
<1>1. CASE reload_path(p)
  BY <1>1 DEF reload_path, PidTypeOK, OneHasThePort, HasPort, SeenIsTheFile, PidFileNamesTheServer,
     CleanExitRemovesFile
<1>2. CASE StopListening(p)
  BY <1>2 DEF StopListening, PidTypeOK, OneHasThePort, HasPort, SeenIsTheFile, PidFileNamesTheServer,
     CleanExitRemovesFile
<1>3. CASE Unlink(p)
  <2>1. /\ proc[p] = "draining" /\ pidfile = p
        /\ \A q \in Procs \ {p} : proc[q] \notin {"written", "serving", "draining"}
    BY <1>3 DEF Unlink, PidFileNamesTheServer
  <2> QED BY <1>3, <2>1 DEF Unlink, RemovesFile, PidTypeOK, OneHasThePort, HasPort, SeenIsTheFile,
         PidFileNamesTheServer, CleanExitRemovesFile
<1> QED BY <1>1, <1>2, <1>3

(* The inductive invariant holds in every reachable state. *)
THEOREM PidInvariant == PidSpec => []PidInv
<1>1. ASSUME PidInv, UNCHANGED pidvars PROVE PidInv'
  BY <1>1 DEF pidvars, PidInv, PidTypeOK, OneHasThePort, HasPort, SeenIsTheFile, PidFileNamesTheServer,
     CleanExitRemovesFile
<1>2. PidInv /\ [PidNext]_pidvars => PidInv'
  BY <1>1, DieInv, StartInv, StopInv DEF PidNext
<1> QED BY <1>2, PidInitInv, PTL DEF PidSpec

(***************************************************************************)
(* unixy.c, mongrel2.c: whatever crashes, and however the starts and stops *)
(* of any number of servers overlap, the PID file names the server that is *)
(* running until it has exited, and a clean exit removes the file.         *)
(***************************************************************************)
THEOREM PidFileIsTrue == PidSpec => []PidFileTellsTheServer
  BY PidInvariant, PTL DEF PidInv, PidFileTellsTheServer

(***************************************************************************)
(*                           Numbers of descriptors                        *)
(***************************************************************************)
(* There is a lowest number in every set of them. *)
LEMMA SmallestNumber ==
    ASSUME NEW T, T \subseteq Nat, T # {}
    PROVE  \E x \in T : \A y \in T : x <= y
<1> DEFINE less == {ss \in Nat \X Nat : ss[1] < ss[2]}
<1>1. IsWellFoundedOn(less, Nat)
  BY NatLessThanWellFounded, Zenon DEF OpToRel
<1>2. PICK x \in T : \A y \in T : <<y, x>> \notin less
  <2> HIDE DEF less
  <2> QED BY <1>1, WFMin
<1>3. ASSUME NEW y \in T PROVE x <= y
  <2>1. x \in Nat /\ y \in Nat /\ ~(y < x)
    BY <1>2
  <2> QED BY <2>1
<1> QED BY <1>3

(* socket and accept return a number that is free. *)
LEMMA LowestIsFree ==
    ASSUME HasRoom
    PROVE  Lowest \in Sockets /\ open[Lowest] = NULL
<1> DEFINE free == {s \in Sockets : open[s] = NULL}
<1>1. \E s \in free : \A r \in free : s <= r
  <2>1. free \subseteq Nat /\ free # {}
    BY NetAssumption DEF HasRoom
  <2> HIDE DEF free
  <2> QED BY <2>1, SmallestNumber
<1>2. \E s \in Sockets : open[s] = NULL /\ \A r \in Sockets : open[r] = NULL => s <= r
  BY <1>1
<1> QED BY <1>2 DEF Lowest

(***************************************************************************)
(*                               netdial                                   *)
(*                                                                         *)
(* Sockets are lost only by a wait that finds no room, because at any time *)
(* each of them belongs to one call that is under way, or to one that has  *)
(* returned.                                                               *)
(***************************************************************************)
(* A short address has its first part first and its last part last, unless it is of class D. *)
LEMMA PlacedShort ==
    ASSUME NEW b \in [1..4 -> Nat], b[1] \in 0..191, NEW parts \in {2, 3}, Placed(b, parts) # NULL
    PROVE  Placed(b, parts)[1] = b[1] /\ Placed(b, parts)[4] = b[parts]
<1>1. /\ DOMAIN b = 1..4
      /\ 1 \in 1..4 /\ 2 \in 1..4 /\ 3 \in 1..4 /\ 4 \in 1..4
  OBVIOUS
<1>2. PICK first \in 0..191 : b[1] = first
  OBVIOUS
<1>3. first \div 64 \in {0, 1, 2}
  OBVIOUS
<1>4. CLASS(b[1]) \in {0, 1, 2}
  BY <1>2, <1>3 DEF CLASS
<1>5. CASE parts = 2
  <2>1. CLASS(b[1]) \in {0, 1}
    BY <1>4, <1>5 DEF Placed
  <2>2. Placed(b, parts) = [b EXCEPT ![4] = b[2], ![3] = 0, ![2] = 0]
    <3> DEFINE class == CLASS(b[1])
    <3>1. class # 3 /\ class \in {0, 1}
      BY <2>1
    <3> HIDE DEF class
    <3>2. Placed(b, parts) =
            CASE parts = 4 \/ class = 3 -> b
              [] parts = 3 /\ class \in {0, 1} -> [b EXCEPT ![4] = b[3], ![3] = b[2], ![2] = 0]
              [] parts = 3 /\ class = 2 -> [b EXCEPT ![4] = b[3], ![3] = 0]
              [] parts = 2 /\ class \in {0, 1} -> [b EXCEPT ![4] = b[2], ![3] = 0, ![2] = 0]
              [] OTHER -> NULL
      BY DEF Placed, class
    <3> QED BY <1>5, <3>1, <3>2
  <2> QED BY <1>1, <1>5, <2>2
<1>6. CASE parts = 3
  <2>1. \/ Placed(b, parts) = [b EXCEPT ![4] = b[3], ![3] = b[2], ![2] = 0]
        \/ Placed(b, parts) = [b EXCEPT ![4] = b[3], ![3] = 0]
    BY <1>4, <1>6 DEF Placed
  <2> QED BY <1>1, <1>6, <2>1
<1> QED BY <1>5, <1>6

(* netlookup gives the address that the name is, that the resolver has for it, or that its *)
(* parts say.                                                                              *)
LEMMA LookupIsFaithful ==
    ASSUME NEW name \in Names, NEW stack \in {0, 200}, NEW peer, peer = netlookup(name, stack), peer # NULL
    PROVE  LET first == IF Len(name) = 0 THEN 255 ELSE name[1] IN
           /\ Octets(name) => peer = name
           /\ name \in DOMAIN Resolved => peer = Resolved[name]
           /\ Len(name) \in {2, 3} /\ WORD \notin {name[i] : i \in DOMAIN name} /\ first < 192 =>
                peer[1] = first /\ peer[4] = name[Len(name)]
<1> USE NetAssumption
<1> DEFINE parts == IF Len(name) < 4 THEN Len(name) ELSE 4
           b == [i \in 1..4 |-> IF i <= parts THEN name[i] ELSE stack]
           word == \E i \in 1..parts : name[i] = WORD \/ name[i] \notin 0..255
<1>0. \A octet \in 0..255 : octet # WORD
  OBVIOUS
<1>1. /\ name \in Seq(Nat \cup {WORD}) /\ Len(name) \in Nat
      /\ DOMAIN name = 1 .. Len(name)
      /\ parts \in 0..4 /\ parts <= Len(name)
  <2>1. name \in Seq(Nat \cup {WORD})
    OBVIOUS
  <2>2. Len(name) \in Nat /\ DOMAIN name = 1 .. Len(name)
    BY <2>1
  <2> QED BY <2>1, <2>2
<1>2. parseip(name, stack) = IF word THEN NULL ELSE Placed(b, parts)
  BY DEF parseip
<1>3. ASSUME name \in DOMAIN Resolved
      PROVE  word /\ peer = Resolved[name]
  <2>1. PICK i \in 1..4 : i <= Len(name) /\ name[i] = WORD
    BY <1>3
  <2>2. i \in 1..parts
    BY <1>1, <2>1
  <2>3. word
    BY <2>1, <2>2
  <2> HIDE DEF word, b, parts
  <2>4. parseip(name, stack) = NULL
    BY <1>2, <2>3
  <2> QED BY <1>3, <2>3, <2>4 DEF netlookup
<1>4. ASSUME ~word
      PROVE  peer = Placed(b, parts)
  <2> HIDE DEF word, b, parts
  <2>1. parseip(name, stack) = Placed(b, parts)
    BY <1>2, <1>4
  <2>2. name \notin DOMAIN Resolved
    BY <1>3, <1>4
  <2> QED BY <2>1, <2>2 DEF netlookup
<1>5. ASSUME Octets(name)
      PROVE  peer = name
  <2>1. Len(name) = 4 /\ parts = 4 /\ ~word
    <3>1. Len(name) = 4 /\ parts = 4 /\ \A i \in 1..4 : name[i] \in 0..255
      BY <1>5 DEF Octets
    <3>2. \A i \in 1..4 : name[i] # WORD
      BY <1>0, <3>1, Zenon
    <3> QED BY <3>1, <3>2
  <2>2. b = name
    <3>1. \A i \in 1..4 : b[i] = name[i]
      BY <2>1
    <3> QED BY <1>1, <2>1, <3>1
  <2> HIDE DEF b, parts, word
  <2> QED BY <1>4, <2>1, <2>2 DEF Placed
<1>6. ASSUME Len(name) \in {2, 3}, WORD \notin {name[i] : i \in DOMAIN name}, name[1] < 192
      PROVE  peer[1] = name[1] /\ peer[4] = name[Len(name)]
  <2>1. parts = Len(name) /\ name \notin DOMAIN Resolved
    <3>1. parts = Len(name)
      BY <1>1, <1>6
    <3>2. \A i \in 1..4 : i <= Len(name) => name[i] # WORD
      BY <1>1, <1>6
    <3> QED BY <3>1, <3>2
  <2>2. ~word
    <3>1. ASSUME word PROVE FALSE
      <4> HIDE DEF word, b, parts
      <4>1. parseip(name, stack) = NULL
        BY <1>2, <3>1
      <4> QED BY <2>1, <4>1 DEF netlookup
    <3> QED BY <3>1
  <2>3. \A i \in 1..parts : b[i] = name[i] /\ name[i] \in 0..255
    BY <1>1, <2>1, <2>2
  <2>4. b \in [1..4 -> Nat]
    <3>1. \A i \in 1..4 : b[i] \in Nat
      BY <1>1, <2>2
    <3> QED BY <3>1
  <2>5. peer = Placed(b, parts)
    BY <1>4, <2>2
  <2> HIDE DEF b, word, parts
  <2>6. parts \in {2, 3} /\ 1 \in 1..parts /\ parts \in 1..parts
    BY <1>6, <2>1
  <2>7. b[1] = name[1] /\ b[parts] = name[Len(name)] /\ b[1] \in 0..191
    <3>1. b[1] = name[1] /\ b[parts] = name[parts] /\ name[1] \in 0..255
      BY <2>3, <2>6
    <3>2. PICK first \in 0..255 : name[1] = first
      BY <3>1
    <3>3. first < 192
      BY <1>6, <3>2
    <3>4. name[1] \in 0..191
      BY <3>2, <3>3
    <3> QED BY <2>1, <3>1, <3>4
  <2>8. Placed(b, parts)[1] = b[1] /\ Placed(b, parts)[4] = b[parts]
    <3>1. Placed(b, parts) # NULL
      BY <2>5
    <3>2. b[1] \in 0..191 /\ parts \in {2, 3}
      BY <2>6, <2>7
    <3> QED BY <2>4, <3>1, <3>2, PlacedShort
  <2> QED BY <2>5, <2>7, <2>8
<1> HIDE DEF parts, b, word
<1> QED BY <1>1, <1>3, <1>5, <1>6

NetTypeOK ==
    /\ open \in [Sockets -> Socket \cup {NULL}]
    /\ dial \in [Callers -> Call \cup {NULL}] /\ dialled \in [Callers -> Call \cup {NULL}]
    /\ kept \subseteq Sockets
    /\ stuck \subseteq Callers

IsAddressOf(peer, name) == peer # NULL /\ \E stack \in {0, 200} : peer = netlookup(name, stack)

(* A call under way has an open socket, which is connecting to what the name stands for. *)
CallsHaveSockets ==
    \A t \in Callers : dial[t] # NULL =>
        /\ dial[t].fd \in Sockets \ kept /\ open[dial[t].fd] # NULL
        /\ IsAddressOf(open[dial[t].fd].peer, dial[t].name)

CallsHaveTheirOwn ==
    \A t, u \in Callers : dial[t] # NULL /\ dial[u] # NULL /\ dial[t].fd = dial[u].fd => t = u

KeptAreOpen == \A s \in kept : open[s] # NULL

(* So has a call that has returned a descriptor, until it is closed. *)
ConnectionsAreKept ==
    \A t \in Callers : dialled[t] # NULL /\ dialled[t].fd # -1 =>
        /\ dialled[t].fd \in kept
        /\ IsAddressOf(open[dialled[t].fd].peer, dialled[t].name)

Lost == {s \in Sockets : /\ open[s] # NULL /\ s \notin kept
                         /\ \A t \in Callers : dial[t] # NULL => dial[t].fd # s}

NoneIsLost == Lost = {}

NetInv ==
    /\ NetTypeOK /\ CallsHaveSockets /\ CallsHaveTheirOwn /\ KeptAreOpen /\ ConnectionsAreKept
    /\ NoneIsLost

(* At first nothing is open. *)
LEMMA NetInitInv == NetInit => NetInv
<1> SUFFICES ASSUME NetInit PROVE NetInv
  OBVIOUS
<1>1. NetTypeOK /\ CallsHaveSockets /\ CallsHaveTheirOwn /\ KeptAreOpen /\ ConnectionsAreKept
  BY DEF NetInit, NetTypeOK, CallsHaveSockets, CallsHaveTheirOwn, KeptAreOpen, ConnectionsAreKept
<1>2. Lost = {}
  BY DEF NetInit, Lost
<1> QED BY <1>1, <1>2 DEF NetInv, NoneIsLost

(* netannounce and netaccept: the new descriptor is kept. *)
LEMMA ListenInv ==
    ASSUME NetInv, NEW kind \in {"listen", "client"}, HasRoom, open' = Opened(kind, NULL),
           kept' = kept \cup {Lowest}, UNCHANGED <<dial, dialled, stuck>>
    PROVE  NetInv'
<1> USE DEF NetInv
<1>1. Lowest \in Sockets /\ open[Lowest] = NULL
  BY LowestIsFree
<1>2. [kind |-> kind, peer |-> NULL] \in Socket
  BY DEF Socket, Peers
<1> DEFINE l == Lowest
           new == [kind |-> kind, peer |-> NULL]
<1>3. /\ open' = [open EXCEPT ![l] = new] /\ kept' = kept \cup {l}
      /\ dial' = dial /\ dialled' = dialled /\ stuck' = stuck
      /\ l \in Sockets /\ open[l] = NULL /\ new \in Socket /\ new # NULL
  BY <1>1, <1>2, NetNullAssumption DEF Opened
<1> HIDE DEF l, new
<1>4. NetTypeOK'
  BY <1>3 DEF NetTypeOK
<1>5. CallsHaveSockets'
  BY <1>3 DEF CallsHaveSockets, NetTypeOK
<1>6. CallsHaveTheirOwn'
  BY <1>3 DEF CallsHaveTheirOwn
<1>7. KeptAreOpen'
  BY <1>3 DEF KeptAreOpen, NetTypeOK
<1>8. ConnectionsAreKept'
  BY <1>3 DEF ConnectionsAreKept, KeptAreOpen, NetTypeOK
<1>9. Lost' = Lost
  BY <1>3 DEF Lost, NetTypeOK
<1> QED BY <1>3, <1>4, <1>5, <1>6, <1>7, <1>8, <1>9 DEF NoneIsLost

(* netdial: the call gets a descriptor of its own, or returns at once. *)
LEMMA DialInv ==
    ASSUME NetInv, NEW t \in Callers, NEW name \in Names, NEW stack \in {0, 200},
           netdial(t, name, stack)
    PROVE  NetInv'
<1> USE DEF NetInv
<1> DEFINE ip == netlookup(name, stack)
<1>1. dial[t] = NULL /\ dialled[t] = NULL
  BY DEF netdial
<1>2. CASE ip = NULL \/ ~HasRoom
  <2> DEFINE none == [name |-> name, fd |-> -1]
  <2>1. none \in Call /\ none.fd = -1 /\ none # NULL
    BY NetNullAssumption DEF Call
  <2>2. /\ dial' = [dial EXCEPT ![t] = NULL] /\ dialled' = [dialled EXCEPT ![t] = none]
        /\ open' = open /\ kept' = kept /\ stuck' = stuck
    BY <1>2 DEF netdial, Return
  <2> HIDE DEF none
  <2>3. NetTypeOK' /\ KeptAreOpen'
    BY <2>1, <2>2 DEF NetTypeOK, KeptAreOpen
  <2>4. dial' = dial
    BY <1>1, <2>2 DEF NetTypeOK
  <2>5. CallsHaveSockets' /\ CallsHaveTheirOwn'
    BY <2>2, <2>4 DEF CallsHaveSockets, CallsHaveTheirOwn
  <2>6. ConnectionsAreKept'
    BY <2>1, <2>2 DEF ConnectionsAreKept, NetTypeOK
  <2>7. Lost' = Lost
    BY <2>2, <2>4 DEF Lost
  <2> QED BY <2>2, <2>3, <2>5, <2>6, <2>7 DEF NoneIsLost
<1>3. CASE ip # NULL /\ HasRoom
  <2> DEFINE l == Lowest
             new == [kind |-> "dial", peer |-> ip]
             call == [name |-> name, fd |-> l]
  <2>1. /\ open' = [open EXCEPT ![l] = new] /\ dial' = [dial EXCEPT ![t] = call]
        /\ kept' = kept /\ dialled' = dialled /\ stuck' \subseteq Callers
    BY <1>3 DEF netdial, Opened, NetTypeOK
  <2>2. /\ l \in Sockets /\ open[l] = NULL
        /\ new \in Socket /\ new # NULL /\ new.peer = ip
        /\ call \in Call /\ call # NULL /\ call.fd = l /\ call.name = name
    <3>1. l \in Sockets /\ open[l] = NULL
      BY <1>3, LowestIsFree
    <3>2. ip \in Peers
      BY DEF Peers
    <3>3. new \in Socket /\ call \in Call
      BY <3>1, <3>2 DEF Socket, Call
    <3> QED BY <3>1, <3>3, NetNullAssumption
  <2>3. IsAddressOf(new.peer, call.name)
    BY <1>3, <2>2 DEF IsAddressOf
  <2> HIDE DEF ip, l, new, call
  <2>4. l \notin kept /\ \A u \in Callers : dial[u] # NULL => dial[u].fd # l
    BY <2>2 DEF KeptAreOpen, CallsHaveSockets
  <2>5. NetTypeOK'
    BY <2>1, <2>2 DEF NetTypeOK
  <2>6. CallsHaveSockets'
    BY <2>1, <2>2, <2>3, <2>4 DEF CallsHaveSockets, NetTypeOK
  <2>7. CallsHaveTheirOwn'
    BY <2>1, <2>2, <2>4 DEF CallsHaveTheirOwn, NetTypeOK
  <2>8. KeptAreOpen' /\ ConnectionsAreKept'
    BY <2>1, <2>2, <2>4 DEF KeptAreOpen, ConnectionsAreKept, NetTypeOK
  <2>9. Lost' = Lost
    BY <1>1, <2>1, <2>2 DEF Lost, NetTypeOK
  <2> QED BY <2>1, <2>5, <2>6, <2>7, <2>8, <2>9 DEF NoneIsLost
<1> QED BY <1>2, <1>3

(* A call that is over owns its descriptor no longer: once connected it is kept, and *)
(* otherwise it is closed.                                                           *)
LEMMA DialEndsInv ==
    ASSUME NetInv, NEW t \in Callers,
           netdial_connected(t) \/ netdial_refused(t)
    PROVE  NetInv'
<1> USE DEF NetInv
<1> DEFINE fd == dial[t].fd
           none == [name |-> dial[t].name, fd |-> -1]
<1>1. /\ dial[t] # NULL /\ dial[t] \in Call
      /\ fd \in Sockets \ kept /\ open[fd] # NULL
      /\ IsAddressOf(open[fd].peer, dial[t].name)
      /\ \A u \in Callers \ {t} : dial[u] # NULL => dial[u].fd # fd
  BY DEF netdial_connected, netdial_refused, Waited, NetTypeOK, CallsHaveSockets,
     CallsHaveTheirOwn
<1>2. none \in Call /\ none.fd = -1 /\ none # NULL
  BY <1>1, NetNullAssumption DEF Call
<1>3. dial' = [dial EXCEPT ![t] = NULL]
  BY DEF netdial_connected, netdial_refused, Waited, Return
<1>4. fd # -1
  <2>1. fd \in Nat
    BY <1>1, NetAssumption
  <2> QED BY <2>1
<1>6. CASE netdial_connected(t)
  <2>1. /\ dialled' = [dialled EXCEPT ![t] = dial[t]] /\ stuck' = stuck
        /\ open' = open /\ kept' = kept \cup {fd}
    BY <1>6 DEF netdial_connected, Return
  <2>2. NetTypeOK'
    BY <1>1, <1>3, <2>1 DEF NetTypeOK
  <2>3. CallsHaveSockets' /\ CallsHaveTheirOwn' /\ KeptAreOpen'
    BY <1>1, <1>3, <2>1 DEF CallsHaveSockets, CallsHaveTheirOwn, KeptAreOpen, NetTypeOK
  <2>4. ConnectionsAreKept'
    BY <1>1, <2>1 DEF ConnectionsAreKept, NetTypeOK
  <2>5. Lost' = Lost
    BY <1>1, <1>3, <2>1 DEF Lost, NetTypeOK
  <2> QED BY <2>1, <2>2, <2>3, <2>4, <2>5 DEF NoneIsLost
<1>7. CASE netdial_refused(t)
  <2>1. /\ dialled' = [dialled EXCEPT ![t] = none] /\ stuck' = stuck
        /\ open' = [open EXCEPT ![fd] = NULL] /\ kept' = kept
    BY <1>7 DEF netdial_refused, Return
  <2> HIDE DEF none
  <2>2. NetTypeOK'
    BY <1>1, <1>2, <1>3, <2>1 DEF NetTypeOK
  <2>3. CallsHaveSockets' /\ CallsHaveTheirOwn' /\ KeptAreOpen'
    BY <1>1, <1>3, <2>1 DEF CallsHaveSockets, CallsHaveTheirOwn, KeptAreOpen, NetTypeOK
  <2>4. ConnectionsAreKept'
    BY <1>1, <1>2, <2>1 DEF ConnectionsAreKept, NetTypeOK
  <2>5. Lost' = Lost
    BY <1>1, <1>3, <2>1 DEF Lost, NetTypeOK
  <2> QED BY <2>1, <2>2, <2>3, <2>4, <2>5 DEF NoneIsLost
<1> QED BY <1>6, <1>7

(* Who has a connection closes it, and a call may come again. *)
LEMMA DoneInv ==
    ASSUME NetInv,
           (\E t \in Callers : Again(t)) \/ (\E s \in Sockets : close_kept(s))
    PROVE  NetInv'
<1> USE DEF NetInv
<1>1. ASSUME NEW t \in Callers, Again(t) PROVE NetInv'
  <2>1. Lost' = Lost
    BY <1>1 DEF Again, Lost
  <2> QED BY <1>1, <2>1 DEF Again, NetTypeOK, CallsHaveSockets, CallsHaveTheirOwn, KeptAreOpen,
         ConnectionsAreKept, NoneIsLost
<1>2. ASSUME NEW s \in Sockets, close_kept(s) PROVE NetInv'
  <2>1. /\ s \in kept /\ open' = [open EXCEPT ![s] = NULL] /\ kept' = kept \ {s}
        /\ dialled' = [t \in Callers |->
                        IF dialled[t] # NULL /\ dialled[t].fd = s THEN NULL ELSE dialled[t]]
        /\ dial' = dial /\ stuck' = stuck
    BY <1>2 DEF close_kept
  <2>2. NetTypeOK'
    BY <2>1 DEF NetTypeOK
  <2>3. CallsHaveSockets' /\ CallsHaveTheirOwn' /\ KeptAreOpen'
    BY <2>1 DEF CallsHaveSockets, CallsHaveTheirOwn, KeptAreOpen, NetTypeOK
  <2>4. ConnectionsAreKept'
    BY <2>1 DEF ConnectionsAreKept, NetTypeOK
  <2>5. Lost' = Lost
    BY <2>1 DEF Lost, NetTypeOK
  <2> QED BY <2>1, <2>2, <2>3, <2>4, <2>5 DEF NoneIsLost
<1> QED BY <1>1, <1>2

(* What holds of the sockets between any two steps of the calls. *)
THEOREM NetInvariant == NetSpec => []NetInv
<1>1. ASSUME NetInv, UNCHANGED netvars PROVE NetInv'
  <2>1. Lost' = Lost
    BY <1>1 DEF netvars, Lost
  <2> QED BY <1>1, <2>1 DEF netvars, NetInv, NetTypeOK, CallsHaveSockets, CallsHaveTheirOwn,
         KeptAreOpen, ConnectionsAreKept, NoneIsLost
<1>2. ASSUME NetInv, netannounce \/ netaccept PROVE NetInv'
  BY <1>2, ListenInv DEF netannounce, netaccept
<1>3. NetInv /\ [NetNext]_netvars => NetInv'
  BY <1>1, <1>2, DialInv, DialEndsInv, DoneInv DEF NetNext
<1> QED BY <1>3, NetInitInv, PTL DEF NetSpec

(***************************************************************************)
(* task/net.c: however the calls of any number of tasks overlap and end,   *)
(* an open socket is owned by one call or by who got it, and it is the     *)
(* named host that was dialled.  A call whose wait found no room is under  *)
(* way for ever, and its socket with it.                                   *)
(***************************************************************************)
THEOREM SocketsAreAccounted == NetSpec => []SocketsAccounted
<1>1. ASSUME NetInv PROVE DescriptorsAccounted
  <2>1. kept \cup Busy \subseteq {s \in Sockets : open[s] # NULL} /\ kept \cap Busy = {}
    BY <1>1 DEF NetInv, NetTypeOK, KeptAreOpen, CallsHaveSockets, Busy
  <2>2. {s \in Sockets : open[s] # NULL} \ (kept \cup Busy) = {}
    BY <1>1 DEF NetInv, NoneIsLost, Lost, Busy
  <2> QED BY <1>1, <2>1, <2>2 DEF DescriptorsAccounted, NetInv, CallsHaveTheirOwn
<1>2. ASSUME NetInv PROVE DialsTheNamedHost
  <2>1. SUFFICES ASSUME NEW t \in Callers, dialled[t] # NULL /\ dialled[t].fd # -1
                 PROVE  LET name == dialled[t].name
                            peer == open[dialled[t].fd].peer
                            first == IF Len(name) = 0 THEN 255 ELSE name[1] IN
                        /\ Octets(name) => peer = name
                        /\ name \in DOMAIN Resolved => peer = Resolved[name]
                        /\ Len(name) \in {2, 3} /\ WORD \notin {name[i] : i \in DOMAIN name} /\ first < 192 =>
                            peer[1] = first /\ peer[4] = name[Len(name)]
    BY DEF DialsTheNamedHost
  <2> DEFINE name == dialled[t].name
             peer == open[dialled[t].fd].peer
  <2>2. name \in Names
    BY <1>2, <2>1 DEF NetInv, NetTypeOK, Call
  <2>3. PICK stack \in {0, 200} : peer = netlookup(name, stack) /\ peer # NULL
    BY <1>2, <2>1 DEF NetInv, ConnectionsAreKept, IsAddressOf
  <2> HIDE DEF name, peer
  <2>4. /\ Octets(name) => peer = name
        /\ name \in DOMAIN Resolved => peer = Resolved[name]
        /\ /\ Len(name) \in {2, 3} /\ WORD \notin {name[i] : i \in DOMAIN name}
           /\ (IF Len(name) = 0 THEN 255 ELSE name[1]) < 192
           => peer[1] = (IF Len(name) = 0 THEN 255 ELSE name[1]) /\ peer[4] = name[Len(name)]
    BY <2>2, <2>3, LookupIsFaithful
  <2> QED BY <2>4 DEF name, peer
<1> QED BY <1>1, <1>2, NetInvariant, PTL DEF SocketsAccounted

(***************************************************************************)
(*                         Reload and shutdown                             *)
(*                                                                         *)
(* Until somebody asks the server to stop, the number in SERVER names the  *)
(* listening socket and every connection's numbers name its own            *)
(* descriptors: so no close hits what is another's.  A handler that waits  *)
(* for messages is running, or freed memory has been used already.         *)
(***************************************************************************)
LifeTypeOK ==
    /\ main \in [pc : {"accept", "stopping", "drain"}, idle : BOOLEAN, why : {"run", "reload", "shutdown"}]
    /\ fds \in [Fds -> Conns \cup {"listen", NULL}]
    /\ listen_fd \in Fds /\ gen \in Gens
    /\ handler \in [Gens -> [running : BOOLEAN, freed : BOOLEAN,
                             task : {"none", "bind", "recv", "lost", "deliver", "exited"}]]
    /\ conn \in [Conns -> Connection \cup {NULL}]
    /\ asked \in BOOLEAN /\ stolen \in BOOLEAN

(* A shutdown is final. *)
ShutdownStays ==
    /\ main.why = "shutdown" => main.pc # "accept"
    /\ main.pc = "drain" => main.why = "shutdown"

Undisturbed == ~asked /\ main.why # "shutdown"

NumbersAreTrue ==
    Undisturbed =>
        /\ ~stolen
        /\ fds[listen_fd] = "listen"
        /\ \A c \in Conns : conn[c] # NULL =>
            /\ fds[conn[c].fd] = c
            /\ conn[c].other # NULL => conn[c].other # conn[c].fd /\ fds[conn[c].other] = c

(* The handler is told to stop before the main task gives its task time to see it. *)
StoppedHandlersExit ==
    /\ main.pc = "stopping" /\ exit = NULL => ~handler[gen].running
    /\ \A g \in Gens : ~handler[g].running /\ ~handler[g].freed => handler[g].task # "recv"

LifeInv ==
    /\ LifeTypeOK /\ ShutdownStays /\ NumbersAreTrue /\ StoppedHandlersExit /\ ReceiversExitFirst

(* The process starts with a listener and one handler. *)
LEMMA LifeInitInv == LifeInit => LifeInv
<1> SUFFICES ASSUME LifeInit PROVE LifeInv
  OBVIOUS
<1> USE LifecycleAssumption
<1> DEFINE first == [NoHandler EXCEPT !.running = TRUE, !.task = "bind"]
<1>1. /\ handler = [g \in Gens |-> IF g = 1 THEN first ELSE NoHandler]
      /\ first \in [running : BOOLEAN, freed : BOOLEAN,
                    task : {"none", "bind", "recv", "lost", "deliver", "exited"}]
      /\ NoHandler \in [running : BOOLEAN, freed : BOOLEAN,
                        task : {"none", "bind", "recv", "lost", "deliver", "exited"}]
      /\ first.task # "recv" /\ NoHandler.task # "recv"
  BY DEF LifeInit, NoHandler
<1> HIDE DEF first
<1>2. 1 \in Gens
  BY DEF Gens
<1>3. LifeTypeOK
  <2>1. main \in [pc : {"accept", "stopping", "drain"}, idle : BOOLEAN,
                  why : {"run", "reload", "shutdown"}]
    BY DEF LifeInit
  <2>2. fds \in [Fds -> Conns \cup {"listen", NULL}] /\ conn \in [Conns -> Connection \cup {NULL}]
    BY DEF LifeInit
  <2>3. handler \in [Gens -> [running : BOOLEAN, freed : BOOLEAN,
                              task : {"none", "bind", "recv", "lost", "deliver", "exited"}]]
    BY <1>1
  <2> QED BY <1>2, <2>1, <2>2, <2>3 DEF LifeInit, LifeTypeOK
<1>4. ShutdownStays /\ NumbersAreTrue
  BY DEF LifeInit, ShutdownStays, NumbersAreTrue
<1>5. StoppedHandlersExit /\ ReceiversExitFirst
  BY <1>1, <1>2 DEF LifeInit, StoppedHandlersExit, ReceiversExitFirst
<1> QED BY <1>3, <1>4, <1>5 DEF LifeInv

(* socket, accept and dup return a number that is free. *)
LEMMA FreeNumber ==
    ASSUME FreeFds(fds) # {}
    PROVE  Min(FreeFds(fds)) \in Fds /\ fds[Min(FreeFds(fds))] = NULL
<1>1. FreeFds(fds) \subseteq Nat /\ FreeFds(fds) # {}
  BY LifecycleAssumption DEF FreeFds
<1>2. Min(FreeFds(fds)) \in FreeFds(fds)
  BY <1>1, SmallestNumber DEF Min
<1> QED BY <1>2 DEF FreeFds

(* A signal: from the first one that asks for a stop nothing is promised of the numbers. *)
LEMMA SignalInv ==
    ASSUME LifeInv, terminate
    PROVE  LifeInv'
<1> USE DEF LifeInv
<1>1. UNCHANGED <<main, listen_fd, gen, handler, conn, exit, touched>>
  BY DEF terminate
<1>2. ShutdownStays' /\ StoppedHandlersExit' /\ ReceiversExitFirst'
  BY <1>1 DEF ShutdownStays, StoppedHandlersExit, ReceiversExitFirst
<1>3. ASSUME SigHup PROVE LifeInv'
  <2>1. UNCHANGED <<fds, stolen, asked>>
    BY <1>3 DEF SigHup
  <2>2. LifeTypeOK' /\ NumbersAreTrue'
    BY <1>1, <2>1 DEF LifeTypeOK, NumbersAreTrue, Undisturbed
  <2> QED BY <1>2, <2>2
<1>4. ASSUME NEW term \in BOOLEAN, SigStop(term) PROVE LifeInv'
  <2>1. asked'
    BY <1>4 DEF SigStop
  <2>2. NumbersAreTrue'
    BY <2>1 DEF NumbersAreTrue, Undisturbed
  <2>3. fds' \in [Fds -> Conns \cup {"listen", NULL}] /\ stolen' \in BOOLEAN
    BY <1>4 DEF SigStop, fdclose, LifeTypeOK
  <2> QED BY <1>1, <1>2, <1>4, <2>1, <2>2, <2>3 DEF LifeTypeOK, SigStop
<1> QED BY <1>3, <1>4 DEF terminate

(* shutdown_handler leaves a handler that does not run, and its task not at a message. *)
LEMMA StoppedHandler ==
    ASSUME LifeInv, StopHandlers
    PROVE  /\ handler' \in [Gens -> [running : BOOLEAN, freed : BOOLEAN,
                                     task : {"none", "bind", "recv", "lost", "deliver", "exited"}]]
           /\ ~handler'[gen].running
           /\ \A g \in Gens : handler'[g].freed <=> handler[g].freed
           /\ \A g \in Gens : handler'[g].task = "recv" => handler[g].task = "recv"
           /\ \A g \in Gens : ~handler'[g].running /\ ~handler'[g].freed => handler'[g].task # "recv"
<1> DEFINE h == handler[gen]
           next == shutdown_handler(h)
<1>1. /\ gen \in Gens /\ handler' = [handler EXCEPT ![gen] = next]
      /\ handler \in [Gens -> [running : BOOLEAN, freed : BOOLEAN,
                               task : {"none", "bind", "recv", "lost", "deliver", "exited"}]]
  BY DEF StopHandlers, LifeInv, LifeTypeOK
<1>2. h \in [running : BOOLEAN, freed : BOOLEAN,
             task : {"none", "bind", "recv", "lost", "deliver", "exited"}]
  BY <1>1
<1>3. /\ next \in [running : BOOLEAN, freed : BOOLEAN,
                   task : {"none", "bind", "recv", "lost", "deliver", "exited"}]
      /\ ~next.running /\ (next.freed <=> h.freed)
      /\ next.task = "recv" => h.task = "recv" /\ ~h.running
  BY <1>2 DEF shutdown_handler, Nuked
<1>4. \A g \in Gens : ~handler[g].running /\ ~handler[g].freed => handler[g].task # "recv"
  BY DEF LifeInv, StoppedHandlersExit
<1> HIDE DEF next
<1> QED BY <1>1, <1>3, <1>4

(* What the connections and the listener do not notice keeps the numbers true. *)
LEMMA NumbersKept ==
    ASSUME NumbersAreTrue, Undisturbed' => Undisturbed, UNCHANGED <<fds, listen_fd, conn, stolen>>
    PROVE  NumbersAreTrue'
  BY DEF NumbersAreTrue

(* A new connection gets a free number. *)
LEMMA AcceptInv ==
    ASSUME LifeInv, NEW c \in Conns, Accept(c)
    PROVE  LifeInv'
<1> USE DEF LifeInv
<1> DEFINE n == Min(FreeFds(fds))
           new == [gen |-> gen, fd |-> n, other |-> NULL]
<1>1. /\ main.pc = "accept" /\ exit = NULL /\ conn[c] = NULL
      /\ conn' = [conn EXCEPT ![c] = new] /\ fds' = [fds EXCEPT ![n] = c]
      /\ UNCHANGED <<listen_fd, gen, stolen, signals, asked, touched>>
      /\ IF RUNNING THEN Wait /\ UNCHANGED <<Flags, handler, exit>> ELSE reload_server
  BY DEF Accept, Ghosts
<1>2. n \in Fds /\ fds[n] = NULL
  BY FreeNumber DEF Accept
<1>3. /\ new \in Connection /\ new # NULL /\ new.fd = n /\ new.other = NULL
  BY <1>2, LifecycleAssumption DEF Connection, LifeTypeOK
<1> HIDE DEF n, new
<1>4. NumbersAreTrue'
  <2>1. SUFFICES ASSUME Undisturbed' PROVE NumbersAreTrue'
    BY DEF NumbersAreTrue
  <2>2. Undisturbed
    BY <1>1, <2>1 DEF Undisturbed, ShutdownStays
  <2>3. /\ ~stolen /\ fds[listen_fd] = "listen"
        /\ \A d \in Conns : conn[d] # NULL =>
            /\ fds[conn[d].fd] = d
            /\ conn[d].other # NULL => conn[d].other # conn[d].fd /\ fds[conn[d].other] = d
    BY <2>2 DEF NumbersAreTrue
  <2>4. ~stolen' /\ fds'[listen_fd'] = "listen"
    BY <1>1, <1>2, <2>3, LifecycleAssumption DEF LifeTypeOK
  <2>5. ASSUME NEW d \in Conns, conn'[d] # NULL
        PROVE  /\ fds'[conn'[d].fd] = d
               /\ conn'[d].other # NULL => conn'[d].other # conn'[d].fd /\ fds'[conn'[d].other] = d
    <3>1. CASE d = c
      BY <1>1, <1>2, <1>3, <3>1 DEF LifeTypeOK
    <3>2. CASE d # c
      <4>1. conn'[d] = conn[d] /\ conn[d] # NULL /\ conn[d] \in Connection
        BY <1>1, <2>5, <3>2 DEF LifeTypeOK
      <4>2. fds[conn[d].fd] # NULL /\ (conn[d].other # NULL => fds[conn[d].other] # NULL)
        BY <2>3, <4>1, LifecycleAssumption
      <4>3. /\ conn[d].fd \in Fds /\ conn[d].other \in Fds \cup {NULL}
        BY <4>1 DEF Connection
      <4> QED BY <1>1, <1>2, <2>3, <4>1, <4>2, <4>3 DEF LifeTypeOK
    <3> QED BY <3>1, <3>2
  <2> QED BY <2>4, <2>5 DEF NumbersAreTrue
<1>5. /\ fds' \in [Fds -> Conns \cup {"listen", NULL}]
      /\ conn' \in [Conns -> Connection \cup {NULL}]
  BY <1>1, <1>2, <1>3 DEF LifeTypeOK
<1>6. CASE RUNNING
  <2>1. /\ \E idle \in BOOLEAN : main' = [pc |-> "accept", idle |-> idle, why |-> "run"]
        /\ UNCHANGED <<handler, exit>>
    BY <1>1, <1>6 DEF Wait
  <2>2. LifeTypeOK' /\ ShutdownStays'
    BY <1>1, <1>5, <2>1 DEF LifeTypeOK, ShutdownStays
  <2>3. StoppedHandlersExit' /\ ReceiversExitFirst'
    BY <1>1, <2>1 DEF StoppedHandlersExit, ReceiversExitFirst
  <2> QED BY <1>4, <2>2, <2>3
<1>7. CASE ~RUNNING
  <2>1. /\ main' = [pc |-> "stopping", idle |-> FALSE, why |-> "reload"]
        /\ StopHandlers
    BY <1>1, <1>7 DEF reload_server
  <2>2. LifeTypeOK' /\ ShutdownStays'
    BY <1>1, <1>5, <2>1, StoppedHandler DEF LifeTypeOK, ShutdownStays
  <2>3. StoppedHandlersExit' /\ ReceiversExitFirst'
    BY <1>1, <2>1, StoppedHandler DEF StoppedHandlersExit, ReceiversExitFirst
  <2> QED BY <1>4, <2>2, <2>3
<1> QED BY <1>6, <1>7

(* The accept fails: nothing of the numbers changes, or the shutdown begins. *)
LEMMA AcceptFailsInv ==
    ASSUME LifeInv, AcceptFails
    PROVE  LifeInv'
<1> USE DEF LifeInv
<1>1. /\ main.pc = "accept" /\ StopHandlers
      /\ UNCHANGED <<listen_fd, gen, conn, signals, asked, touched>>
      /\ \/ /\ main' = [pc |-> "stopping", idle |-> FALSE, why |-> "reload"]
            /\ UNCHANGED <<fds, stolen>>
         \/ /\ main' = [pc |-> "stopping", idle |-> FALSE, why |-> "shutdown"]
            /\ fdclose(listen_fd)
  BY DEF AcceptFails, Ghosts, reload_server, complete_shutdown
<1>2. fds' \in [Fds -> Conns \cup {"listen", NULL}] /\ stolen' \in BOOLEAN
  BY <1>1 DEF fdclose, LifeTypeOK
<1>3. LifeTypeOK' /\ ShutdownStays'
  <2>1. /\ main' \in [pc : {"accept", "stopping", "drain"}, idle : BOOLEAN,
                      why : {"run", "reload", "shutdown"}]
        /\ main'.pc = "stopping"
    <3>1. \/ main' = [pc |-> "stopping", idle |-> FALSE, why |-> "reload"]
          \/ main' = [pc |-> "stopping", idle |-> FALSE, why |-> "shutdown"]
      BY <1>1
    <3>2. CASE main' = [pc |-> "stopping", idle |-> FALSE, why |-> "reload"]
      BY <3>2
    <3>3. CASE main' = [pc |-> "stopping", idle |-> FALSE, why |-> "shutdown"]
      BY <3>3
    <3> QED BY <3>1, <3>2, <3>3
  <2> QED BY <1>1, <1>2, <2>1, StoppedHandler DEF LifeTypeOK, ShutdownStays
<1>4. NumbersAreTrue'
  <2>1. CASE main'.why = "shutdown"
    BY <2>1 DEF NumbersAreTrue, Undisturbed
  <2>2. CASE main'.why # "shutdown"
    <3>1. UNCHANGED <<fds, stolen>> /\ main.why # "shutdown"
      BY <1>1, <2>2 DEF ShutdownStays
    <3> QED BY <1>1, <3>1, NumbersKept DEF Undisturbed
  <2> QED BY <2>1, <2>2
<1>5. StoppedHandlersExit' /\ ReceiversExitFirst'
  <2>1. StopHandlers /\ gen' = gen /\ touched' = touched
    BY <1>1
  <2>2. /\ ~handler'[gen].running
        /\ \A g \in Gens : handler'[g].freed <=> handler[g].freed
        /\ \A g \in Gens : handler'[g].task = "recv" => handler[g].task = "recv"
        /\ \A g \in Gens : ~handler'[g].running /\ ~handler'[g].freed => handler'[g].task # "recv"
    BY <2>1, StoppedHandler
  <2>3. StoppedHandlersExit'
    BY <2>1, <2>2 DEF StoppedHandlersExit
  <2>4. ReceiversExitFirst'
    BY <2>1, <2>2 DEF ReceiversExitFirst
  <2> QED BY <2>3, <2>4
<1> QED BY <1>3, <1>4, <1>5

(* The rest of a reload: the listening socket moves to a free number. *)
LEMMA ReloadInv ==
    ASSUME LifeInv, Reloaded
    PROVE  LifeInv'
<1> USE DEF LifeInv
<1> DEFINE n == Min(FreeFds(fds))
           closed == [handler[gen] EXCEPT !.freed = TRUE]
<1>1. /\ main.pc = "stopping" /\ main.why = "reload" /\ exit = NULL
      /\ gen < MaxGens /\ gen' = gen + 1
      /\ fds[listen_fd] # NULL
      /\ listen_fd' = n
      /\ fds' = [fds EXCEPT ![n] = fds[listen_fd], ![listen_fd] = NULL]
      /\ stolen' = (stolen \/ fds[listen_fd] \in Conns)
      /\ handler' = [handler EXCEPT ![gen] = closed, ![gen + 1] = FreshHandler]
      /\ UNCHANGED <<conn, signals, asked, touched>>
      /\ \/ main' = main /\ exit' = "crash"
         \/ Wait /\ exit' = exit
  BY DEF Reloaded, DupListen, Closed, Ghosts
<1>2. n \in Fds /\ fds[n] = NULL
  BY FreeNumber DEF Reloaded
<1> HIDE DEF n
<1>3. gen \in Gens /\ gen + 1 \in Gens /\ gen # gen + 1
  BY <1>1, LifecycleAssumption DEF LifeTypeOK, Gens
<1>4. /\ FreshHandler \in [running : BOOLEAN, freed : BOOLEAN,
                           task : {"none", "bind", "recv", "lost", "deliver", "exited"}]
      /\ FreshHandler.running
  BY DEF FreshHandler
<1>5. /\ closed \in [running : BOOLEAN, freed : BOOLEAN,
                     task : {"none", "bind", "recv", "lost", "deliver", "exited"}]
      /\ closed.freed /\ (closed.task # "recv" \/ touched # {})
  <2>1. handler[gen] \in [running : BOOLEAN, freed : BOOLEAN,
                          task : {"none", "bind", "recv", "lost", "deliver", "exited"}]
    BY <1>3 DEF LifeTypeOK
  <2>2. handler[gen].task # "recv" \/ touched # {}
    BY <1>1, <1>3 DEF StoppedHandlersExit, ReceiversExitFirst
  <2> QED BY <2>1, <2>2
<1> HIDE DEF closed
<1>6. /\ main' \in [pc : {"accept", "stopping", "drain"}, idle : BOOLEAN,
                    why : {"run", "reload", "shutdown"}]
      /\ main'.why # "shutdown" /\ main'.pc # "drain"
      /\ exit' = NULL => main'.pc = "accept"
  <2>1. CASE main' = main /\ exit' = "crash"
    <3>1. exit' # NULL
      BY <2>1, LifecycleAssumption
    <3> QED BY <1>1, <2>1, <3>1 DEF LifeTypeOK
  <2>2. CASE Wait /\ exit' = exit
    BY <2>2 DEF Wait
  <2> QED BY <1>1, <2>1, <2>2
<1>7. /\ fds' \in [Fds -> Conns \cup {"listen", NULL}]
      /\ handler' \in [Gens -> [running : BOOLEAN, freed : BOOLEAN,
                                task : {"none", "bind", "recv", "lost", "deliver", "exited"}]]
      /\ stolen' \in BOOLEAN
  BY <1>1, <1>2, <1>3, <1>4, <1>5 DEF LifeTypeOK
<1>8. LifeTypeOK' /\ ShutdownStays'
  BY <1>1, <1>2, <1>3, <1>6, <1>7 DEF LifeTypeOK, ShutdownStays
<1>9. NumbersAreTrue'
  <2>1. SUFFICES ASSUME Undisturbed' PROVE NumbersAreTrue'
    BY DEF NumbersAreTrue
  <2>2. Undisturbed
    BY <1>1, <2>1 DEF Undisturbed
  <2>3. /\ ~stolen /\ fds[listen_fd] = "listen"
        /\ \A d \in Conns : conn[d] # NULL =>
            /\ fds[conn[d].fd] = d
            /\ conn[d].other # NULL => conn[d].other # conn[d].fd /\ fds[conn[d].other] = d
    BY <2>2 DEF NumbersAreTrue
  <2>4. listen_fd # n /\ listen_fd \in Fds
    BY <1>2, <2>3, LifecycleAssumption DEF LifeTypeOK
  <2>5. ~stolen' /\ fds'[listen_fd'] = "listen"
    BY <1>1, <1>2, <2>3, <2>4, LifecycleAssumption DEF LifeTypeOK
  <2>6. ASSUME NEW d \in Conns, conn[d] # NULL
        PROVE  /\ fds'[conn[d].fd] = d
               /\ conn[d].other # NULL => conn[d].other # conn[d].fd /\ fds'[conn[d].other] = d
    <3>1. d # NULL /\ d # "listen"
      BY LifecycleAssumption
    <3>2. conn[d].fd \in Fds /\ conn[d].other \in Fds \cup {NULL}
      BY <2>6 DEF LifeTypeOK, Connection
    <3>3. \A k \in Fds : fds[k] = d => fds'[k] = d
      BY <1>1, <1>2, <2>3, <3>1 DEF LifeTypeOK
    <3> QED BY <2>3, <2>6, <3>2, <3>3
  <2> QED BY <1>1, <2>5, <2>6 DEF NumbersAreTrue
<1>10. StoppedHandlersExit'
  <2>1. main'.pc = "stopping" => exit' # NULL
    BY <1>6
  <2>2. \A g \in Gens : ~handler'[g].running /\ ~handler'[g].freed => handler'[g].task # "recv"
    <3>1. \A g \in Gens : ~handler[g].running /\ ~handler[g].freed => handler[g].task # "recv"
      BY DEF StoppedHandlersExit
    <3> QED BY <1>1, <1>3, <1>4, <1>5, <3>1 DEF LifeTypeOK
  <2> QED BY <2>1, <2>2 DEF StoppedHandlersExit
<1>11. ReceiversExitFirst'
  <2>1. FreshHandler.task # "recv"
    BY DEF FreshHandler
  <2> QED BY <1>1, <1>3, <1>5, <2>1 DEF ReceiversExitFirst, LifeTypeOK
<1> QED BY <1>8, <1>9, <1>10, <1>11

(* A reload that fails, and a shutdown, free the handler as well. *)
LEMMA CloseHandlersInv ==
    ASSUME LifeInv, ReloadFails \/ Draining
    PROVE  LifeInv'
<1> USE DEF LifeInv
<1> DEFINE closed == [handler[gen] EXCEPT !.freed = TRUE]
<1>1. /\ main.pc = "stopping" /\ exit = NULL
      /\ handler' = [handler EXCEPT ![gen] = closed]
      /\ UNCHANGED <<fds, listen_fd, gen, conn, stolen, signals, asked, touched>>
      /\ \/ main' = main /\ exit' = "1"
         \/ main' = [main EXCEPT !.pc = "drain"] /\ main.why = "shutdown"
  BY DEF ReloadFails, Draining, Closed, Ghosts
<1>2. /\ closed \in [running : BOOLEAN, freed : BOOLEAN,
                     task : {"none", "bind", "recv", "lost", "deliver", "exited"}]
      /\ closed.freed /\ ~closed.running /\ (closed.task # "recv" \/ touched # {})
  <2>1. handler[gen] \in [running : BOOLEAN, freed : BOOLEAN,
                          task : {"none", "bind", "recv", "lost", "deliver", "exited"}]
    BY DEF LifeTypeOK
  <2>2. ~handler[gen].running /\ (handler[gen].task # "recv" \/ touched # {})
    BY <1>1 DEF StoppedHandlersExit, ReceiversExitFirst, LifeTypeOK
  <2> QED BY <2>1, <2>2
<1> HIDE DEF closed
<1>3. /\ main' \in [pc : {"accept", "stopping", "drain"}, idle : BOOLEAN,
                    why : {"run", "reload", "shutdown"}]
      /\ main'.why = main.why
      /\ main'.pc \in {"stopping", "drain"} /\ (main'.pc = "drain" => main.why = "shutdown")
  <2>1. CASE main' = main
    BY <1>1, <2>1 DEF LifeTypeOK
  <2>2. CASE main' = [main EXCEPT !.pc = "drain"] /\ main.why = "shutdown"
    BY <2>2 DEF LifeTypeOK
  <2> QED BY <1>1, <2>1, <2>2
<1>4. LifeTypeOK' /\ ShutdownStays'
  BY <1>1, <1>2, <1>3 DEF LifeTypeOK, ShutdownStays
<1>5. NumbersAreTrue'
  BY <1>1, <1>3, NumbersKept DEF Undisturbed
<1>6. StoppedHandlersExit' /\ ReceiversExitFirst'
  BY <1>1, <1>2 DEF StoppedHandlersExit, ReceiversExitFirst, LifeTypeOK
<1> QED BY <1>4, <1>5, <1>6

(* The end of a shutdown: its close may hit any number. *)
LEMMA ExitInv ==
    ASSUME LifeInv, Exit
    PROVE  LifeInv'
<1> USE DEF LifeInv
<1>1. /\ main.why = "shutdown" /\ fdclose(listen_fd)
      /\ UNCHANGED <<main, listen_fd, gen, handler, conn, signals, asked, touched>>
      /\ exit' = "0" /\ exit = NULL
  BY DEF Exit, Ghosts, ShutdownStays
<1>2. fds' \in [Fds -> Conns \cup {"listen", NULL}] /\ stolen' \in BOOLEAN
  BY <1>1 DEF fdclose, LifeTypeOK
<1>3. LifeTypeOK' /\ ShutdownStays'
  BY <1>1, <1>2 DEF LifeTypeOK, ShutdownStays
<1>4. NumbersAreTrue'
  BY <1>1 DEF NumbersAreTrue, Undisturbed
<1>5. StoppedHandlersExit' /\ ReceiversExitFirst'
  BY <1>1 DEF StoppedHandlersExit, ReceiversExitFirst
<1> QED BY <1>3, <1>4, <1>5

(* The task of a handler waits again only if its handler runs, or in freed memory. *)
LEMMA HandlerInv ==
    ASSUME LifeInv, NEW g \in Gens, HandlerBound(g) \/ HandlerReceives(g) \/ HandlerDelivered(g)
    PROVE  LifeInv'
<1> USE DEF LifeInv
<1> DEFINE task == handler'[g].task
           next == [handler[g] EXCEPT !.task = task]
           moved == /\ UNCHANGED <<main, fds, listen_fd, gen, conn, exit, asked, stolen>>
                    /\ touched \subseteq touched'
                    /\ handler' = [handler EXCEPT ![g] = next]
                    /\ task \in {"recv", "lost", "deliver", "exited"}
                    /\ task = "recv" => /\ handler[g].running \/ handler[g].freed
                                        /\ handler[g].freed => touched' # {}
<1>1. moved
  <2>1. CASE HandlerReceives(g)
    <3>1. handler' = [handler EXCEPT ![g].task = "deliver"]
      BY <2>1 DEF HandlerReceives
    <3>2. task = "deliver"
      BY <3>1 DEF LifeTypeOK
    <3> QED BY <2>1, <3>1, <3>2 DEF HandlerReceives, Ghosts
  <2>2. ASSUME NEW who \in {"bind", "deliver"}, LooksAtRunning(g, who),
               UNCHANGED <<Flags, main, fds, listen_fd, gen, conn, exit, signals, asked, stolen>>
        PROVE  moved
    <3>1. touched \subseteq touched' /\ (handler[g].freed => touched' # {})
      BY <2>2 DEF LooksAtRunning, Uses
    <3>2. PICK t \in {"recv", "lost", "exited"} :
            /\ handler' = [handler EXCEPT ![g].task = t]
            /\ t # "exited" => handler[g].freed \/ handler[g].running
      BY <2>2 DEF LooksAtRunning, Listening
    <3>3. task = t
      BY <3>2 DEF LifeTypeOK
    <3> QED BY <2>2, <3>1, <3>2, <3>3
  <2> QED BY <2>1, <2>2 DEF HandlerBound, HandlerDelivered
<1>2. /\ next \in [running : BOOLEAN, freed : BOOLEAN,
                   task : {"none", "bind", "recv", "lost", "deliver", "exited"}]
      /\ (next.running <=> handler[g].running) /\ (next.freed <=> handler[g].freed) /\ next.task = task
  <2>1. handler[g] \in [running : BOOLEAN, freed : BOOLEAN,
                        task : {"none", "bind", "recv", "lost", "deliver", "exited"}]
    BY DEF LifeTypeOK
  <2> HIDE DEF task
  <2> QED BY <1>1, <2>1
<1> HIDE DEF next, task
<1>3. LifeTypeOK' /\ ShutdownStays'
  BY <1>1, <1>2 DEF LifeTypeOK, ShutdownStays
<1>4. NumbersAreTrue'
  BY <1>1, NumbersKept DEF Undisturbed
<1>5. StoppedHandlersExit'
  BY <1>1, <1>2 DEF StoppedHandlersExit, LifeTypeOK
<1>6. ReceiversExitFirst'
  BY <1>1, <1>2 DEF ReceiversExitFirst, LifeTypeOK, StoppedHandlersExit
<1> QED BY <1>3, <1>4, <1>5, <1>6

(* A connection opens a free number and closes only its own. *)
LEMMA ConnInv ==
    ASSUME LifeInv, NEW c \in Conns, ConnRequest(c) \/ ConnOpens(c) \/ ConnEnds(c)
    PROVE  LifeInv'
<1> USE DEF LifeInv
<1>1. /\ UNCHANGED <<main, listen_fd, gen, handler, exit, asked>>
      /\ touched \subseteq touched' /\ conn[c] # NULL /\ conn[c] \in Connection
  BY DEF ConnRequest, ConnOpens, ConnEnds, Ghosts, Uses, LifeTypeOK
<1>2. StoppedHandlersExit' /\ ReceiversExitFirst' /\ ShutdownStays'
  BY <1>1 DEF StoppedHandlersExit, ReceiversExitFirst, ShutdownStays
<1>3. CASE ConnRequest(c)
  <2>1. UNCHANGED <<fds, conn, stolen>>
    BY <1>3 DEF ConnRequest
  <2> QED BY <1>1, <1>2, <2>1, NumbersKept DEF LifeTypeOK, Undisturbed
<1>4. CASE ConnOpens(c)
  <2> DEFINE n == Min(FreeFds(fds))
             new == [conn[c] EXCEPT !.other = n]
  <2>1. n \in Fds /\ fds[n] = NULL
    BY <1>4, FreeNumber DEF ConnOpens
  <2>2. /\ fds' = [fds EXCEPT ![n] = c] /\ conn' = [conn EXCEPT ![c] = new]
        /\ stolen' = stolen /\ conn[c].other = NULL
    BY <1>4 DEF ConnOpens
  <2> HIDE DEF n
  <2>3. /\ new \in Connection /\ new # NULL /\ new.other = n /\ new.fd = conn[c].fd
        /\ conn[c].fd \in Fds
    BY <1>1, <2>1, LifecycleAssumption DEF Connection
  <2> HIDE DEF new
  <2>4. LifeTypeOK'
    BY <1>1, <2>1, <2>2, <2>3 DEF LifeTypeOK
  <2>5. NumbersAreTrue'
    <3>1. SUFFICES ASSUME Undisturbed PROVE NumbersAreTrue'
      BY <1>1 DEF NumbersAreTrue, Undisturbed
    <3>2. /\ ~stolen /\ fds[listen_fd] = "listen"
          /\ \A d \in Conns : conn[d] # NULL =>
              /\ fds[conn[d].fd] = d
              /\ conn[d].other # NULL => conn[d].other # conn[d].fd /\ fds[conn[d].other] = d
      BY <3>1 DEF NumbersAreTrue
    <3>3. \A k \in Fds : fds[k] # NULL => fds'[k] = fds[k]
      BY <2>1, <2>2 DEF LifeTypeOK
    <3>4. ~stolen' /\ fds'[listen_fd'] = "listen"
      BY <1>1, <2>2, <3>2, <3>3, LifecycleAssumption DEF LifeTypeOK
    <3>5. ASSUME NEW d \in Conns, conn'[d] # NULL
          PROVE  /\ fds'[conn'[d].fd] = d
                 /\ conn'[d].other # NULL => conn'[d].other # conn'[d].fd /\ fds'[conn'[d].other] = d
      <4>0. d # NULL
        BY LifecycleAssumption
      <4>1. CASE d = c
        <5>1. fds[conn[c].fd] = c /\ fds'[conn[c].fd] = c /\ conn[c].fd # n /\ fds'[n] = c
          BY <1>1, <2>1, <2>2, <2>3, <3>2, <3>3, <4>0, <4>1 DEF LifeTypeOK
        <5> QED BY <2>2, <2>3, <4>1, <5>1 DEF LifeTypeOK
      <4>2. CASE d # c
        <5>1. conn'[d] = conn[d] /\ conn[d] # NULL /\ conn[d] \in Connection
          BY <2>2, <3>5, <4>2 DEF LifeTypeOK
        <5>2. conn[d].fd \in Fds /\ conn[d].other \in Fds \cup {NULL}
          BY <5>1 DEF Connection
        <5> QED BY <3>2, <3>3, <4>0, <5>1, <5>2
      <4> QED BY <4>1, <4>2
    <3> QED BY <3>4, <3>5 DEF NumbersAreTrue
  <2> QED BY <1>2, <2>4, <2>5
<1>5. CASE ConnEnds(c)
  <2> DEFINE mine == {conn[c].fd, conn[c].other} \ {NULL}
  <2>1. /\ fds' = [n \in Fds |-> IF n \in mine THEN NULL ELSE fds[n]]
        /\ stolen' = (stolen \/ \E n \in mine : fds[n] # c)
        /\ conn' = [conn EXCEPT ![c] = NULL]
    BY <1>5 DEF ConnEnds
  <2> HIDE DEF mine
  <2>2. LifeTypeOK'
    BY <1>1, <2>1 DEF LifeTypeOK
  <2>3. NumbersAreTrue'
    <3>1. SUFFICES ASSUME Undisturbed PROVE NumbersAreTrue'
      BY <1>1 DEF NumbersAreTrue, Undisturbed
    <3>2. /\ ~stolen /\ fds[listen_fd] = "listen"
          /\ \A d \in Conns : conn[d] # NULL =>
              /\ fds[conn[d].fd] = d
              /\ conn[d].other # NULL => conn[d].other # conn[d].fd /\ fds[conn[d].other] = d
      BY <3>1 DEF NumbersAreTrue
    <3>3. \A n \in mine : fds[n] = c
      BY <1>1, <3>2 DEF mine
    <3>4. \A k \in Fds : fds[k] # c => fds'[k] = fds[k]
      BY <2>1, <3>3
    <3>5. ~stolen' /\ fds'[listen_fd'] = "listen"
      BY <1>1, <2>1, <3>2, <3>3, <3>4, LifecycleAssumption DEF LifeTypeOK
    <3>6. ASSUME NEW d \in Conns, conn'[d] # NULL
          PROVE  /\ fds'[conn'[d].fd] = d
                 /\ conn'[d].other # NULL => conn'[d].other # conn'[d].fd /\ fds'[conn'[d].other] = d
      <4>1. d # c /\ conn'[d] = conn[d] /\ conn[d] # NULL /\ conn[d] \in Connection
        BY <2>1, <3>6 DEF LifeTypeOK
      <4>2. conn[d].fd \in Fds /\ conn[d].other \in Fds \cup {NULL}
        BY <4>1 DEF Connection
      <4> QED BY <3>2, <3>4, <4>1, <4>2
    <3> QED BY <3>5, <3>6 DEF NumbersAreTrue
  <2> QED BY <1>2, <2>2, <2>3
<1> QED BY <1>3, <1>4, <1>5

(* What holds of handlers and descriptors whenever a signal may come. *)
THEOREM LifeInvariant == LifeSpec => []LifeInv
<1>1. ASSUME LifeInv, UNCHANGED lifevars PROVE LifeInv'
  BY <1>1 DEF lifevars, LifeInv, LifeTypeOK, ShutdownStays, NumbersAreTrue, Undisturbed,
     StoppedHandlersExit, ReceiversExitFirst
<1>2. LifeInv /\ MainStep => LifeInv'
  BY AcceptInv, AcceptFailsInv, ReloadInv, CloseHandlersInv, ExitInv DEF MainStep
<1>3. LifeInv /\ [LifeNext]_lifevars => LifeInv'
  BY <1>1, <1>2, SignalInv, HandlerInv, ConnInv DEF LifeNext
<1> QED BY <1>3, LifeInitInv, PTL DEF LifeSpec

(***************************************************************************)
(* mongrel2.c: signals at any moment of any number of reloads: the task of *)
(* a handler is not at a message when its handler is freed, the main task  *)
(* waits on an open listener, and a reload closes no descriptor of a       *)
(* connection, until somebody asks the server to stop.                     *)
(***************************************************************************)
THEOREM ReloadsAreSafe == LifeSpec => []ReloadIsSafe
<1>1. LifeInv => ReloadIsSafe
  BY DEF LifeInv, LifeTypeOK, ShutdownStays, NumbersAreTrue, Undisturbed, ReloadIsSafe, ListenerStaysOpen,
     ReloadClosesOnlyItsOwn
<1> QED BY <1>1, LifeInvariant, PTL

(***************************************************************************)
(*                           Files and their records                       *)
(*                                                                         *)
(* The count in a record is the number of its holders: connections that    *)
(* send it, and the cache, which has it in one slot at most.  A look-up    *)
(* changes records and cache several times before the connection holds     *)
(* what it found, so the counts are stated of any records, cache and       *)
(* numbers of uses.                                                        *)
(***************************************************************************)
InCache(cache, r) == \E i \in 1..CacheSize : cache[i].data = r

(* No path has two records in the cache. *)
OneEach(f, cache) ==
    \A i, j \in 1..CacheSize :
        /\ cache[i].data # NULL /\ cache[j].data # NULL
        /\ f[cache[i].data].path = f[cache[j].data].path
        => i = j

Accounted(f, cache, uses) ==
    /\ f \in [Records -> FileRecord \cup {NULL}]
    /\ cache \in [1..CacheSize -> Slot]
    /\ uses \in [Records -> Nat]
    /\ \A r \in Records : f[r] = NULL => uses[r] = 0 /\ ~InCache(cache, r)
    /\ \A r \in Records : f[r] # NULL =>
          /\ f[r].users > 0
          /\ f[r].users = uses[r] + (IF InCache(cache, r) THEN 1 ELSE 0)
    /\ OneEach(f, cache)

(* The table rest is the table cache but for the slot i, which has d. *)
Puts(cache, i, d, rest) ==
    /\ rest \in [1..CacheSize -> Slot] /\ rest[i].data = d
    /\ \A j \in 1..CacheSize \ {i} : rest[j].data = cache[j].data

NoneHasPath(f, cache, p) ==
    \A j \in 1..CacheSize : cache[j].data # NULL => f[cache[j].data].path # p

(* FileRecord_release takes one from the count, or frees the record. *)
LEMMA ReleaseEffect ==
    ASSUME NEW f \in [Records -> FileRecord \cup {NULL}], NEW r \in Records,
           f[r] # NULL, f[r].users > 0
    PROVE  /\ FileRecord_release(f, r) \in [Records -> FileRecord \cup {NULL}]
           /\ \A q \in Records \ {r} : FileRecord_release(f, r)[q] = f[q]
           /\ f[r].users = 1 => FileRecord_release(f, r)[r] = NULL
           /\ f[r].users # 1 => /\ FileRecord_release(f, r)[r] # NULL
                                /\ FileRecord_release(f, r)[r].users = f[r].users - 1
                                /\ FileRecord_release(f, r)[r].path = f[r].path
<1>1. r # NULL /\ f[r] \in FileRecord
  BY DirAssumption
<1>2. CASE f[r].users = 1
  <2>1. FileRecord_release(f, r) = [f EXCEPT ![r] = NULL]
    BY <1>1, <1>2 DEF FileRecord_release
  <2> QED BY <1>2, <2>1
<1>3. CASE f[r].users # 1
  <2> DEFINE less == [f[r] EXCEPT !.users = @ - 1]
  <2>1. less \in FileRecord /\ less.users = f[r].users - 1 /\ less.path = f[r].path
    BY <1>1 DEF FileRecord
  <2>2. FileRecord_release(f, r) = [f EXCEPT ![r] = less]
    BY <1>1, <1>3 DEF FileRecord_release
  <2>3. less # NULL
    BY <2>1, DirAssumption
  <2> HIDE DEF less
  <2> QED BY <1>3, <2>1, <2>2, <2>3
<1> QED BY <1>2, <1>3

(* What a record that is in the cache is. *)
LEMMA CachedRecord ==
    ASSUME NEW f, NEW cache, NEW uses, Accounted(f, cache, uses),
           NEW i \in 1..CacheSize, cache[i].data # NULL
    PROVE  /\ cache[i].data \in Records /\ f[cache[i].data] # NULL
           /\ f[cache[i].data] \in FileRecord /\ InCache(cache, cache[i].data)
           /\ \A j \in 1..CacheSize : cache[j].data = cache[i].data => j = i
<1>1. cache[i] \in Slot
  BY DEF Accounted
<1>2. cache[i].data \in Records
  BY <1>1 DEF Slot
<1>3. InCache(cache, cache[i].data)
  BY DEF InCache
<1>4. f[cache[i].data] # NULL /\ f[cache[i].data] \in FileRecord
  BY <1>2, <1>3 DEF Accounted
<1>5. \A j \in 1..CacheSize : cache[j].data = cache[i].data => j = i
  BY DEF Accounted, OneEach
<1> QED BY <1>2, <1>3, <1>4, <1>5

(* Records in the cache that keep their paths. *)
LEMMA OneEachKept ==
    ASSUME NEW f, NEW cache, NEW uses, Accounted(f, cache, uses), NEW g,
           \A i \in 1..CacheSize : cache[i].data # NULL => g[cache[i].data].path = f[cache[i].data].path
    PROVE  OneEach(g, cache)
<1>1. OneEach(f, cache)
  BY DEF Accounted
<1> SUFFICES ASSUME NEW i \in 1..CacheSize, NEW j \in 1..CacheSize,
                    cache[i].data # NULL, cache[j].data # NULL,
                    g[cache[i].data].path = g[cache[j].data].path
             PROVE  i = j
  BY DEF OneEach
<1>2. f[cache[i].data].path = f[cache[j].data].path
  OBVIOUS
<1> QED BY <1>1, <1>2 DEF OneEach

(* Only the ages of the slots change. *)
LEMMA AgedAccounted ==
    ASSUME NEW f, NEW cache, NEW uses, Accounted(f, cache, uses),
           NEW aged \in [1..CacheSize -> Slot], \A i \in 1..CacheSize : aged[i].data = cache[i].data
    PROVE  Accounted(f, aged, uses)
<1>1. \A r : InCache(aged, r) <=> InCache(cache, r)
  BY DEF InCache
<1>2. OneEach(f, aged)
  <2>1. OneEach(f, cache)
    BY DEF Accounted
  <2> QED BY <2>1 DEF OneEach
<1>3. \A r \in Records : f[r] = NULL => uses[r] = 0 /\ ~InCache(aged, r)
  BY <1>1 DEF Accounted
<1>4. \A r \in Records : f[r] # NULL =>
          f[r].users > 0 /\ f[r].users = uses[r] + (IF InCache(aged, r) THEN 1 ELSE 0)
  BY <1>1 DEF Accounted
<1> QED BY <1>2, <1>3, <1>4 DEF Accounted

(* Another moment at which a record was loaded. *)
LEMMA ReloadedAccounted ==
    ASSUME NEW f, NEW cache, NEW uses, Accounted(f, cache, uses), NEW r \in Records, f[r] # NULL,
           NEW time \in Nat
    PROVE  Accounted([f EXCEPT ![r].loaded = time], cache, uses)
<1> DEFINE now == [f[r] EXCEPT !.loaded = time]
           g == [f EXCEPT ![r].loaded = time]
<1>1. f[r] \in FileRecord /\ f \in [Records -> FileRecord \cup {NULL}]
  BY DEF Accounted
<1>2. now \in FileRecord /\ now.users = f[r].users /\ now.path = f[r].path /\ now # NULL
  BY <1>1, DirAssumption DEF FileRecord
<1>3. g = [f EXCEPT ![r] = now]
  OBVIOUS
<1> HIDE DEF now, g
<1>4. /\ g \in [Records -> FileRecord \cup {NULL}]
      /\ \A q \in Records : (g[q] = NULL <=> f[q] = NULL)
                            /\ (f[q] # NULL => g[q].users = f[q].users /\ g[q].path = f[q].path)
  BY <1>1, <1>2, <1>3
<1>5. \A i \in 1..CacheSize : cache[i].data # NULL => g[cache[i].data].path = f[cache[i].data].path
  BY <1>4, CachedRecord
<1>6. OneEach(g, cache)
  BY <1>5, OneEachKept
<1>7. \A q \in Records : g[q] = NULL => uses[q] = 0 /\ ~InCache(cache, q)
  BY <1>4 DEF Accounted
<1>8. \A q \in Records : g[q] # NULL =>
          g[q].users > 0 /\ g[q].users = uses[q] + (IF InCache(cache, q) THEN 1 ELSE 0)
  BY <1>4 DEF Accounted
<1>9. Accounted(g, cache, uses)
  BY <1>4, <1>6, <1>7, <1>8 DEF Accounted
<1> QED BY <1>9 DEF g

(* One more connection holds a record. *)
LEMMA UseAccounted ==
    ASSUME NEW f, NEW cache, NEW uses, Accounted(f, cache, uses), NEW r \in Records, f[r] # NULL
    PROVE  Accounted([f EXCEPT ![r].users = @ + 1], cache, [uses EXCEPT ![r] = @ + 1])
<1> DEFINE more == [f[r] EXCEPT !.users = @ + 1]
           g == [f EXCEPT ![r].users = @ + 1]
           u == [uses EXCEPT ![r] = @ + 1]
<1>1. f[r] \in FileRecord /\ f \in [Records -> FileRecord \cup {NULL}] /\ uses \in [Records -> Nat]
  BY DEF Accounted
<1>2. more \in FileRecord /\ more.users = f[r].users + 1 /\ more.path = f[r].path /\ more # NULL
  <2>1. f[r].users + 1 \in Nat
    BY <1>1 DEF FileRecord
  <2>2. more \in FileRecord /\ more.users = f[r].users + 1 /\ more.path = f[r].path
    BY <1>1, <2>1 DEF FileRecord
  <2> QED BY <2>2, DirAssumption
<1>3. g = [f EXCEPT ![r] = more]
  OBVIOUS
<1>4. f[r].users \in Nat
  BY <1>1 DEF FileRecord
<1> HIDE DEF more, g
<1>5. /\ g \in [Records -> FileRecord \cup {NULL}] /\ u \in [Records -> Nat]
      /\ \A q \in Records : (g[q] = NULL <=> f[q] = NULL)
                            /\ (f[q] # NULL => g[q].path = f[q].path)
      /\ \A q \in Records \ {r} : g[q] = f[q] /\ u[q] = uses[q]
      /\ g[r].users = f[r].users + 1 /\ u[r] = uses[r] + 1
  BY <1>1, <1>2, <1>3
<1> HIDE DEF u
<1>6. OneEach(g, cache)
  <2>1. \A i \in 1..CacheSize : cache[i].data # NULL => g[cache[i].data].path = f[cache[i].data].path
    BY <1>5, CachedRecord
  <2> QED BY <2>1, OneEachKept
<1>7. \A q \in Records : g[q] # NULL =>
          g[q].users > 0 /\ g[q].users = u[q] + (IF InCache(cache, q) THEN 1 ELSE 0)
  <2>1. ASSUME NEW q \in Records, q # r, g[q] # NULL
        PROVE  g[q].users > 0 /\ g[q].users = u[q] + (IF InCache(cache, q) THEN 1 ELSE 0)
    BY <1>5, <2>1 DEF Accounted
  <2>2. f[r].users = uses[r] + (IF InCache(cache, r) THEN 1 ELSE 0)
    BY DEF Accounted
  <2>3. g[r].users > 0 /\ g[r].users = u[r] + (IF InCache(cache, r) THEN 1 ELSE 0)
    BY <1>1, <1>4, <1>5, <2>2
  <2> QED BY <2>1, <2>3
<1>8. \A q \in Records : g[q] = NULL => u[q] = 0 /\ ~InCache(cache, q)
  BY <1>5 DEF Accounted
<1>9. Accounted(g, cache, u)
  BY <1>5, <1>6, <1>7, <1>8 DEF Accounted
<1> QED BY <1>9 DEF g, u

(* A connection is done with a record. *)
LEMMA DoneAccounted ==
    ASSUME NEW f, NEW cache, NEW uses, Accounted(f, cache, uses), NEW r \in Records, uses[r] > 0
    PROVE  Accounted(FileRecord_release(f, r), cache, [uses EXCEPT ![r] = @ - 1])
<1> DEFINE g == FileRecord_release(f, r)
           u == [uses EXCEPT ![r] = @ - 1]
<1>1. f[r] # NULL /\ f[r].users > 0 /\ f[r] \in FileRecord /\ f \in [Records -> FileRecord \cup {NULL}]
      /\ uses \in [Records -> Nat]
  BY DEF Accounted
<1>2. f[r].users \in Nat
  BY <1>1 DEF FileRecord
<1>3. /\ g \in [Records -> FileRecord \cup {NULL}]
      /\ \A q \in Records \ {r} : g[q] = f[q]
      /\ f[r].users = 1 => g[r] = NULL
      /\ f[r].users # 1 => g[r] # NULL /\ g[r].users = f[r].users - 1 /\ g[r].path = f[r].path
  BY <1>1, ReleaseEffect
<1>4. u \in [Records -> Nat] /\ u[r] = uses[r] - 1 /\ \A q \in Records \ {r} : u[q] = uses[q]
  BY <1>1
<1> HIDE DEF g, u
<1>5. f[r].users = uses[r] + (IF InCache(cache, r) THEN 1 ELSE 0)
  BY <1>1 DEF Accounted
<1>6. InCache(cache, r) => f[r].users # 1
  BY <1>1, <1>5
<1>7. \A i \in 1..CacheSize : cache[i].data # NULL => g[cache[i].data].path = f[cache[i].data].path
  BY <1>3, <1>6, CachedRecord
<1>8. OneEach(g, cache)
  BY <1>7, OneEachKept
<1>9. \A q \in Records : g[q] # NULL =>
          g[q].users > 0 /\ g[q].users = u[q] + (IF InCache(cache, q) THEN 1 ELSE 0)
  <2>1. ASSUME NEW q \in Records, q # r, g[q] # NULL
        PROVE  g[q].users > 0 /\ g[q].users = u[q] + (IF InCache(cache, q) THEN 1 ELSE 0)
    BY <1>3, <1>4, <2>1 DEF Accounted
  <2>2. ASSUME g[r] # NULL
        PROVE  g[r].users > 0 /\ g[r].users = u[r] + (IF InCache(cache, r) THEN 1 ELSE 0)
    BY <1>1, <1>2, <1>3, <1>4, <1>5, <2>2
  <2> QED BY <2>1, <2>2
<1>10. \A q \in Records : g[q] = NULL => u[q] = 0 /\ ~InCache(cache, q)
  <2>1. ASSUME NEW q \in Records, q # r, g[q] = NULL PROVE u[q] = 0 /\ ~InCache(cache, q)
    BY <1>3, <1>4, <2>1 DEF Accounted
  <2>2. ASSUME g[r] = NULL PROVE u[r] = 0 /\ ~InCache(cache, r)
    BY <1>1, <1>2, <1>3, <1>4, <1>5, <2>2
  <2> QED BY <2>1, <2>2
<1>11. Accounted(g, cache, u)
  BY <1>3, <1>4, <1>8, <1>9, <1>10 DEF Accounted
<1> QED BY <1>11 DEF g, u

(* A record loses its slot, and with it the cache's use. *)
LEMMA VacateAccounted ==
    ASSUME NEW f, NEW cache, NEW uses, Accounted(f, cache, uses),
           NEW i \in 1..CacheSize, cache[i].data # NULL, NEW rest, Puts(cache, i, NULL, rest)
    PROVE  Accounted(FileRecord_release(f, cache[i].data), rest, uses)
<1> DEFINE r == cache[i].data
           g == FileRecord_release(f, r)
<1>1. /\ r \in Records /\ f[r] # NULL /\ f[r] \in FileRecord /\ InCache(cache, r)
      /\ \A j \in 1..CacheSize : cache[j].data = r => j = i
  BY CachedRecord
<1>2. /\ f \in [Records -> FileRecord \cup {NULL}] /\ uses \in [Records -> Nat]
      /\ f[r].users > 0 /\ f[r].users = uses[r] + 1
  BY <1>1 DEF Accounted
<1>3. /\ g \in [Records -> FileRecord \cup {NULL}]
      /\ \A q \in Records \ {r} : g[q] = f[q]
      /\ f[r].users = 1 => g[r] = NULL
      /\ f[r].users # 1 => g[r] # NULL /\ g[r].users = f[r].users - 1 /\ g[r].path = f[r].path
  BY <1>1, <1>2, ReleaseEffect
<1>4. NULL \notin Records
  BY DirAssumption
<1> USE DEF Puts
<1>5. ~InCache(rest, r)
  BY <1>1, <1>4 DEF InCache
<1>6. \A q \in Records \ {r} : InCache(rest, q) <=> InCache(cache, q)
  BY <1>4 DEF InCache
<1>7. OneEach(g, rest)
  <2>1. \A j \in 1..CacheSize : cache[j].data # NULL /\ j # i => cache[j].data \in Records \ {r}
    BY <1>1, CachedRecord
  <2>2. \A j \in 1..CacheSize : rest[j].data # NULL =>
            /\ j # i /\ rest[j].data = cache[j].data /\ cache[j].data # NULL
            /\ g[rest[j].data].path = f[cache[j].data].path
    BY <1>3, <2>1
  <2>3. OneEach(f, cache)
    BY DEF Accounted
  <2> HIDE DEF g
  <2> QED BY <2>2, <2>3 DEF OneEach
<1> HIDE DEF g
<1>8. ASSUME NEW q \in Records, g[q] # NULL
      PROVE  g[q].users > 0 /\ g[q].users = uses[q] + (IF InCache(rest, q) THEN 1 ELSE 0)
  <2>1. CASE q = r
    <3>1. g[r].users = f[r].users - 1 /\ uses[r] \in Nat /\ f[r].users # 1
      BY <1>2, <1>3, <1>8, <1>1, <2>1
    <3> QED BY <1>2, <1>5, <2>1, <3>1
  <2>2. CASE q # r
    BY <1>3, <1>6, <1>8, <2>2 DEF Accounted
  <2> QED BY <2>1, <2>2
<1>9. ASSUME NEW q \in Records, g[q] = NULL PROVE uses[q] = 0 /\ ~InCache(rest, q)
  <2>1. CASE q = r
    <3>1. uses[r] \in Nat /\ f[r].users = 1
      BY <1>2, <1>3, <1>9, <1>1, <2>1
    <3> QED BY <1>2, <1>5, <2>1, <3>1
  <2>2. CASE q # r
    BY <1>3, <1>6, <1>9, <2>2 DEF Accounted
  <2> QED BY <2>1, <2>2
<1>10. Accounted(g, rest, uses)
  BY <1>2, <1>3, <1>7, <1>8, <1>9 DEF Accounted
<1> QED BY <1>10 DEF g

(* A new record takes an empty slot and is used by the connection that asked for it. *)
LEMMA EnterAccounted ==
    ASSUME NEW f, NEW cache, NEW uses, Accounted(f, cache, uses),
           NEW new \in Records, f[new] = NULL, NEW rec \in FileRecord, rec.users = 2,
           NEW i \in 1..CacheSize, cache[i].data = NULL, NEW full, Puts(cache, i, new, full),
           NoneHasPath(f, cache, rec.path)
    PROVE  Accounted([f EXCEPT ![new] = rec], full, [uses EXCEPT ![new] = @ + 1])
<1> DEFINE g == [f EXCEPT ![new] = rec]
           u == [uses EXCEPT ![new] = @ + 1]
<1>1. /\ f \in [Records -> FileRecord \cup {NULL}] /\ uses \in [Records -> Nat]
      /\ uses[new] = 0 /\ ~InCache(cache, new)
  BY DEF Accounted
<1>2. rec # NULL /\ NULL \notin Records
  BY DirAssumption
<1>3. /\ g \in [Records -> FileRecord \cup {NULL}] /\ g[new] = rec
      /\ \A q \in Records \ {new} : g[q] = f[q]
  BY <1>1
<1>4. /\ u \in [Records -> Nat] /\ u[new] = 1
      /\ \A q \in Records \ {new} : u[q] = uses[q]
  BY <1>1
<1> USE DEF Puts, NoneHasPath
<1>5. InCache(full, new)
  BY DEF InCache
<1>6. \A q \in Records \ {new} : InCache(full, q) <=> InCache(cache, q)
  BY <1>2 DEF InCache
<1> HIDE DEF g, u
<1>7. OneEach(g, full)
  <2>1. \A j \in 1..CacheSize : full[j].data # NULL /\ j # i =>
            /\ full[j].data = cache[j].data /\ cache[j].data # NULL
            /\ g[full[j].data].path = f[cache[j].data].path
    <3>1. \A j \in 1..CacheSize : cache[j].data # NULL => cache[j].data \in Records \ {new}
      BY <1>1, CachedRecord
    <3> QED BY <1>3, <3>1
  <2>2. g[full[i].data].path = rec.path
    BY <1>3
  <2>3. OneEach(f, cache)
    BY DEF Accounted
  <2> QED BY <2>1, <2>2, <2>3 DEF OneEach
<1>8. ASSUME NEW q \in Records, g[q] # NULL
      PROVE  g[q].users > 0 /\ g[q].users = u[q] + (IF InCache(full, q) THEN 1 ELSE 0)
  <2>1. CASE q = new
    BY <1>3, <1>4, <1>5, <2>1
  <2>2. CASE q # new
    BY <1>3, <1>4, <1>6, <1>8, <2>2 DEF Accounted
  <2> QED BY <2>1, <2>2
<1>9. ASSUME NEW q \in Records, g[q] = NULL PROVE u[q] = 0 /\ ~InCache(full, q)
  <2>1. q # new
    BY <1>2, <1>3, <1>9
  <2> QED BY <1>3, <1>4, <1>6, <1>9, <2>1 DEF Accounted
<1>10. Accounted(g, full, u)
  BY <1>3, <1>4, <1>7, <1>8, <1>9 DEF Accounted
<1> QED BY <1>10 DEF g, u

(* A new record takes the slot of another one, as Cache_add has it. *)
LEMMA AddAccounted ==
    ASSUME NEW f, NEW cache, NEW uses, Accounted(f, cache, uses),
           NEW new \in Records, f[new] = NULL, NEW rec \in FileRecord, rec.users = 2,
           NEW i \in 1..CacheSize, NEW full, Puts(cache, i, new, full),
           NoneHasPath(f, cache, rec.path)
    PROVE  Accounted(FileRecord_release([f EXCEPT ![new] = rec], cache[i].data),
                     full, [uses EXCEPT ![new] = @ + 1])
<1> DEFINE r == cache[i].data
<1>1. cache \in [1..CacheSize -> Slot] /\ f \in [Records -> FileRecord \cup {NULL}]
  BY DEF Accounted
<1>2. CASE r = NULL
  <2>1. FileRecord_release([f EXCEPT ![new] = rec], r) = [f EXCEPT ![new] = rec]
    BY <1>2 DEF FileRecord_release
  <2>2. Accounted([f EXCEPT ![new] = rec], full, [uses EXCEPT ![new] = @ + 1])
    BY <1>2, EnterAccounted
  <2> QED BY <2>1, <2>2
<1>3. CASE r # NULL
  <2> DEFINE rest == [cache EXCEPT ![i] = [tag |-> 0, data |-> NULL]]
             g == FileRecord_release(f, r)
  <2>1. Puts(cache, i, NULL, rest)
    <3>1. [tag |-> 0, data |-> NULL] \in Slot
      BY DEF Slot
    <3> QED BY <1>1, <3>1 DEF Puts
  <2>2. Accounted(g, rest, uses)
    BY <1>3, <2>1, VacateAccounted
  <2>3. /\ r \in Records /\ f[r] # NULL /\ r # new
        /\ \A j \in 1..CacheSize : cache[j].data # NULL /\ j # i =>
               cache[j].data \in Records \ {r}
    BY <1>3, CachedRecord
  <2>4. f[r].users > 0
    BY <2>3 DEF Accounted
  <2>5. \A q \in Records \ {r} : g[q] = f[q]
    BY <1>1, <2>3, <2>4, ReleaseEffect
  <2>6. FileRecord_release([f EXCEPT ![new] = rec], r) = [g EXCEPT ![new] = rec]
    <3>1. r # NULL /\ [f EXCEPT ![new] = rec][r] = f[r]
      BY <1>1, <1>3, <2>3
    <3>2. CASE f[r].users = 1
      BY <1>1, <2>3, <3>1, <3>2 DEF FileRecord_release
    <3>3. CASE f[r].users # 1
      BY <1>1, <2>3, <3>1, <3>3 DEF FileRecord_release
    <3> QED BY <3>2, <3>3
  <2>7. g[new] = NULL
    BY <2>3, <2>5
  <2>8. Puts(rest, i, new, full) /\ rest[i].data = NULL
    BY <2>1 DEF Puts
  <2>9. NoneHasPath(g, rest, rec.path)
    BY <2>1, <2>3, <2>5 DEF Puts, NoneHasPath
  <2> HIDE DEF rest, g
  <2>10. Accounted([g EXCEPT ![new] = rec], full, [uses EXCEPT ![new] = @ + 1])
    BY <2>2, <2>7, <2>8, <2>9, EnterAccounted
  <2> QED BY <2>6, <2>10
<1> QED BY <1>2, <1>3

(* There are as many ids as records can be held at once, and one more. *)
LEMMA FreeRecord ==
    ASSUME NEW f, NEW cache, NEW uses, Accounted(f, cache, uses), NEW file,
           \A r \in Records : uses[r] > 0 => \E c \in Clients : file[c] = r
    PROVE  \E r \in Records : f[r] = NULL
<1> DEFINE N == CacheSize + Cardinality(Clients)
           data == [i \in 1..CacheSize |-> cache[i].data]
           hold == [c \in Clients |-> file[c]]
           slots == {data[i] : i \in 1..CacheSize}
           held == {hold[c] : c \in Clients}
<1>1. IsFiniteSet(Clients) /\ CacheSize \in Nat /\ Cardinality(Clients) \in Nat
  BY DirAssumption, CacheAssumption, FS_CardinalityType
<1>2. IsFiniteSet(1..CacheSize) /\ Cardinality(1..CacheSize) = CacheSize
  <2>1. 1 \in Int /\ CacheSize \in Int
    BY <1>1
  <2>2. IsFiniteSet(1..CacheSize) /\ Cardinality(1..CacheSize)
                                      = IF 1 > CacheSize THEN 0 ELSE CacheSize - 1 + 1
    BY <2>1, FS_Interval, Zenon
  <2> QED BY <2>2, CacheAssumption
<1>3. IsFiniteSet(slots) /\ Cardinality(slots) \in Nat /\ Cardinality(slots) <= CacheSize
  <2>1. data \in Surjection(1..CacheSize, slots)
    BY Fun_IsSurj
  <2>2. IsFiniteSet(slots) /\ Cardinality(slots) <= Cardinality(1..CacheSize)
    <3> HIDE DEF data, slots
    <3> QED BY <1>2, <2>1, FS_Surjection
  <2> QED BY <1>2, <2>2, FS_CardinalityType
<1>4. IsFiniteSet(held) /\ Cardinality(held) \in Nat /\ Cardinality(held) <= Cardinality(Clients)
  <2>1. hold \in Surjection(Clients, held)
    BY Fun_IsSurj
  <2>2. IsFiniteSet(held) /\ Cardinality(held) <= Cardinality(Clients)
    <3> HIDE DEF hold, held
    <3> QED BY <1>1, <2>1, FS_Surjection
  <2> QED BY <2>2, FS_CardinalityType
<1>5. /\ IsFiniteSet(slots \cup held) /\ Cardinality(slots \cup held) \in Nat
      /\ Cardinality(slots \cup held) <= N
  <2> HIDE DEF slots, held
  <2>1. /\ IsFiniteSet(slots \cup held)
        /\ Cardinality(slots \cup held)
             = Cardinality(slots) + Cardinality(held) - Cardinality(slots \cap held)
    BY <1>3, <1>4, FS_Union
  <2>2. IsFiniteSet(slots \cap held)
    BY <1>3, FS_Intersection
  <2>3. Cardinality(slots \cap held) \in Nat /\ Cardinality(slots \cup held) \in Nat
    BY <2>1, <2>2, FS_CardinalityType
  <2> QED BY <1>1, <1>3, <1>4, <2>1, <2>3
<1>6. IsFiniteSet(Records) /\ Cardinality(Records) = N + 1
  <2>1. 1 \in Int /\ N + 1 \in Int /\ N \in Nat
    BY <1>1
  <2>2. IsFiniteSet(1..(N + 1))
        /\ Cardinality(1..(N + 1)) = IF 1 > N + 1 THEN 0 ELSE (N + 1) - 1 + 1
    <3> HIDE DEF N
    <3> QED BY <2>1, FS_Interval, Zenon
  <2>3. Cardinality(1..(N + 1)) = N + 1
    <3> HIDE DEF N
    <3> QED BY <2>1, <2>2
  <2> QED BY <2>2, <2>3 DEF Records
<1>7. SUFFICES ASSUME \A r \in Records : f[r] # NULL PROVE FALSE
  OBVIOUS
<1>8. ASSUME NEW r \in Records PROVE r \in slots \cup held
  <2>1. uses[r] \in Nat /\ f[r].users > 0 /\ f[r].users = uses[r] + (IF InCache(cache, r) THEN 1 ELSE 0)
    BY <1>7 DEF Accounted
  <2>2. CASE InCache(cache, r)
    BY <2>2 DEF InCache
  <2>3. CASE ~InCache(cache, r)
    <3>1. uses[r] > 0
      BY <2>1, <2>3
    <3> QED BY <3>1
  <2> QED BY <2>2, <2>3
<1>9. Records \subseteq slots \cup held
  BY <1>8
<1> HIDE DEF slots, held
<1>10. Cardinality(Records) <= Cardinality(slots \cup held)
  BY <1>5, <1>9, FS_Subset
<1> QED BY <1>1, <1>5, <1>6, <1>10

(* Min takes the smallest of a set of numbers. *)
LEMMA MinTaken ==
    ASSUME NEW T, T \subseteq Nat, T # {}
    PROVE  Min(T) \in T
<1>1. \E x \in T : \A y \in T : x <= y
  BY SmallestNumber
<1> QED BY <1>1 DEF Min

(* A value that matches is found, if one does, and only the ages change. *)
LookedUp(cache, matching, found) ==
    /\ found.cache \in [1..CacheSize -> Slot]
    /\ \A i \in 1..CacheSize : found.cache[i].data = cache[i].data
    /\ \/ /\ found.data = NULL
          /\ \A i \in 1..CacheSize :
                 cache[i].data \notin matching /\ found.cache[i].tag = Older(cache[i]).tag
       \/ \E i \in 1..CacheSize :
              /\ found.data = cache[i].data /\ cache[i].data \in matching
              /\ found.cache[i].tag = INT_MAX
              /\ \A j \in 1..CacheSize \ {i} : found.cache[j].tag = Older(cache[j]).tag

(* Cache_lookup does so. *)
LEMMA LookupEffect ==
    ASSUME NEW cache \in [1..CacheSize -> Slot], NEW matching
    PROVE  LookedUp(cache, matching, Cache_lookup(cache, matching))
<1> DEFINE hits == {i \in 1..CacheSize : cache[i].data \in matching}
           aged == [j \in 1..CacheSize |-> Older(cache[j])]
<1>1. \A j \in 1..CacheSize : Older(cache[j]) \in Slot /\ Older(cache[j]).data = cache[j].data
  <2> SUFFICES ASSUME NEW j \in 1..CacheSize
               PROVE  Older(cache[j]) \in Slot /\ Older(cache[j]).data = cache[j].data
    OBVIOUS
  <2>1. cache[j] \in Slot
    OBVIOUS
  <2> QED BY <2>1 DEF Older, Slot
<1>2. aged \in [1..CacheSize -> Slot] /\ \A j \in 1..CacheSize : aged[j].data = cache[j].data
  BY <1>1
<1>3. CASE hits = {}
  BY <1>2, <1>3 DEF Cache_lookup, LookedUp
<1>4. CASE hits # {}
  <2>1. Min(hits) \in hits
    BY <1>4, MinTaken
  <2> DEFINE i == Min(hits)
             next == [aged EXCEPT ![i].tag = INT_MAX]
             front == [aged[i] EXCEPT !.tag = INT_MAX]
  <2>2. i \in 1..CacheSize /\ cache[i].data \in matching
    BY <2>1
  <2>3. Cache_lookup(cache, matching) = [data |-> cache[i].data, cache |-> next]
    BY <1>4 DEF Cache_lookup
  <2>4. \A j \in 1..CacheSize : aged[j].tag = Older(cache[j]).tag
    OBVIOUS
  <2> HIDE DEF i, aged
  <2>5. front \in Slot /\ front.data = cache[i].data /\ front.tag = INT_MAX
    <3>1. aged[i] \in Slot /\ aged[i].data = cache[i].data
      BY <1>2, <2>2
    <3> QED BY <3>1, CacheAssumption DEF Slot
  <2>6. next = [aged EXCEPT ![i] = front]
    OBVIOUS
  <2> HIDE DEF next, front
  <2>7. /\ next \in [1..CacheSize -> Slot] /\ next[i].tag = INT_MAX
        /\ \A j \in 1..CacheSize : next[j].data = cache[j].data
        /\ \A j \in 1..CacheSize \ {i} : next[j].tag = Older(cache[j]).tag
    BY <1>2, <2>2, <2>4, <2>5, <2>6
  <2> QED BY <2>2, <2>3, <2>7 DEF LookedUp
<1> QED BY <1>3, <1>4

(* There is a slot to take, one with the smallest tag. *)
LEMMA SlotToTake ==
    ASSUME NEW cache \in [1..CacheSize -> Slot]
    PROVE  /\ min_idx(cache) \in 1..CacheSize
           /\ \A j \in 1..CacheSize : cache[min_idx(cache)].tag <= cache[j].tag
<1> DEFINE tags == {cache[i].tag : i \in 1..CacheSize}
<1>1. \A i \in 1..CacheSize : cache[i].tag \in Nat
  BY DEF Slot
<1>2. 1 \in 1..CacheSize
  BY CacheAssumption
<1>3. tags \subseteq Nat /\ tags # {}
  BY <1>1, <1>2
<1>4. PICK least \in tags : \A t \in tags : least <= t
  BY <1>3, SmallestNumber
<1> DEFINE oldest == {i \in 1..CacheSize : cache[i].tag = least}
<1>5. oldest \subseteq Nat /\ oldest # {}
  BY <1>4
<1>6. PICK i \in oldest : \A j \in oldest : i <= j
  BY <1>5, SmallestNumber
<1>7. i \in 1..CacheSize /\ \A j \in 1..CacheSize : cache[i].tag <= cache[j].tag
  BY <1>4, <1>6
<1>8. \A j \in 1..(i - 1) : cache[i].tag < cache[j].tag
  <2> SUFFICES ASSUME NEW j \in 1..(i - 1) PROVE cache[i].tag < cache[j].tag
    OBVIOUS
  <2>1. j \in 1..CacheSize /\ j < i
    BY <1>7, CacheAssumption
  <2>2. j \notin oldest
    BY <1>6, <1>7, <2>1
  <2>3. cache[j].tag # least /\ cache[i].tag = least
    BY <1>6, <2>1, <2>2
  <2> QED BY <1>1, <1>7, <2>1, <2>3
<1> QED BY <1>7, <1>8 DEF min_idx

(* Cache_add puts its value into that slot. *)
LEMMA AddEffect ==
    ASSUME NEW cache \in [1..CacheSize -> Slot], NEW d \in Records
    PROVE  /\ Cache_add(cache, d).evicted = cache[min_idx(cache)].data
           /\ Puts(cache, min_idx(cache), d, Cache_add(cache, d).cache)
           /\ Cache_add(cache, d).cache[min_idx(cache)].tag = INT_MAX
           /\ \A j \in 1..CacheSize \ {min_idx(cache)} :
                  Cache_add(cache, d).cache[j].tag = Older(cache[j]).tag
<1> DEFINE i == min_idx(cache)
           aged == [j \in 1..CacheSize |-> Older(cache[j])]
           next == [aged EXCEPT ![i] = [tag |-> INT_MAX, data |-> d]]
<1>1. i \in 1..CacheSize
  BY SlotToTake
<1>2. \A j \in 1..CacheSize : Older(cache[j]) \in Slot /\ Older(cache[j]).data = cache[j].data
  <2> SUFFICES ASSUME NEW j \in 1..CacheSize
               PROVE  Older(cache[j]) \in Slot /\ Older(cache[j]).data = cache[j].data
    OBVIOUS
  <2>1. cache[j] \in Slot
    OBVIOUS
  <2> QED BY <2>1 DEF Older, Slot
<1>3. [tag |-> INT_MAX, data |-> d] \in Slot
  BY CacheAssumption DEF Slot
<1>4. Cache_add(cache, d) = [evicted |-> cache[i].data, cache |-> next]
  BY DEF Cache_add
<1> HIDE DEF i
<1>5. /\ Puts(cache, i, d, next) /\ next[i].tag = INT_MAX
      /\ \A j \in 1..CacheSize \ {i} : next[j].tag = Older(cache[j]).tag
  BY <1>1, <1>2, <1>3 DEF Puts
<1> HIDE DEF next
<1>6. Cache_add(cache, d).evicted = cache[i].data /\ Cache_add(cache, d).cache = next
  BY <1>4
<1> QED BY <1>5, <1>6 DEF i

(* Cache_evict_object empties the slot of a record. *)
LEMMA EvictEffect ==
    ASSUME NEW f, NEW cache, NEW uses, Accounted(f, cache, uses),
           NEW i \in 1..CacheSize, cache[i].data # NULL
    PROVE  Puts(cache, i, NULL, Cache_evict_object(cache, cache[i].data))
<1>1. cache \in [1..CacheSize -> Slot]
  BY DEF Accounted
<1>2. \A j \in 1..CacheSize : cache[j].data = cache[i].data => j = i
  BY CachedRecord
<1>3. [tag |-> 0, data |-> NULL] \in Slot
  BY DEF Slot
<1> QED BY <1>1, <1>2, <1>3 DEF Puts, Cache_evict_object

(* What is at a path, and the files that were ever on the disk. *)
DiskTypeOK ==
    /\ disk \in [Paths -> [kind : {"none", "file", "dir"}, ino : Nat, mtime : Nat]]
    /\ inodes \in Seq(Nat)
    /\ \A p \in Paths : disk[p].kind # "none" => disk[p].ino \in 1..Len(inodes)
    /\ clock \in Nat

(* The record that Dir_resolve_file makes for a path where something is. *)
LEMMA NewRecord ==
    ASSUME DiskTypeOK, NEW p \in Paths, disk[p].kind # "none"
    PROVE  LET rec == [Dir_find_file(p) EXCEPT !.users = 2]
           IN  rec \in FileRecord /\ rec.users = 2 /\ rec.path = p
<1>1. disk[p].mtime \in Nat /\ disk[p].ino \in Nat /\ inodes[disk[p].ino] \in Nat /\ clock \in Nat
  BY DEF DiskTypeOK
<1>2. Stat(p) \in FileStat
  BY <1>1 DEF Stat, Size, FileStat
<1> DEFINE dir == disk[p].kind = "dir"
<1>3. [Dir_find_file(p) EXCEPT !.users = 2]
        = [path |-> p, is_dir |-> dir, users |-> 2, st |-> Stat(p), ino |-> disk[p].ino,
           loaded |-> IF dir THEN NULL ELSE clock]
  BY DEF Dir_find_file
<1>4. dir \in BOOLEAN /\ (IF dir THEN NULL ELSE clock) \in Nat \cup {NULL}
  BY <1>1
<1> HIDE DEF dir
<1> QED BY <1>1, <1>2, <1>3, <1>4 DEF FileRecord

(* FileRecord_cache_check keeps the accounts, and finds the record of the path if one is *)
(* in the cache that it leaves.                                                          *)
LEMMA CheckAccounted ==
    ASSUME NEW uses, Accounted(fr, fr_cache, uses), DiskTypeOK, NEW p \in Paths
    PROVE  LET checked == FileRecord_cache_check(p)
           IN  /\ Accounted(checked.fr, checked.cache, uses)
               /\ checked.data # NULL => checked.data \in Records /\ checked.fr[checked.data] # NULL
               /\ checked.data = NULL => NoneHasPath(checked.fr, checked.cache, p)
<1> DEFINE matching == {r \in Records : fr[r] # NULL /\ fr[r].path = p}
           found == Cache_lookup(fr_cache, matching)
           r == found.data
           checked == FileRecord_cache_check(p)
<1>1. fr_cache \in [1..CacheSize -> Slot] /\ OneEach(fr, fr_cache)
  BY DEF Accounted
<1>2. /\ found.cache \in [1..CacheSize -> Slot]
      /\ \A i \in 1..CacheSize : found.cache[i].data = fr_cache[i].data
      /\ \/ r = NULL /\ \A i \in 1..CacheSize : fr_cache[i].data \notin matching
         \/ \E i \in 1..CacheSize : r = fr_cache[i].data /\ fr_cache[i].data \in matching
  <2>1. LookedUp(fr_cache, matching, found)
    BY <1>1, LookupEffect
  <2> HIDE DEF found, matching
  <2> QED BY <2>1 DEF LookedUp
<1>3. NULL \notin Records
  BY DirAssumption
<1>4. checked = IF r = NULL \/ ~Expired(r) THEN [data |-> r, cache |-> found.cache, fr |-> fr]
                ELSE IF Changed(r)
                THEN [data |-> NULL, cache |-> Cache_evict_object(found.cache, r),
                      fr |-> FileRecord_release(fr, r)]
                ELSE [data |-> r, cache |-> found.cache, fr |-> [fr EXCEPT ![r].loaded = clock]]
  BY DEF FileRecord_cache_check
<1> HIDE DEF found, checked
<1>5. Accounted(fr, found.cache, uses)
  BY <1>2, AgedAccounted
<1>6. CASE r = NULL
  <2>1. \A i \in 1..CacheSize : fr_cache[i].data \notin matching
    BY <1>2, <1>3, <1>6
  <2>2. NoneHasPath(fr, found.cache, p)
    <3>1. \A i \in 1..CacheSize : fr_cache[i].data # NULL =>
              fr_cache[i].data \in Records /\ fr[fr_cache[i].data] # NULL
      BY CachedRecord
    <3> QED BY <1>2, <2>1, <3>1 DEF NoneHasPath
  <2>3. checked.data = NULL /\ checked.cache = found.cache /\ checked.fr = fr
    BY <1>4, <1>6
  <2> QED BY <1>5, <2>2, <2>3 DEF checked
<1>7. CASE r # NULL
  <2>1. PICK i \in 1..CacheSize : r = fr_cache[i].data /\ r \in matching
    BY <1>2, <1>7
  <2>2. r \in Records /\ fr[r] # NULL /\ fr[r].path = p
    BY <2>1
  <2>3. CASE ~Expired(r)
    <3>1. checked.data = r /\ checked.cache = found.cache /\ checked.fr = fr
      BY <1>4, <2>3
    <3> QED BY <1>5, <1>7, <2>2, <3>1 DEF checked
  <2>4. CASE Expired(r) /\ ~Changed(r)
    <3> DEFINE g == [fr EXCEPT ![r].loaded = clock]
    <3>1. checked.data = r /\ checked.cache = found.cache /\ checked.fr = g
      BY <1>4, <1>7, <2>4
    <3>2. clock \in Nat
      BY DEF DiskTypeOK
    <3>3. Accounted(g, found.cache, uses)
      BY <1>5, <2>2, <3>2, ReloadedAccounted
    <3>4. g[r] # NULL
      <4>1. fr \in [Records -> FileRecord \cup {NULL}]
        BY DEF Accounted
      <4>2. fr[r] \in FileRecord
        BY <2>2, <4>1
      <4>3. [fr[r] EXCEPT !.loaded = clock] \in FileRecord
        BY <3>2, <4>2 DEF FileRecord
      <4> QED BY <2>2, <4>1, <4>3, DirAssumption
    <3> HIDE DEF g
    <3> QED BY <1>7, <2>2, <3>1, <3>3, <3>4 DEF checked
  <2>5. CASE Expired(r) /\ Changed(r)
    <3> DEFINE g == FileRecord_release(fr, r)
               rest == Cache_evict_object(found.cache, r)
    <3>1. checked.data = NULL /\ checked.cache = rest /\ checked.fr = g
      BY <1>4, <1>7, <2>5
    <3>2. r = found.cache[i].data
      BY <1>2, <2>1
    <3>3. Puts(found.cache, i, NULL, rest)
      BY <1>5, <1>7, <3>2, EvictEffect
    <3>4. Accounted(g, rest, uses)
      BY <1>5, <1>7, <3>2, <3>3, VacateAccounted
    <3>5. NoneHasPath(g, rest, p)
      <4>1. fr \in [Records -> FileRecord \cup {NULL}] /\ fr[r].users > 0
        BY <2>2 DEF Accounted
      <4>2. \A q \in Records \ {r} : g[q] = fr[q]
        BY <2>2, <4>1, ReleaseEffect
      <4>3. \A j \in 1..CacheSize : j # i /\ fr_cache[j].data # NULL =>
                fr_cache[j].data \in Records /\ fr_cache[j].data # r /\ fr[fr_cache[j].data].path # p
        BY <1>1, <1>7, <2>1, <2>2, CachedRecord DEF OneEach
      <4>4. \A j \in 1..CacheSize : rest[j].data # NULL =>
                j # i /\ rest[j].data = fr_cache[j].data
        BY <1>2, <3>3 DEF Puts
      <4> HIDE DEF g, rest
      <4> QED BY <4>2, <4>3, <4>4 DEF NoneHasPath
    <3> HIDE DEF g, rest
    <3> QED BY <3>1, <3>4, <3>5 DEF checked
  <2> QED BY <2>3, <2>4, <2>5
<1> QED BY <1>6, <1>7

(* Dir_resolve_file: one more connection holds the record that it returns. *)
LEMMA ResolveAccounted ==
    ASSUME NEW uses, Accounted(fr, fr_cache, uses), DiskTypeOK, NEW p \in Paths, NEW file,
           \A r \in Records : uses[r] > 0 => \E c \in Clients : file[c] = r
    PROVE  LET found == Dir_resolve_file(p)
           IN  \/ found.data = NULL /\ Accounted(found.fr, found.cache, uses)
               \/ /\ found.data \in Records
                  /\ Accounted(found.fr, found.cache, [uses EXCEPT ![found.data] = @ + 1])
<1> DEFINE checked == FileRecord_cache_check(p)
           free == {r \in Records : checked.fr[r] = NULL}
           new == Min(free)
           added == Cache_add(checked.cache, new)
           rec == [Dir_find_file(p) EXCEPT !.users = 2]
           found == Dir_resolve_file(p)
<1>1. /\ Accounted(checked.fr, checked.cache, uses)
      /\ checked.data # NULL => checked.data \in Records /\ checked.fr[checked.data] # NULL
      /\ checked.data = NULL => NoneHasPath(checked.fr, checked.cache, p)
  BY CheckAccounted
<1>2. found = IF checked.data # NULL
              THEN [data |-> checked.data, cache |-> checked.cache,
                    fr |-> [checked.fr EXCEPT ![checked.data].users = @ + 1]]
              ELSE IF disk[p].kind = "none" THEN checked
              ELSE [data |-> new, cache |-> added.cache,
                    fr |-> FileRecord_release([checked.fr EXCEPT ![new] = rec], added.evicted)]
  BY DEF Dir_resolve_file
<1> HIDE DEF checked, found
<1>3. CASE checked.data # NULL
  <2> DEFINE g == [checked.fr EXCEPT ![checked.data].users = @ + 1]
             u == [uses EXCEPT ![checked.data] = @ + 1]
  <2>1. found.data = checked.data /\ found.cache = checked.cache /\ found.fr = g
    BY <1>2, <1>3
  <2>2. Accounted(g, checked.cache, u)
    BY <1>1, <1>3, UseAccounted
  <2> HIDE DEF g
  <2> QED BY <1>1, <1>3, <2>1, <2>2 DEF found
<1>4. CASE checked.data = NULL /\ disk[p].kind = "none"
  <2>1. found = checked
    BY <1>2, <1>4
  <2> QED BY <1>1, <1>4, <2>1 DEF found
<1>5. CASE checked.data = NULL /\ disk[p].kind # "none"
  <2>1. \E r \in Records : checked.fr[r] = NULL
    BY <1>1, FreeRecord
  <2>2. new \in Records /\ checked.fr[new] = NULL
    <3>1. free \subseteq Nat /\ free # {}
      BY <2>1 DEF Records
    <3>2. new \in free
      BY <3>1, MinTaken
    <3> QED BY <3>2
  <2> HIDE DEF new
  <2>3. rec \in FileRecord /\ rec.users = 2 /\ rec.path = p
    BY <1>5, NewRecord
  <2> HIDE DEF rec
  <2> DEFINE i == min_idx(checked.cache)
  <2>4. checked.cache \in [1..CacheSize -> Slot]
    BY <1>1 DEF Accounted
  <2>5. i \in 1..CacheSize
    BY <2>4, SlotToTake
  <2>6. added.evicted = checked.cache[i].data /\ Puts(checked.cache, i, new, added.cache)
    BY <2>2, <2>4, AddEffect
  <2>7. NoneHasPath(checked.fr, checked.cache, rec.path)
    BY <1>1, <1>5, <2>3
  <2> HIDE DEF i, added
  <2> DEFINE g == FileRecord_release([checked.fr EXCEPT ![new] = rec], added.evicted)
             u == [uses EXCEPT ![new] = @ + 1]
  <2>8. Accounted(g, added.cache, u)
    BY <1>1, <2>2, <2>3, <2>5, <2>6, <2>7, AddAccounted
  <2>9. found.data = new /\ found.cache = added.cache /\ found.fr = g
    BY <1>2, <1>5
  <2> HIDE DEF g
  <2> QED BY <2>2, <2>8, <2>9 DEF found
<1> QED BY <1>3, <1>4, <1>5

(* Where a connection can be, and the records that connections hold. *)
Sending == {"status", "header", "stream"}

ClientState ==
    {Idle} \cup [pc : {"status"}, file : Records \cup {NULL}, by_tag : BOOLEAN]
    \cup [pc : {"header"}, file : Records]
    \cup [pc : {"stream"}, file : Records, body : Nat, total : Nat]

HeldBy(cl, r) == {c \in Clients : cl[c].pc \in Sending /\ cl[c].file = r}
UsesOf(cl) == [r \in Records |-> Cardinality(HeldBy(cl, r))]

(* The number of uses of a record is a number, and a record in use has a connection. *)
LEMMA UsesType ==
    ASSUME NEW cl
    PROVE  /\ UsesOf(cl) \in [Records -> Nat]
           /\ \A r \in Records : UsesOf(cl)[r] > 0 <=> \E c \in Clients : cl[c].pc \in Sending /\ cl[c].file = r
<1> SUFFICES ASSUME NEW r \in Records
             PROVE  /\ UsesOf(cl)[r] \in Nat
                    /\ UsesOf(cl)[r] > 0 <=> \E c \in Clients : cl[c].pc \in Sending /\ cl[c].file = r
  BY DEF UsesOf
<1>1. HeldBy(cl, r) \subseteq Clients /\ UsesOf(cl)[r] = Cardinality(HeldBy(cl, r))
  BY DEF HeldBy, UsesOf
<1>2. IsFiniteSet(HeldBy(cl, r))
  BY <1>1, DirAssumption, FS_Subset
<1>3. Cardinality(HeldBy(cl, r)) \in Nat /\ (Cardinality(HeldBy(cl, r)) = 0 <=> HeldBy(cl, r) = {})
  BY <1>2, FS_CardinalityType, FS_EmptySet
<1>4. HeldBy(cl, r) = {} <=> ~\E c \in Clients : cl[c].pc \in Sending /\ cl[c].file = r
  BY DEF HeldBy
<1> QED BY <1>1, <1>3, <1>4

(* A connection moves on and holds what it held. *)
LEMMA SameUses ==
    ASSUME NEW cl \in [Clients -> ClientState], NEW c \in Clients, NEW st \in ClientState,
           \A r \in Records : (st.pc \in Sending /\ st.file = r) <=> (cl[c].pc \in Sending /\ cl[c].file = r)
    PROVE  UsesOf([cl EXCEPT ![c] = st]) = UsesOf(cl)
<1> DEFINE next == [cl EXCEPT ![c] = st]
<1>1. next[c] = st /\ \A d \in Clients \ {c} : next[d] = cl[d]
  OBVIOUS
<1> HIDE DEF next
<1>2. \A r \in Records : HeldBy(next, r) = HeldBy(cl, r)
  BY <1>1 DEF HeldBy
<1>3. UsesOf(next) = UsesOf(cl)
  BY <1>2 DEF UsesOf
<1> QED BY <1>3 DEF next

(* An idle connection gets a record. *)
LEMMA OneMoreUse ==
    ASSUME NEW cl \in [Clients -> ClientState], NEW c \in Clients, cl[c].pc = "idle",
           NEW st \in ClientState, st.pc \in Sending, st.file \in Records
    PROVE  UsesOf([cl EXCEPT ![c] = st]) = [UsesOf(cl) EXCEPT ![st.file] = @ + 1]
<1> DEFINE next == [cl EXCEPT ![c] = st]
           r == st.file
<1>1. next[c] = st /\ \A d \in Clients \ {c} : next[d] = cl[d]
  OBVIOUS
<1>2. st.pc \in Sending /\ st.file = r /\ r \in Records
  OBVIOUS
<1> HIDE DEF next, r
<1>3. \A q \in Records \ {r} : HeldBy(next, q) = HeldBy(cl, q)
  BY <1>1, <1>2 DEF HeldBy, Sending
<1>4. HeldBy(next, r) = HeldBy(cl, r) \cup {c} /\ c \notin HeldBy(cl, r)
  BY <1>1, <1>2 DEF HeldBy, Sending
<1>5. IsFiniteSet(HeldBy(cl, r))
  <2>1. HeldBy(cl, r) \subseteq Clients
    BY DEF HeldBy
  <2> QED BY <2>1, DirAssumption, FS_Subset
<1>6. Cardinality(HeldBy(next, r)) = Cardinality(HeldBy(cl, r)) + 1
  BY <1>4, <1>5, FS_AddElement
<1>7. UsesOf(next) = [UsesOf(cl) EXCEPT ![r] = @ + 1]
  BY <1>3, <1>6 DEF UsesOf
<1> QED BY <1>7 DEF next, r

(* A connection is done with its record. *)
LEMMA OneUseLess ==
    ASSUME NEW cl \in [Clients -> ClientState], NEW c \in Clients, cl[c].pc \in Sending,
           NEW r \in Records, cl[c].file = r
    PROVE  UsesOf([cl EXCEPT ![c] = Idle]) = [UsesOf(cl) EXCEPT ![r] = @ - 1]
<1> DEFINE next == [cl EXCEPT ![c] = Idle]
<1>1. next[c].pc = "idle" /\ \A d \in Clients \ {c} : next[d] = cl[d]
  BY DEF Idle
<1> HIDE DEF next
<1>2. \A q \in Records \ {r} : HeldBy(next, q) = HeldBy(cl, q)
  BY <1>1 DEF HeldBy, Sending
<1>3. HeldBy(next, r) = HeldBy(cl, r) \ {c} /\ c \in HeldBy(cl, r)
  BY <1>1 DEF HeldBy, Sending
<1>4. IsFiniteSet(HeldBy(cl, r))
  <2>1. HeldBy(cl, r) \subseteq Clients
    BY DEF HeldBy
  <2> QED BY <2>1, DirAssumption, FS_Subset
<1>5. Cardinality(HeldBy(next, r)) = Cardinality(HeldBy(cl, r)) - 1
  BY <1>3, <1>4, FS_RemoveElement
<1>6. UsesOf(next) = [UsesOf(cl) EXCEPT ![r] = @ - 1]
  BY <1>2, <1>5 DEF UsesOf
<1> QED BY <1>6 DEF next

(* A connection that sends holds a record that was not freed. *)
LEMMA SentRecord ==
    ASSUME NEW f, NEW cache, NEW cl, Accounted(f, cache, UsesOf(cl)),
           NEW c \in Clients, cl[c].pc \in Sending, cl[c].file \in Records
    PROVE  UsesOf(cl)[cl[c].file] > 0 /\ f[cl[c].file] # NULL /\ f[cl[c].file] \in FileRecord
<1>1. UsesOf(cl)[cl[c].file] > 0
  BY UsesType
<1>2. f[cl[c].file] # NULL /\ f \in [Records -> FileRecord \cup {NULL}]
  BY <1>1 DEF Accounted
<1> QED BY <1>1, <1>2

(***************************************************************************)
(* The invariant.  A destroyed directory counts as an empty cache.         *)
(***************************************************************************)
TheCache == IF fr_cache = NULL THEN Cache_create ELSE fr_cache

CopyType == [path : Paths, st : FileStat, blocks : Nat]

FilesTypeOK ==
    /\ DiskTypeOK
    /\ fr_cache \in [1..CacheSize -> Slot] \cup {NULL}
    /\ client \in [Clients -> ClientState]
    /\ copy \in [Clients -> CopyType \cup {NULL}]

FilesInv ==
    /\ FilesTypeOK
    /\ Accounted(fr, TheCache, UsesOf(client))
    /\ BodyAsAnnounced

(* No file has been asked for. *)
LEMMA FilesInvInit == DirInit => FilesInv
<1> SUFFICES ASSUME DirInit PROVE FilesInv
  OBVIOUS
<1>1. PathSeq \in Seq(Paths) /\ Len(PathSeq) \in Nat /\ Paths = Range(PathSeq)
  BY DirAssumption DEF Paths
<1>2. \A p \in Paths : \E i \in 1..Len(PathSeq) : PathSeq[i] = p
  <2>1. DOMAIN PathSeq = 1..Len(PathSeq)
    BY <1>1
  <2>2. Paths = {PathSeq[i] : i \in 1..Len(PathSeq)}
    BY <1>1, <2>1, Zenon DEF Range
  <2> QED BY <2>2, Zenon
<1>3. DiskTypeOK
  <2>1. inodes \in Seq(Nat) /\ Len(inodes) = Len(PathSeq)
    <3>1. inodes = [i \in 1..Len(PathSeq) |-> 1]
      BY DEF DirInit
    <3> QED BY <1>1, <3>1
  <2>2. \A p \in Paths : (CHOOSE i \in 1..Len(PathSeq) : PathSeq[i] = p) \in 1..Len(PathSeq)
    BY <1>2, Zenon
  <2> DEFINE first(p) == CHOOSE i \in 1..Len(PathSeq) : PathSeq[i] = p
  <2>3. /\ disk = [p \in Paths |-> [kind |-> IF p = Last(PathSeq) THEN "dir" ELSE "file",
                                   ino |-> first(p), mtime |-> 0]]
        /\ clock = 0
    BY DEF DirInit
  <2>4. \A p \in Paths : first(p) \in 1..Len(PathSeq)
    BY <2>2
  <2> HIDE DEF first
  <2>5. \A p \in Paths : first(p) \in Nat
    BY <1>1, <2>4
  <2>6. disk \in [Paths -> [kind : {"none", "file", "dir"}, ino : Nat, mtime : Nat]]
    BY <2>3, <2>5
  <2>7. \A p \in Paths : disk[p].ino \in 1..Len(inodes)
    BY <2>1, <2>3, <2>4
  <2> QED BY <2>1, <2>3, <2>6, <2>7 DEF DiskTypeOK
<1>4. Cache_create \in [1..CacheSize -> Slot] /\ \A i \in 1..CacheSize : Cache_create[i].data = NULL
  BY CacheAssumption DEF Cache_create, Slot
<1>5. FilesTypeOK
  BY <1>3, <1>4 DEF FilesTypeOK, ClientState, DirInit
<1>6. TheCache = Cache_create
  BY DEF TheCache, DirInit
<1>7. \A r \in Records : UsesOf(client)[r] = 0
  <2>1. \A r \in Records : ~(UsesOf(client)[r] > 0)
    <3>1. \A c \in Clients : client[c].pc \notin Sending
      BY DEF DirInit, Idle, Sending
    <3> QED BY <3>1, UsesType
  <2> QED BY <2>1, UsesType
<1>8. \A r \in Records : ~InCache(Cache_create, r)
  BY <1>4, DirAssumption DEF InCache
<1>9. OneEach(fr, Cache_create)
  BY <1>4 DEF OneEach
<1>10. Accounted(fr, TheCache, UsesOf(client))
  <2>1. fr = [r \in Records |-> NULL]
    BY DEF DirInit
  <2> QED BY <1>4, <1>6, <1>7, <1>8, <1>9, <2>1, UsesType DEF Accounted
<1>11. BodyAsAnnounced
  BY DEF BodyAsAnnounced, DirInit
<1> QED BY <1>5, <1>10, <1>11 DEF FilesInv

(* The end of Dir_serve_file: the connection's record is released. *)
LEMMA ServedStep ==
    ASSUME FilesInv, NEW c \in Clients, client[c].pc \in Sending, Served(c),
           copy' \in [Clients -> CopyType \cup {NULL}], BodyAsAnnounced'
    PROVE  FilesInv'
<1> DEFINE r == client[c].file
<1>1. /\ client \in [Clients -> ClientState] /\ client' = [client EXCEPT ![c] = Idle]
      /\ fr' = FileRecord_release(fr, r) /\ UNCHANGED <<disk, inodes, clock, fr_cache>>
      /\ FilesTypeOK /\ Accounted(fr, TheCache, UsesOf(client))
  BY DEF FilesInv, FilesTypeOK, Served
<1>2. FilesTypeOK'
  BY <1>1 DEF FilesTypeOK, DiskTypeOK, ClientState
<1>3. TheCache' = TheCache
  BY <1>1 DEF TheCache
<1>4. r \in Records \cup {NULL}
  <2>1. client[c] \in ClientState
    BY <1>1
  <2> QED BY <2>1 DEF ClientState, Idle, Sending
<1>5. Accounted(fr', TheCache, UsesOf(client'))
  <2>1. CASE r = NULL
    <3>1. fr' = fr
      BY <1>1, <2>1 DEF FileRecord_release
    <3>2. Idle \in ClientState /\ Idle.pc \notin Sending
      BY DEF ClientState, Idle, Sending
    <3>3. \A q \in Records : ~(client[c].pc \in Sending /\ client[c].file = q)
      BY <2>1, DirAssumption
    <3>4. UsesOf(client') = UsesOf(client)
      BY <1>1, <3>2, <3>3, SameUses
    <3> QED BY <1>1, <3>1, <3>4
  <2>2. CASE r \in Records
    <3>1. UsesOf(client)[r] > 0
      BY <2>2, UsesType
    <3>2. UsesOf(client') = [UsesOf(client) EXCEPT ![r] = @ - 1]
      BY <1>1, <2>2, OneUseLess
    <3>3. Accounted(FileRecord_release(fr, r), TheCache, [UsesOf(client) EXCEPT ![r] = @ - 1])
      BY <1>1, <2>2, <3>1, DoneAccounted
    <3> HIDE DEF r
    <3> QED BY <1>1, <3>2, <3>3
  <2> QED BY <1>4, <2>1, <2>2
<1>6. Accounted(fr', TheCache', UsesOf(client'))
  BY <1>3, <1>5
<1> QED BY <1>2, <1>6 DEF FilesInv

(* A status is sent instead of the file. *)
LEMMA StatusStep ==
    ASSUME FilesInv, NEW c \in Clients, Response_send_status(c)
    PROVE  FilesInv'
<1>1. client[c].pc \in Sending /\ Served(c) /\ copy' = copy
  BY DEF Response_send_status, Sending
<1>2. copy' \in [Clients -> CopyType \cup {NULL}] /\ BodyAsAnnounced'
  BY <1>1 DEF FilesInv, FilesTypeOK, BodyAsAnnounced
<1> QED BY <1>1, <1>2, ServedStep

(* Dir_resolve_file adds the connection to the users of the record that it finds. *)
LEMMA ServeStep ==
    ASSUME FilesInv, NEW c \in Clients, NEW p \in Paths, NEW m \in {"GET", "POST"},
           NEW cond \in Conditions(c, p), Dir_serve_file(c, p, m, cond)
    PROVE  FilesInv'
<1> DEFINE found == IF m = "POST" THEN [data |-> NULL, cache |-> fr_cache, fr |-> fr]
                    ELSE Dir_resolve_file(p)
           file == IF found.data = NULL THEN NULL ELSE found.fr[found.data]
           status == IF m = "POST" THEN "405" ELSE Dir_calculate_response(file, cond)
           st == IF status = "send" THEN [pc |-> "header", file |-> found.data]
                 ELSE [pc |-> "status", file |-> found.data,
                       by_tag |-> status = "304" /\ cond.modified = NULL]
           uses == UsesOf(client)
<1>1. /\ client[c].pc = "idle" /\ fr_cache # NULL
      /\ fr' = found.fr /\ fr_cache' = found.cache /\ client' = [client EXCEPT ![c] = st]
      /\ UNCHANGED <<disk, inodes, clock, copy>>
  BY DEF Dir_serve_file
<1>2. /\ FilesTypeOK /\ DiskTypeOK /\ client \in [Clients -> ClientState]
      /\ Accounted(fr, fr_cache, uses) /\ BodyAsAnnounced
  BY <1>1 DEF FilesInv, FilesTypeOK, TheCache
<1>3. \/ found.data = NULL /\ Accounted(found.fr, found.cache, uses)
      \/ /\ found.data \in Records
         /\ Accounted(found.fr, found.cache, [uses EXCEPT ![found.data] = @ + 1])
  <2>1. CASE m = "POST"
    BY <1>2, <2>1
  <2>2. CASE m # "POST"
    <3> DEFINE holds == [d \in Clients |-> client[d].file]
    <3>1. \A r \in Records : uses[r] > 0 => \E d \in Clients : holds[d] = r
      BY UsesType
    <3>2. \/ Dir_resolve_file(p).data = NULL
             /\ Accounted(Dir_resolve_file(p).fr, Dir_resolve_file(p).cache, uses)
          \/ /\ Dir_resolve_file(p).data \in Records
             /\ Accounted(Dir_resolve_file(p).fr, Dir_resolve_file(p).cache,
                          [uses EXCEPT ![Dir_resolve_file(p).data] = @ + 1])
      <4> HIDE DEF uses, holds
      <4> QED BY <1>2, <3>1, ResolveAccounted
    <3> HIDE DEF uses
    <3> QED BY <2>2, <3>2
  <2> QED BY <2>1, <2>2
<1>4. found.data = NULL => status # "send"
  BY DEF Dir_calculate_response
<1>5. NULL \notin Records /\ found.data \in Records \cup {NULL}
  BY <1>3, DirAssumption
<1>6. (status = "304" /\ cond.modified = NULL) \in BOOLEAN
  OBVIOUS
<1> HIDE DEF status, found
<1>7. st \in ClientState /\ st.pc \in Sending /\ st.file = found.data
  <2>1. CASE status = "send"
    BY <1>4, <1>5, <2>1 DEF ClientState, Sending
  <2>2. CASE status # "send"
    BY <1>5, <1>6, <2>2 DEF ClientState, Sending
  <2> QED BY <2>1, <2>2
<1> HIDE DEF st
<1>8. Accounted(fr', fr_cache', UsesOf(client'))
  <2>1. CASE found.data = NULL
    <3>1. \A r \in Records : ~(st.pc \in Sending /\ st.file = r)
      BY <1>5, <1>7, <2>1
    <3>2. \A r \in Records : ~(client[c].pc \in Sending /\ client[c].file = r)
      BY <1>1 DEF Sending
    <3>3. UsesOf(client') = uses
      BY <1>1, <1>2, <1>7, <3>1, <3>2, SameUses
    <3> QED BY <1>1, <1>3, <1>5, <2>1, <3>3
  <2>2. CASE found.data # NULL
    <3>1. UsesOf(client') = [uses EXCEPT ![found.data] = @ + 1]
      <4>1. /\ client \in [Clients -> ClientState] /\ client[c].pc = "idle"
            /\ st \in ClientState /\ st.pc \in Sending /\ st.file \in Records
        BY <1>1, <1>2, <1>5, <1>7, <2>2
      <4>2. UsesOf([client EXCEPT ![c] = st]) = [UsesOf(client) EXCEPT ![st.file] = @ + 1]
        BY <4>1, OneMoreUse, ZenonT(60)
      <4>3. st.file = found.data /\ client' = [client EXCEPT ![c] = st]
        BY <1>1, <1>7
      <4> QED BY <4>2, <4>3, Zenon
    <3> HIDE DEF uses
    <3> QED BY <1>1, <1>3, <2>2, <3>1
  <2> QED BY <2>1, <2>2
<1>9. fr_cache' \in [1..CacheSize -> Slot] /\ fr_cache' # NULL /\ TheCache' = fr_cache'
  <2>1. fr_cache' \in [1..CacheSize -> Slot]
    BY <1>8 DEF Accounted
  <2> QED BY <2>1, DirAssumption DEF TheCache
<1>10. FilesTypeOK'
  BY <1>1, <1>2, <1>7, <1>9 DEF FilesTypeOK, DiskTypeOK
<1>11. BodyAsAnnounced'
  BY <1>1, <1>2 DEF BodyAsAnnounced
<1> QED BY <1>8, <1>9, <1>10, <1>11 DEF FilesInv

(* The body follows the header; the connection holds the same record. *)
LEMMA HeaderStep ==
    ASSUME FilesInv, NEW c \in Clients, Dir_send_header(c)
    PROVE  FilesInv'
<1>1. /\ client[c].pc = "header" /\ copy' = copy /\ FilesTypeOK /\ BodyAsAnnounced
      /\ client \in [Clients -> ClientState] /\ Accounted(fr, TheCache, UsesOf(client))
      /\ DiskTypeOK
  BY DEF Dir_send_header, FilesInv, FilesTypeOK
<1>2. copy' \in [Clients -> CopyType \cup {NULL}] /\ BodyAsAnnounced'
  BY <1>1 DEF FilesTypeOK, BodyAsAnnounced
<1>3. CASE Served(c)
  BY <1>1, <1>2, <1>3, ServedStep DEF Sending
<1> DEFINE r == client[c].file
           body == IF ssl THEN disk[fr[r].path] ELSE [kind |-> "file", ino |-> fr[r].ino]
           st == [pc |-> "stream", file |-> r, body |-> body.ino, total |-> 0]
<1>4. CASE client' = [client EXCEPT ![c] = st] /\ UNCHANGED <<disk, inodes, clock, fr, fr_cache>>
  <2>1. client[c] \in ClientState
    BY <1>1
  <2>2. r \in Records /\ client[c].pc \in Sending
    BY <1>1, <2>1 DEF ClientState, Idle, Sending
  <2>3. fr[r] \in FileRecord
    BY <1>1, <2>2, SentRecord
  <2>4. body.ino \in Nat
    BY <1>1, <2>3 DEF FileRecord, DiskTypeOK
  <2> HIDE DEF r, body
  <2>5. st \in ClientState /\ st.pc \in Sending /\ st.file = r
    BY <2>2, <2>4 DEF ClientState, Sending
  <2> HIDE DEF st
  <2>6. UsesOf(client') = UsesOf(client)
    <3>1. \A q \in Records : (st.pc \in Sending /\ st.file = q)
                              <=> (client[c].pc \in Sending /\ client[c].file = q)
      BY <2>2, <2>5 DEF r
    <3>2. UsesOf([client EXCEPT ![c] = st]) = UsesOf(client)
      BY <1>1, <2>5, <3>1, SameUses
    <3> QED BY <1>4, <3>2
  <2>7. TheCache' = TheCache /\ fr' = fr
    BY <1>4 DEF TheCache
  <2>8. FilesTypeOK'
    BY <1>1, <1>4, <2>5 DEF FilesTypeOK, DiskTypeOK
  <2> QED BY <1>1, <1>2, <2>6, <2>7, <2>8 DEF FilesInv
<1> QED BY <1>3, <1>4 DEF Dir_send_header

(* A block is sent; the connection holds the same record. *)
LEMMA BlockStep ==
    ASSUME FilesInv, NEW c \in Clients, Dir_stream_block(c)
    PROVE  FilesInv'
<1>1. /\ client[c].pc = "stream" /\ UNCHANGED <<disk, inodes, clock, fr, fr_cache, copy>>
      /\ client' = [client EXCEPT ![c].total = @ + 1]
      /\ client \in [Clients -> ClientState] /\ FilesTypeOK /\ BodyAsAnnounced
      /\ Accounted(fr, TheCache, UsesOf(client))
  BY DEF Dir_stream_block, FilesInv, FilesTypeOK
<1> DEFINE st == [client[c] EXCEPT !.total = @ + 1]
<1>2. client[c] \in ClientState
  BY <1>1
<1>3. client[c] \in [pc : {"stream"}, file : Records, body : Nat, total : Nat]
  BY <1>1, <1>2 DEF ClientState, Idle
<1>4. /\ st \in [pc : {"stream"}, file : Records, body : Nat, total : Nat]
      /\ st.file = client[c].file /\ st.pc = client[c].pc
  BY <1>3
<1>5. client' = [client EXCEPT ![c] = st]
  BY <1>1
<1>6. st \in ClientState
  BY <1>4 DEF ClientState
<1> HIDE DEF st
<1>7. UsesOf(client') = UsesOf(client)
  <2>1. \A q \in Records : (st.pc \in Sending /\ st.file = q)
                            <=> (client[c].pc \in Sending /\ client[c].file = q)
    BY <1>4
  <2>2. UsesOf([client EXCEPT ![c] = st]) = UsesOf(client)
    BY <1>1, <1>6, <2>1, SameUses
  <2> QED BY <1>5, <2>2
<1>8. FilesTypeOK'
  BY <1>1, <1>5, <1>6 DEF FilesTypeOK, DiskTypeOK
<1>9. TheCache' = TheCache /\ fr' = fr /\ BodyAsAnnounced'
  BY <1>1 DEF TheCache, BodyAsAnnounced
<1> QED BY <1>1, <1>7, <1>8, <1>9 DEF FilesInv

(* The file cannot be sent to its end. *)
LEMMA FailsStep ==
    ASSUME FilesInv, NEW c \in Clients, Dir_stream_fails(c)
    PROVE  FilesInv'
<1>1. client[c].pc \in Sending /\ Served(c) /\ copy' = copy
  BY DEF Dir_stream_fails, Sending
<1>2. copy' \in [Clients -> CopyType \cup {NULL}] /\ BodyAsAnnounced'
  BY <1>1 DEF FilesInv, FilesTypeOK, BodyAsAnnounced
<1> QED BY <1>1, <1>2, ServedStep

(* What counts as sent has as many blocks as the record says; the record is still there. *)
LEMMA EndsStep ==
    ASSUME FilesInv, NEW c \in Clients, Dir_stream_ends(c)
    PROVE  FilesInv'
<1> DEFINE f == fr[client[c].file]
           got == [path |-> f.path, st |-> f.st, blocks |-> client[c].total]
<1>1. /\ client[c].pc = "stream" /\ Served(c)
      /\ copy' = IF ~StreamedAll(c) THEN copy ELSE [copy EXCEPT ![c] = got]
      /\ client \in [Clients -> ClientState] /\ copy \in [Clients -> CopyType \cup {NULL}]
      /\ BodyAsAnnounced /\ Accounted(fr, TheCache, UsesOf(client))
  BY DEF Dir_stream_ends, FilesInv, FilesTypeOK
<1>2. client[c] \in ClientState
  BY <1>1
<1>3. client[c].pc \in Sending /\ client[c].file \in Records /\ client[c].total \in Nat
  BY <1>1, <1>2 DEF ClientState, Idle, Sending
<1>4. f \in FileRecord
  BY <1>1, <1>3, SentRecord
<1>5. got \in CopyType
  BY <1>3, <1>4 DEF CopyType, FileRecord
<1>6. StreamedAll(c) => got.blocks = got.st.size
  BY DEF StreamedAll
<1> HIDE DEF got
<1>7. copy' \in [Clients -> CopyType \cup {NULL}] /\ BodyAsAnnounced'
  BY <1>1, <1>5, <1>6 DEF BodyAsAnnounced
<1> QED BY <1>1, <1>3, <1>7, ServedStep

(* Dir_destroy takes the cache's use from every record that is in a slot. *)
LEMMA DestroyStep ==
    ASSUME FilesInv, Dir_destroy
    PROVE  FilesInv'
<1> DEFINE uses == UsesOf(client)
<1>1. /\ fr_cache # NULL /\ fr_cache' = NULL
      /\ fr' = [r \in Records |->
                   IF r \in Cached(fr_cache) THEN FileRecord_release(fr, r)[r] ELSE fr[r]]
      /\ UNCHANGED <<disk, inodes, clock, client, copy>>
      /\ FilesTypeOK /\ Accounted(fr, fr_cache, uses) /\ BodyAsAnnounced
  BY DEF Dir_destroy, FilesInv, TheCache
<1>2. fr \in [Records -> FileRecord \cup {NULL}] /\ uses \in [Records -> Nat]
  BY <1>1 DEF Accounted
<1>3. \A r \in Records : r \in Cached(fr_cache) <=> InCache(fr_cache, r)
  BY DirAssumption DEF Cached, InCache
<1> HIDE DEF uses
<1>4. ASSUME NEW r \in Records
      PROVE  /\ fr'[r] \in FileRecord \cup {NULL}
             /\ fr'[r] = NULL => uses[r] = 0
             /\ fr'[r] # NULL => fr'[r].users > 0 /\ fr'[r].users = uses[r]
  <2>1. fr'[r] = IF InCache(fr_cache, r) THEN FileRecord_release(fr, r)[r] ELSE fr[r]
    BY <1>1, <1>3
  <2>2. CASE InCache(fr_cache, r)
    <3>1. fr[r] # NULL /\ fr[r].users > 0 /\ fr[r].users = uses[r] + 1
      BY <1>1, <2>2 DEF Accounted
    <3>2. /\ FileRecord_release(fr, r) \in [Records -> FileRecord \cup {NULL}]
          /\ fr[r].users = 1 => fr'[r] = NULL
          /\ fr[r].users # 1 => fr'[r] # NULL /\ fr'[r].users = fr[r].users - 1
      BY <1>2, <2>1, <2>2, <3>1, ReleaseEffect
    <3>3. uses[r] \in Nat /\ fr'[r] \in FileRecord \cup {NULL}
      BY <1>2, <2>1, <2>2, <3>2
    <3> QED BY <3>1, <3>2, <3>3
  <2>3. CASE ~InCache(fr_cache, r)
    <3>1. fr'[r] = fr[r] /\ uses[r] \in Nat
      BY <1>2, <2>1, <2>3
    <3> QED BY <1>1, <1>2, <2>3, <3>1 DEF Accounted
  <2> QED BY <2>2, <2>3
<1>5. fr' \in [Records -> FileRecord \cup {NULL}]
  BY <1>1, <1>4
<1>6. /\ Cache_create \in [1..CacheSize -> Slot]
      /\ \A i \in 1..CacheSize : Cache_create[i].data = NULL
  BY CacheAssumption DEF Cache_create, Slot
<1>7. \A r \in Records : ~InCache(Cache_create, r)
  BY <1>6, DirAssumption DEF InCache
<1>8. OneEach(fr', Cache_create)
  BY <1>6 DEF OneEach
<1>9. \A r \in Records : fr'[r] # NULL =>
          fr'[r].users > 0 /\ fr'[r].users = uses[r] + (IF InCache(Cache_create, r) THEN 1 ELSE 0)
  BY <1>2, <1>4, <1>7
<1>10. Accounted(fr', Cache_create, uses)
  BY <1>2, <1>4, <1>5, <1>6, <1>7, <1>8, <1>9 DEF Accounted
<1>11. TheCache' = Cache_create /\ UsesOf(client') = uses
  BY <1>1 DEF TheCache, uses, Cache_create
<1>12. Accounted(fr', TheCache', UsesOf(client'))
  BY <1>10, <1>11
<1>13. FilesTypeOK' /\ BodyAsAnnounced'
  BY <1>1 DEF FilesTypeOK, DiskTypeOK, BodyAsAnnounced
<1> QED BY <1>12, <1>13 DEF FilesInv

(* What changes on the disk leaves the records as they are. *)
LEMMA WorldStep ==
    ASSUME FilesInv, DiskTypeOK', UNCHANGED <<fr, fr_cache, client, copy>>
    PROVE  FilesInv'
<1>1. FilesTypeOK /\ Accounted(fr, TheCache, UsesOf(client)) /\ BodyAsAnnounced
  BY DEF FilesInv
<1>2. TheCache' = TheCache /\ FilesTypeOK' /\ BodyAsAnnounced'
  BY <1>1 DEF TheCache, FilesTypeOK, BodyAsAnnounced
<1>3. Accounted(fr', TheCache', UsesOf(client'))
  BY <1>1, <1>2
<1> QED BY <1>2, <1>3 DEF FilesInv

(* A file is written, replaced or removed: its inode is one that was ever on the disk. *)
LEMMA ChangeStep ==
    ASSUME FilesInv, NEW p \in Paths, ChangeFile(p)
    PROVE  FilesInv'
<1>1. UNCHANGED <<fr, fr_cache, client, copy>> /\ clock' = clock /\ DiskTypeOK
  BY DEF ChangeFile, FilesInv, FilesTypeOK
<1>2. MaxSize \in Nat
  BY DirAssumption
<1> DEFINE There == [kind : {"none", "file", "dir"}, ino : Nat, mtime : Nat]
<1>3. /\ disk \in [Paths -> There] /\ inodes \in Seq(Nat) /\ clock \in Nat /\ Len(inodes) \in Nat
      /\ \A q \in Paths : disk[q].kind # "none" => disk[q].ino \in 1..Len(inodes)
  BY <1>1 DEF DiskTypeOK
<1>4. CASE \E n \in 1..MaxSize :
              /\ disk[p].kind = "file"
              /\ inodes' = [inodes EXCEPT ![disk[p].ino] = n]
              /\ disk' = [disk EXCEPT ![p].mtime = clock]
  <2>1. PICK n \in 1..MaxSize :
              /\ disk[p].kind = "file"
              /\ inodes' = [inodes EXCEPT ![disk[p].ino] = n]
              /\ disk' = [disk EXCEPT ![p].mtime = clock]
    BY <1>4
  <2>2. disk[p].ino \in 1..Len(inodes) /\ n \in Nat
    BY <1>2, <1>3, <2>1
  <2>3. inodes' \in Seq(Nat) /\ Len(inodes') = Len(inodes)
    BY <1>3, <2>1, <2>2
  <2> DEFINE now == [disk[p] EXCEPT !.mtime = clock]
  <2>4. now \in There /\ now.kind = disk[p].kind /\ now.ino = disk[p].ino
    BY <1>3
  <2>5. disk' = [disk EXCEPT ![p] = now]
    BY <2>1
  <2> HIDE DEF now, There
  <2>6. disk' \in [Paths -> There] /\ \A q \in Paths : disk'[q].kind = disk[q].kind /\ disk'[q].ino = disk[q].ino
    BY <1>3, <2>4, <2>5
  <2>7. \A q \in Paths : disk'[q].kind # "none" => disk'[q].ino \in 1..Len(inodes')
    BY <1>3, <2>3, <2>6
  <2>8. clock' \in Nat
    BY <1>1, <1>3
  <2>9. DiskTypeOK'
    BY <2>3, <2>6, <2>7, <2>8 DEF DiskTypeOK, There
  <2> QED BY <1>1, <2>9, WorldStep
<1>5. CASE \E n \in 1..MaxSize :
              /\ inodes' = Append(inodes, n)
              /\ disk' = [disk EXCEPT ![p] =
                             [kind |-> "file", ino |-> Len(inodes) + 1, mtime |-> clock]]
  <2> DEFINE now == [kind |-> "file", ino |-> Len(inodes) + 1, mtime |-> clock]
  <2>1. PICK n \in 1..MaxSize : inodes' = Append(inodes, n) /\ disk' = [disk EXCEPT ![p] = now]
    BY <1>5
  <2>2. inodes' \in Seq(Nat) /\ Len(inodes') = Len(inodes) + 1
    BY <1>2, <1>3, <2>1
  <2>3. now \in There /\ now.ino = Len(inodes) + 1
    BY <1>3
  <2> HIDE DEF now, There
  <2>4. disk' \in [Paths -> There] /\ disk'[p] = now /\ \A q \in Paths \ {p} : disk'[q] = disk[q]
    BY <1>3, <2>1, <2>3
  <2>5. \A q \in Paths : disk'[q].kind # "none" => disk'[q].ino \in 1..Len(inodes')
    BY <1>3, <2>2, <2>3, <2>4
  <2>6. clock' \in Nat
    BY <1>1, <1>3
  <2>7. DiskTypeOK'
    BY <2>2, <2>4, <2>5, <2>6 DEF DiskTypeOK, There
  <2> QED BY <1>1, <2>7, WorldStep
<1>6. CASE disk' = [disk EXCEPT ![p] = Nothing] /\ UNCHANGED inodes
  <2>1. Nothing \in There /\ Nothing.kind = "none"
    BY DEF Nothing
  <2> HIDE DEF There
  <2>2. disk' \in [Paths -> There] /\ disk'[p] = Nothing /\ \A q \in Paths \ {p} : disk'[q] = disk[q]
    BY <1>3, <1>6, <2>1
  <2>3. \A q \in Paths : disk'[q].kind # "none" => disk'[q].ino \in 1..Len(inodes')
    BY <1>3, <1>6, <2>1, <2>2
  <2>4. DiskTypeOK'
    BY <1>1, <1>3, <1>6, <2>2, <2>3 DEF DiskTypeOK, There
  <2> QED BY <1>1, <2>4, WorldStep
<1> QED BY <1>4, <1>5, <1>6 DEF ChangeFile

(* Time passes. *)
LEMMA SecondStep ==
    ASSUME FilesInv, Second
    PROVE  FilesInv'
<1>1. DiskTypeOK /\ UNCHANGED <<disk, inodes, fr, fr_cache, client, copy>> /\ clock' = clock + 1
  BY DEF FilesInv, FilesTypeOK, Second
<1>2. DiskTypeOK'
  BY <1>1 DEF DiskTypeOK
<1> QED BY <1>1, <1>2, WorldStep

(* Every step keeps the accounts, whatever is evicted, expires or is destroyed meanwhile. *)
THEOREM FilesInvariant == DirSpec => []FilesInv
<1>1. DirInit => FilesInv
  BY FilesInvInit
<1>2. FilesInv /\ [DirNext]_dirvars => FilesInv'
  <2> SUFFICES ASSUME FilesInv, [DirNext]_dirvars PROVE FilesInv'
    OBVIOUS
  <2>1. ASSUME NEW c \in Clients, NEW p \in Paths, NEW m \in {"GET", "POST"},
               NEW cond \in Conditions(c, p), Dir_serve_file(c, p, m, cond)
        PROVE  FilesInv'
    BY <2>1, ServeStep
  <2>2. ASSUME NEW c \in Clients, Response_send_status(c) PROVE FilesInv'
    BY <2>2, StatusStep
  <2>3. ASSUME NEW c \in Clients, Dir_send_header(c) PROVE FilesInv'
    BY <2>3, HeaderStep
  <2>4. ASSUME NEW c \in Clients, Dir_stream_block(c) PROVE FilesInv'
    BY <2>4, BlockStep
  <2>5. ASSUME NEW c \in Clients, Dir_stream_fails(c) PROVE FilesInv'
    BY <2>5, FailsStep
  <2>6. ASSUME NEW c \in Clients, Dir_stream_ends(c) PROVE FilesInv'
    BY <2>6, EndsStep
  <2>7. CASE Dir_destroy
    BY <2>7, DestroyStep
  <2>8. ASSUME NEW p \in Changing, ChangeFile(p) PROVE FilesInv'
    <3>1. p \in Paths
      BY DirAssumption
    <3> QED BY <2>8, <3>1, ChangeStep
  <2>9. CASE Second
    BY <2>9, SecondStep
  <2>10. CASE UNCHANGED dirvars
    <3>1. UNCHANGED <<disk, inodes, clock, fr, fr_cache, client, copy>> /\ DiskTypeOK
      BY <2>10 DEF dirvars, FilesInv, FilesTypeOK
    <3>2. DiskTypeOK'
      BY <3>1 DEF DiskTypeOK
    <3> QED BY <3>1, <3>2, WorldStep
  <2> QED BY <2>1, <2>2, <2>3, <2>4, <2>5, <2>6, <2>7, <2>8, <2>9, <2>10 DEF DirNext
<1> QED BY <1>1, <1>2, PTL DEF DirSpec

(***************************************************************************)
(* FileRecord_release, Dir_resolve_file, Dir_destroy: a record has as many *)
(* users as connections and slots hold it, it is free exactly when nobody  *)
(* does, a path has one record in the cache, and a body that counts as     *)
(* sent has the announced length.                                          *)
(***************************************************************************)
THEOREM RecordsAreAccounted == DirSpec => []RecordsAccounted
<1>1. ASSUME FilesInv PROVE RecordsAccounted
  <2> DEFINE uses == UsesOf(client)
  <2>1. /\ Accounted(fr, TheCache, uses) /\ BodyAsAnnounced
        /\ fr_cache = NULL \/ fr_cache \in [1..CacheSize -> Slot]
    BY <1>1 DEF FilesInv, FilesTypeOK
  <2>2. ASSUME NEW r \in Records
        PROVE  Cardinality(UsedBy(r)) = uses[r] /\ uses[r] \in Nat
    <3>1. UsedBy(r) = HeldBy(client, r)
      BY DEF UsedBy, HeldBy, Sending
    <3> QED BY <3>1, UsesType DEF UsesOf
  <2>3. ASSUME NEW r \in Records
        PROVE  Cardinality(SlotsOf(r)) = IF InCache(TheCache, r) THEN 1 ELSE 0
    <3>1. CASE fr_cache = NULL
      <4>1. SlotsOf(r) = {} /\ ~InCache(TheCache, r)
        BY <3>1, DirAssumption DEF SlotsOf, TheCache, InCache, Cache_create
      <4> QED BY <4>1, FS_EmptySet
    <3>2. CASE fr_cache # NULL /\ InCache(TheCache, r)
      <4>1. PICK i \in 1..CacheSize : fr_cache[i].data = r
        BY <3>2 DEF InCache, TheCache
      <4>2. r # NULL /\ Accounted(fr, fr_cache, uses)
        BY <2>1, <3>2, DirAssumption DEF TheCache
      <4>3. \A j \in 1..CacheSize : fr_cache[j].data = r => j = i
        BY <4>1, <4>2, CachedRecord
      <4>4. SlotsOf(r) = {i}
        BY <3>2, <4>1, <4>3 DEF SlotsOf
      <4> QED BY <3>2, <4>4, FS_Singleton
    <3>3. CASE fr_cache # NULL /\ ~InCache(TheCache, r)
      <4>1. SlotsOf(r) = {}
        BY <3>3 DEF SlotsOf, TheCache, InCache
      <4> QED BY <3>3, <4>1, FS_EmptySet
    <3> QED BY <3>1, <3>2, <3>3
  <2> HIDE DEF uses
  <2>4. UsersAreHolders
    <3> SUFFICES ASSUME NEW r \in Records
                 PROVE  LET holders == Cardinality(UsedBy(r)) + Cardinality(SlotsOf(r))
                        IN  IF fr[r] = NULL THEN holders = 0 ELSE fr[r].users = holders /\ holders > 0
      BY DEF UsersAreHolders
    <3>1. Cardinality(UsedBy(r)) = uses[r] /\ uses[r] \in Nat
      BY <2>2
    <3>2. Cardinality(SlotsOf(r)) = IF InCache(TheCache, r) THEN 1 ELSE 0
      BY <2>3
    <3>3. CASE fr[r] = NULL
      <4>1. uses[r] = 0 /\ ~InCache(TheCache, r)
        BY <2>1, <3>3 DEF Accounted
      <4> QED BY <3>1, <3>2, <3>3, <4>1
    <3>4. CASE fr[r] # NULL
      <4>1. fr[r].users > 0 /\ fr[r].users = uses[r] + (IF InCache(TheCache, r) THEN 1 ELSE 0)
        BY <2>1, <3>4 DEF Accounted
      <4> QED BY <3>1, <3>2, <3>4, <4>1
    <3> QED BY <3>3, <3>4
  <2>5. OneRecordPerPath
    <3>1. OneEach(fr, TheCache)
      BY <2>1 DEF Accounted
    <3> QED BY <3>1 DEF OneRecordPerPath, OneEach, TheCache
  <2> QED BY <2>1, <2>4, <2>5 DEF RecordsAccounted
<1> QED BY <1>1, FilesInvariant, PTL

(***************************************************************************)
(* What is announced was there: a record tells what was at its path when   *)
(* it was loaded, or later.                                                *)
(***************************************************************************)
StatOf(d, i, p) == [mtime |-> d[p].mtime, size |-> i[d[p].ino]]

WasSince(d, i, g, p, st, t) ==
    \/ d[p].kind # "none" /\ StatOf(d, i, p) = st
    \/ \E v \in g : v[1] = p /\ v[2] = st /\ v[3] >= t

FreshRecord(f, d, i, g, now) ==
    /\ f.loaded = NULL => f.is_dir
    /\ f.loaded # NULL => f.loaded <= now /\ WasSince(d, i, g, f.path, f.st, f.loaded)

(* Two paths never have the same inode, so that a file changes at one path only. *)
FreshInv ==
    /\ \A p, q \in Paths :
          disk[p].kind # "none" /\ disk[q].kind # "none" /\ disk[p].ino = disk[q].ino => p = q
    /\ gone \subseteq Paths \X FileStat \X Nat
    /\ \A r \in Records : fr[r] # NULL => FreshRecord(fr[r], disk, inodes, gone, clock)

(* Only the users of a record change; or it is loaded now. *)
SameFile(g, f) == g.path = f.path /\ g.st = f.st /\ g.is_dir = f.is_dir /\ g.loaded = f.loaded

JustLoaded(g) ==
    /\ g.path \in Paths /\ disk[g.path].kind # "none" /\ g.st = Stat(g.path)
    /\ g.loaded = clock \/ (g.is_dir /\ g.loaded = NULL)

(* FileRecord_release changes no file. *)
LEMMA ReleaseKeepsFiles ==
    ASSUME NEW f \in [Records -> FileRecord \cup {NULL}], NEW r \in Records \cup {NULL},
           r # NULL => f[r] # NULL, NEW q \in Records, FileRecord_release(f, r)[q] # NULL
    PROVE  f[q] # NULL /\ SameFile(FileRecord_release(f, r)[q], f[q])
<1>1. CASE r = NULL
  <2>1. FileRecord_release(f, r) = f
    BY <1>1 DEF FileRecord_release
  <2> QED BY <2>1 DEF SameFile
<1>2. CASE r # NULL /\ f[r].users = 1
  <2>1. FileRecord_release(f, r) = [f EXCEPT ![r] = NULL]
    BY <1>2 DEF FileRecord_release
  <2>2. FileRecord_release(f, r)[q] = f[q]
    BY <1>2, <2>1
  <2> QED BY <2>2 DEF SameFile
<1>3. CASE r # NULL /\ f[r].users # 1
  <2> DEFINE less == [f[r] EXCEPT !.users = @ - 1]
  <2>1. FileRecord_release(f, r) = [f EXCEPT ![r] = less]
    BY <1>3 DEF FileRecord_release
  <2>2. f[r] \in FileRecord
    BY <1>3
  <2>3. SameFile(less, f[r])
    BY <2>2 DEF FileRecord, SameFile
  <2> HIDE DEF less
  <2>4. CASE q = r
    BY <1>3, <2>1, <2>3, <2>4
  <2>5. CASE q # r
    <3>1. FileRecord_release(f, r)[q] = f[q]
      BY <2>1, <2>5
    <3> QED BY <3>1 DEF SameFile
  <2> QED BY <2>4, <2>5
<1> QED BY <1>1, <1>2, <1>3

(* FileRecord_cache_check: a record that it finds is loaded now or has not expired. *)
LEMMA CheckedFile ==
    ASSUME NEW uses, Accounted(fr, fr_cache, uses), DiskTypeOK, NEW p \in Paths
    PROVE  LET checked == FileRecord_cache_check(p)
           IN  /\ \A q \in Records : checked.fr[q] # NULL =>
                     (fr[q] # NULL /\ SameFile(checked.fr[q], fr[q])) \/ JustLoaded(checked.fr[q])
               /\ checked.data # NULL =>
                     /\ checked.fr[checked.data].path = p
                     /\ \/ JustLoaded(checked.fr[checked.data])
                        \/ /\ fr[checked.data] # NULL /\ ~Expired(checked.data)
                           /\ checked.fr[checked.data] = fr[checked.data]
<1> DEFINE matching == {r \in Records : fr[r] # NULL /\ fr[r].path = p}
           found == Cache_lookup(fr_cache, matching)
           r == found.data
           checked == FileRecord_cache_check(p)
<1>1. fr_cache \in [1..CacheSize -> Slot] /\ fr \in [Records -> FileRecord \cup {NULL}]
  BY DEF Accounted
<1>2. r = NULL \/ r \in matching
  <2>1. LookedUp(fr_cache, matching, found)
    BY <1>1, LookupEffect
  <2> HIDE DEF found, matching
  <2> QED BY <2>1 DEF LookedUp
<1>3. checked = IF r = NULL \/ ~Expired(r) THEN [data |-> r, cache |-> found.cache, fr |-> fr]
                ELSE IF Changed(r)
                THEN [data |-> NULL, cache |-> Cache_evict_object(found.cache, r),
                      fr |-> FileRecord_release(fr, r)]
                ELSE [data |-> r, cache |-> found.cache, fr |-> [fr EXCEPT ![r].loaded = clock]]
  BY DEF FileRecord_cache_check
<1> HIDE DEF found, checked
<1>4. CASE r = NULL \/ ~Expired(r)
  <2>1. checked.data = r /\ checked.fr = fr
    BY <1>3, <1>4
  <2>2. \A q \in Records : SameFile(fr[q], fr[q])
    BY DEF SameFile
  <2>3. r # NULL => fr[r] # NULL /\ fr[r].path = p /\ ~Expired(r)
    BY <1>2, <1>4
  <2> QED BY <2>1, <2>2, <2>3 DEF checked
<1>5. CASE r # NULL /\ Expired(r) /\ Changed(r)
  <2>1. checked.data = NULL /\ checked.fr = FileRecord_release(fr, r)
    BY <1>3, <1>5
  <2>2. r \in Records /\ fr[r] # NULL
    BY <1>2, <1>5
  <2>3. \A q \in Records : checked.fr[q] # NULL => fr[q] # NULL /\ SameFile(checked.fr[q], fr[q])
    BY <1>1, <2>1, <2>2, ReleaseKeepsFiles
  <2> QED BY <2>1, <2>3 DEF checked
<1>6. CASE r # NULL /\ Expired(r) /\ ~Changed(r)
  <2> DEFINE now == [fr[r] EXCEPT !.loaded = clock]
  <2>1. checked.data = r /\ checked.fr = [fr EXCEPT ![r] = now]
    BY <1>3, <1>6
  <2>2. r \in Records /\ fr[r] \in FileRecord /\ fr[r].path = p
    BY <1>1, <1>2, <1>6
  <2>3. now.path = p /\ now.st = fr[r].st /\ now.loaded = clock
    BY <2>2 DEF FileRecord
  <2>4. disk[p].kind # "none" /\ fr[r].st = Stat(p)
    BY <1>6, <2>2 DEF Changed
  <2> HIDE DEF now
  <2>5. JustLoaded(now)
    BY <2>3, <2>4 DEF JustLoaded
  <2>6. checked.fr[r] = now /\ \A q \in Records \ {r} : checked.fr[q] = fr[q]
    BY <1>1, <2>1, <2>2
  <2>7. \A q \in Records : SameFile(fr[q], fr[q])
    BY DEF SameFile
  <2> QED BY <2>1, <2>3, <2>5, <2>6, <2>7 DEF checked
<1> QED BY <1>4, <1>5, <1>6

(* Dir_resolve_file: so is the record that it returns, which is one of the path. *)
LEMMA ResolvedFile ==
    ASSUME NEW uses, Accounted(fr, fr_cache, uses), DiskTypeOK, NEW p \in Paths, NEW file,
           \A r \in Records : uses[r] > 0 => \E c \in Clients : file[c] = r
    PROVE  LET found == Dir_resolve_file(p)
           IN  /\ \A q \in Records : found.fr[q] # NULL =>
                     (fr[q] # NULL /\ SameFile(found.fr[q], fr[q])) \/ JustLoaded(found.fr[q])
               /\ found.data # NULL =>
                     /\ found.fr[found.data].path = p
                     /\ \/ JustLoaded(found.fr[found.data])
                        \/ /\ fr[found.data] # NULL /\ ~Expired(found.data)
                           /\ SameFile(found.fr[found.data], fr[found.data])
<1> DEFINE checked == FileRecord_cache_check(p)
           free == {r \in Records : checked.fr[r] = NULL}
           new == Min(free)
           added == Cache_add(checked.cache, new)
           rec == [Dir_find_file(p) EXCEPT !.users = 2]
           found == Dir_resolve_file(p)
<1>1. /\ Accounted(checked.fr, checked.cache, uses)
      /\ checked.data # NULL => checked.data \in Records /\ checked.fr[checked.data] # NULL
  BY CheckAccounted
<1>2. /\ \A q \in Records : checked.fr[q] # NULL =>
            (fr[q] # NULL /\ SameFile(checked.fr[q], fr[q])) \/ JustLoaded(checked.fr[q])
      /\ checked.data # NULL =>
            /\ checked.fr[checked.data].path = p
            /\ \/ JustLoaded(checked.fr[checked.data])
               \/ /\ fr[checked.data] # NULL /\ ~Expired(checked.data)
                  /\ checked.fr[checked.data] = fr[checked.data]
  BY CheckedFile
<1>3. found = IF checked.data # NULL
              THEN [data |-> checked.data, cache |-> checked.cache,
                    fr |-> [checked.fr EXCEPT ![checked.data].users = @ + 1]]
              ELSE IF disk[p].kind = "none" THEN checked
              ELSE [data |-> new, cache |-> added.cache,
                    fr |-> FileRecord_release([checked.fr EXCEPT ![new] = rec], added.evicted)]
  BY DEF Dir_resolve_file
<1>4. checked.fr \in [Records -> FileRecord \cup {NULL}]
  BY <1>1 DEF Accounted
<1>5. /\ \A f, g, h : SameFile(f, g) /\ SameFile(g, h) => SameFile(f, h)
      /\ \A f, g : SameFile(f, g) /\ JustLoaded(g) => JustLoaded(f)
  BY DEF SameFile, JustLoaded
<1> HIDE DEF checked, found
<1>6. CASE checked.data # NULL
  <2> DEFINE d == checked.data
             more == [checked.fr[d] EXCEPT !.users = @ + 1]
  <2>1. found.data = d /\ found.fr = [checked.fr EXCEPT ![d] = more]
    BY <1>3, <1>6
  <2>2. d \in Records /\ checked.fr[d] \in FileRecord
    BY <1>1, <1>4, <1>6
  <2>3. SameFile(more, checked.fr[d]) /\ more.path = checked.fr[d].path
    BY <2>2 DEF SameFile, FileRecord
  <2> HIDE DEF more
  <2>4. found.fr[d] = more /\ \A q \in Records \ {d} : found.fr[q] = checked.fr[q]
    BY <1>4, <2>1, <2>2
  <2>5. \A q \in Records : found.fr[q] # NULL =>
            (fr[q] # NULL /\ SameFile(found.fr[q], fr[q])) \/ JustLoaded(found.fr[q])
    <3>1. checked.fr[d] # NULL
      BY <1>1, <1>6
    <3> HIDE DEF d
    <3> SUFFICES ASSUME NEW q \in Records, found.fr[q] # NULL
                 PROVE  (fr[q] # NULL /\ SameFile(found.fr[q], fr[q])) \/ JustLoaded(found.fr[q])
      OBVIOUS
    <3>2. CASE q = d
      <4>1. SameFile(found.fr[q], checked.fr[q])
        BY <2>3, <2>4, <3>2
      <4>2. (fr[q] # NULL /\ SameFile(checked.fr[q], fr[q])) \/ JustLoaded(checked.fr[q])
        BY <1>2, <3>1, <3>2
      <4> QED BY <1>5, <4>1, <4>2
    <3>3. CASE q # d
      BY <1>2, <2>4, <3>3
    <3> QED BY <3>2, <3>3
  <2>6. /\ found.fr[d].path = p
        /\ \/ JustLoaded(found.fr[d])
           \/ fr[d] # NULL /\ SameFile(found.fr[d], fr[d]) /\ ~Expired(d)
    BY <1>2, <1>5, <1>6, <2>3, <2>4
  <2> HIDE DEF d
  <2> QED BY <2>1, <2>5, <2>6 DEF found
<1>7. CASE checked.data = NULL /\ disk[p].kind = "none"
  <2>1. found = checked
    BY <1>3, <1>7
  <2> QED BY <1>2, <1>7, <2>1 DEF found
<1>8. CASE checked.data = NULL /\ disk[p].kind # "none"
  <2>1. \E r \in Records : checked.fr[r] = NULL
    BY <1>1, FreeRecord
  <2>2. new \in Records /\ checked.fr[new] = NULL
    <3>1. free \subseteq Nat /\ free # {}
      BY <2>1 DEF Records
    <3>2. new \in free
      BY <3>1, MinTaken
    <3> QED BY <3>2
  <2> HIDE DEF new
  <2>3. rec \in FileRecord /\ rec.users = 2 /\ rec.path = p
    BY <1>8, NewRecord
  <2>4. JustLoaded(rec)
    BY <1>8 DEF JustLoaded, Dir_find_file
  <2> HIDE DEF rec
  <2> DEFINE i == min_idx(checked.cache)
             entered == [checked.fr EXCEPT ![new] = rec]
  <2>5. checked.cache \in [1..CacheSize -> Slot]
    BY <1>1 DEF Accounted
  <2>6. i \in 1..CacheSize /\ added.evicted = checked.cache[i].data
    BY <2>2, <2>5, SlotToTake, AddEffect
  <2> HIDE DEF i, added
  <2>7. added.evicted # NULL =>
            added.evicted \in Records /\ checked.fr[added.evicted] # NULL /\ added.evicted # new
    BY <1>1, <2>2, <2>6, CachedRecord
  <2>8. /\ entered \in [Records -> FileRecord \cup {NULL}] /\ entered[new] = rec
        /\ \A q \in Records \ {new} : entered[q] = checked.fr[q]
    BY <1>4, <2>2, <2>3
  <2>9. found.data = new /\ found.fr = FileRecord_release(entered, added.evicted)
    BY <1>3, <1>8
  <2> HIDE DEF entered
  <2>10. added.evicted # NULL => entered[added.evicted] # NULL
    BY <2>7, <2>8
  <2>11. \A q \in Records : found.fr[q] # NULL => entered[q] # NULL /\ SameFile(found.fr[q], entered[q])
    BY <2>7, <2>8, <2>9, <2>10, ReleaseKeepsFiles
  <2>12. \A q \in Records : found.fr[q] # NULL =>
            (fr[q] # NULL /\ SameFile(found.fr[q], fr[q])) \/ JustLoaded(found.fr[q])
    <3> SUFFICES ASSUME NEW q \in Records, found.fr[q] # NULL
                 PROVE  (fr[q] # NULL /\ SameFile(found.fr[q], fr[q])) \/ JustLoaded(found.fr[q])
      OBVIOUS
    <3>1. entered[q] # NULL /\ SameFile(found.fr[q], entered[q])
      BY <2>11
    <3>2. CASE q = new
      <4>1. JustLoaded(entered[q])
        BY <2>4, <2>8, <3>2
      <4> QED BY <1>5, <3>1, <4>1
    <3>3. CASE q # new
      <4>1. (fr[q] # NULL /\ SameFile(entered[q], fr[q])) \/ JustLoaded(entered[q])
        BY <1>2, <2>8, <3>1, <3>3
      <4> QED BY <1>5, <3>1, <4>1
    <3> QED BY <3>2, <3>3
  <2>13. found.fr[new] # NULL
    <3>1. Accounted(found.fr, found.cache, [uses EXCEPT ![new] = @ + 1])
      <4>1. \/ found.data = NULL /\ Accounted(found.fr, found.cache, uses)
            \/ /\ found.data \in Records
               /\ Accounted(found.fr, found.cache, [uses EXCEPT ![found.data] = @ + 1])
        BY ResolveAccounted DEF found
      <4>2. new # NULL
        BY <2>2, DirAssumption
      <4> QED BY <2>9, <4>1, <4>2
    <3>2. uses \in [Records -> Nat]
      BY <1>1 DEF Accounted
    <3>3. [uses EXCEPT ![new] = @ + 1][new] # 0
      BY <2>2, <3>2
    <3> QED BY <2>2, <3>1, <3>3 DEF Accounted
  <2>14. found.fr[new].path = p /\ JustLoaded(found.fr[new])
    BY <1>5, <2>2, <2>3, <2>4, <2>8, <2>11, <2>13 DEF SameFile
  <2> QED BY <2>9, <2>12, <2>14 DEF found
<1> QED BY <1>6, <1>7, <1>8

(* What the steps that leave the disk alone do to the records. *)
LEMMA FreshKept ==
    ASSUME FilesInv, FreshInv, UNCHANGED <<disk, inodes, clock, gone>>,
           \A r \in Records : fr'[r] # NULL =>
               (fr[r] # NULL /\ SameFile(fr'[r], fr[r])) \/ JustLoaded(fr'[r])
    PROVE  FreshInv'
<1>1. clock \in Nat /\ \A q : Stat(q) = StatOf(disk, inodes, q)
  BY DEF FilesInv, FilesTypeOK, DiskTypeOK, Stat, Size, StatOf
<1>2. ASSUME NEW r \in Records, fr'[r] # NULL
      PROVE  FreshRecord(fr'[r], disk, inodes, gone, clock)
  <2>1. CASE fr[r] # NULL /\ SameFile(fr'[r], fr[r])
    <3>1. FreshRecord(fr[r], disk, inodes, gone, clock)
      BY <2>1 DEF FreshInv
    <3> QED BY <2>1, <3>1 DEF FreshRecord, SameFile
  <2>2. CASE JustLoaded(fr'[r])
    <3>1. WasSince(disk, inodes, gone, fr'[r].path, fr'[r].st, clock)
      BY <1>1, <2>2 DEF JustLoaded, WasSince
    <3>2. clock <= clock /\ NULL # clock
      BY <1>1, DirAssumption
    <3> QED BY <2>2, <3>1, <3>2 DEF FreshRecord, JustLoaded
  <2> QED BY <1>2, <2>1, <2>2
<1> QED BY <1>2 DEF FreshInv

(* The end of a use takes a record's last user or one of them. *)
LEMMA ServedFresh ==
    ASSUME FilesInv, FreshInv, NEW c \in Clients, client[c].pc \in Sending, Served(c), gone' = gone
    PROVE  FreshInv'
<1>1. /\ Accounted(fr, TheCache, UsesOf(client)) /\ client \in [Clients -> ClientState]
      /\ fr' = FileRecord_release(fr, client[c].file) /\ UNCHANGED <<disk, inodes, clock, gone>>
  BY DEF FilesInv, FilesTypeOK, Served
<1>2. client[c] \in ClientState
  BY <1>1
<1>3. client[c].file \in Records \cup {NULL}
  BY <1>2 DEF ClientState, Idle, Sending
<1>4. client[c].file # NULL => fr[client[c].file] # NULL
  BY <1>1, <1>3, SentRecord
<1>5. fr \in [Records -> FileRecord \cup {NULL}]
  BY <1>1 DEF Accounted
<1>6. \A r \in Records : fr'[r] # NULL => fr[r] # NULL /\ SameFile(fr'[r], fr[r])
  BY <1>1, <1>3, <1>4, <1>5, ReleaseKeepsFiles
<1> QED BY <1>1, <1>6, FreshKept

(* No file has been changed or asked for; every path has an inode of its own. *)
LEMMA FreshInvInit == DirInit => FreshInv
<1> SUFFICES ASSUME DirInit PROVE FreshInv
  OBVIOUS
<1> DEFINE first(p) == CHOOSE i \in 1..Len(PathSeq) : PathSeq[i] = p
<1>1. \A p \in Paths : PathSeq[first(p)] = p
  <2>1. PathSeq \in Seq(Paths) /\ Paths = Range(PathSeq)
    BY DirAssumption DEF Paths
  <2>2. DOMAIN PathSeq = 1..Len(PathSeq)
    BY <2>1
  <2>3. Paths = {PathSeq[i] : i \in 1..Len(PathSeq)}
    BY <2>1, <2>2, Zenon DEF Range
  <2>4. \A p \in Paths : \E i \in 1..Len(PathSeq) : PathSeq[i] = p
    BY <2>3, Zenon
  <2> QED BY <2>4, Zenon
<1>2. \A p \in Paths : disk[p].ino = first(p)
  BY DEF DirInit
<1> HIDE DEF first
<1>3. \A p, q \in Paths : disk[p].ino = disk[q].ino => p = q
  BY <1>1, <1>2
<1>4. gone = {} /\ \A r \in Records : fr[r] = NULL
  BY DEF DirInit
<1> QED BY <1>3, <1>4 DEF FreshInv

(* What Dir_serve_file does to the records, and the record that it answers from. *)
LEMMA ServeEffect ==
    ASSUME FilesInv, NEW c \in Clients, NEW p \in Paths, NEW m \in {"GET", "POST"},
           NEW cond \in Conditions(c, p), Dir_serve_file(c, p, m, cond)
    PROVE  /\ \A q \in Records : fr'[q] # NULL =>
                  (fr[q] # NULL /\ SameFile(fr'[q], fr[q])) \/ JustLoaded(fr'[q])
           /\ \/ client'[c].pc = "header"
              \/ client'[c].pc = "status" /\ client'[c].by_tag
              => LET d == client'[c].file
                 IN  /\ d \in Records /\ fr'[d] # NULL /\ fr'[d].path = p /\ ~fr'[d].is_dir
                     /\ \/ JustLoaded(fr'[d])
                        \/ fr[d] # NULL /\ ~Expired(d) /\ SameFile(fr'[d], fr[d])
           /\ client'[c].pc = "status" /\ client'[c].by_tag
              => /\ copy[c] # NULL /\ copy[c].path = p
                 /\ etag(copy[c].st) = etag(fr'[client'[c].file].st)
<1> DEFINE found == IF m = "POST" THEN [data |-> NULL, cache |-> fr_cache, fr |-> fr]
                    ELSE Dir_resolve_file(p)
           file == IF found.data = NULL THEN NULL ELSE found.fr[found.data]
           status == IF m = "POST" THEN "405" ELSE Dir_calculate_response(file, cond)
           st == IF status = "send" THEN [pc |-> "header", file |-> found.data]
                 ELSE [pc |-> "status", file |-> found.data,
                       by_tag |-> status = "304" /\ cond.modified = NULL]
           uses == UsesOf(client)
<1>1. /\ fr_cache # NULL /\ fr' = found.fr /\ client' = [client EXCEPT ![c] = st]
  BY DEF Dir_serve_file
<1>2. /\ DiskTypeOK /\ client \in [Clients -> ClientState] /\ Accounted(fr, fr_cache, uses)
  BY <1>1 DEF FilesInv, FilesTypeOK, TheCache
<1>3. /\ \A q \in Records : found.fr[q] # NULL =>
             (fr[q] # NULL /\ SameFile(found.fr[q], fr[q])) \/ JustLoaded(found.fr[q])
      /\ found.data # NULL =>
             /\ found.data \in Records /\ found.fr[found.data] # NULL
             /\ found.fr[found.data].path = p
             /\ \/ JustLoaded(found.fr[found.data])
                \/ /\ fr[found.data] # NULL /\ ~Expired(found.data)
                   /\ SameFile(found.fr[found.data], fr[found.data])
  <2>1. CASE m = "POST"
    BY <2>1 DEF SameFile
  <2>2. CASE m # "POST"
    <3> DEFINE holds == [d \in Clients |-> client[d].file]
               resolved == Dir_resolve_file(p)
    <3>1. \A r \in Records : uses[r] > 0 => \E d \in Clients : holds[d] = r
      BY UsesType
    <3> HIDE DEF uses, holds
    <3>2. /\ \A q \in Records : resolved.fr[q] # NULL =>
                 (fr[q] # NULL /\ SameFile(resolved.fr[q], fr[q])) \/ JustLoaded(resolved.fr[q])
          /\ resolved.data # NULL =>
                 /\ resolved.fr[resolved.data].path = p
                 /\ \/ JustLoaded(resolved.fr[resolved.data])
                    \/ /\ fr[resolved.data] # NULL /\ ~Expired(resolved.data)
                       /\ SameFile(resolved.fr[resolved.data], fr[resolved.data])
      BY <1>2, <3>1, ResolvedFile
    <3>3. \/ resolved.data = NULL /\ Accounted(resolved.fr, resolved.cache, uses)
          \/ /\ resolved.data \in Records
             /\ Accounted(resolved.fr, resolved.cache, [uses EXCEPT ![resolved.data] = @ + 1])
      BY <1>2, <3>1, ResolveAccounted
    <3>4. uses \in [Records -> Nat]
      BY <1>2 DEF Accounted
    <3>5. found = resolved
      BY <2>2
    <3> HIDE DEF resolved, found
    <3>6. resolved.data # NULL => resolved.data \in Records /\ resolved.fr[resolved.data] # NULL
      <4> SUFFICES ASSUME resolved.data # NULL
                   PROVE  resolved.data \in Records /\ resolved.fr[resolved.data] # NULL
        OBVIOUS
      <4>1. /\ resolved.data \in Records
            /\ Accounted(resolved.fr, resolved.cache, [uses EXCEPT ![resolved.data] = @ + 1])
        BY <3>3
      <4>2. [uses EXCEPT ![resolved.data] = @ + 1][resolved.data] # 0
        BY <3>4, <4>1
      <4> QED BY <4>1, <4>2 DEF Accounted
    <3> QED BY <3>2, <3>5, <3>6
  <2> QED BY <2>1, <2>2
<1>4. client'[c] = st
  BY <1>1, <1>2
<1>5. /\ status = "send" \/ status = "304" => m # "POST" /\ file # NULL /\ ~file.is_dir
      /\ status = "304" /\ cond.modified = NULL => cond.tag # NULL /\ cond.tag = etag(file.st)
  BY DEF Dir_calculate_response, Dir_none_match
<1>6. cond.tag # NULL =>
          copy[c] # NULL /\ copy[c].path = p /\ cond.tag = etag(copy[c].st)
  BY DEF Conditions, Unconditional
<1> HIDE DEF found, status
<1>7. (status = "send" \/ status = "304") => found.data # NULL /\ file = fr'[found.data]
  BY <1>1, <1>5
<1>8. client'[c].file = found.data
  BY <1>4
<1>9. client'[c].pc = "header" => status = "send"
  BY <1>4
<1>10. client'[c].pc = "status" /\ client'[c].by_tag => status = "304" /\ cond.modified = NULL
  <2>1. st.pc = "status" => status # "send"
    OBVIOUS
  <2>2. status # "send" => (st.by_tag <=> status = "304" /\ cond.modified = NULL)
    BY Zenon
  <2> HIDE DEF st
  <2> QED BY <1>4, <2>1, <2>2, Zenon
<1> HIDE DEF file, st
<1> QED BY <1>1, <1>3, <1>5, <1>6, <1>7, <1>8, <1>9, <1>10

(* The files and the inodes that one change leaves alone. *)
LEMMA ChangeFresh ==
    ASSUME FilesInv, FreshInv, NEW p \in Paths, ChangeFile(p)
    PROVE  FreshInv'
<1> DEFINE old == <<p, Stat(p), clock>>
<1>1. /\ fr' = fr /\ clock' = clock /\ gone' = IF disk[p].kind = "none" THEN gone ELSE gone \cup {old}
      /\ DiskTypeOK /\ fr \in [Records -> FileRecord \cup {NULL}]
  BY DEF ChangeFile, FilesInv, FilesTypeOK, Accounted
<1>2. /\ inodes \in Seq(Nat) /\ clock \in Nat /\ Len(inodes) \in Nat
      /\ disk \in [Paths -> [kind : {"none", "file", "dir"}, ino : Nat, mtime : Nat]]
      /\ \A q \in Paths : disk[q].kind # "none" => disk[q].ino \in 1..Len(inodes)
      /\ \A q \in Paths : Stat(q) = StatOf(disk, inodes, q)
  BY <1>1 DEF DiskTypeOK, Stat, Size, StatOf
<1>3. /\ gone \subseteq Paths \X FileStat \X Nat
      /\ \A q, r \in Paths :
            disk[q].kind # "none" /\ disk[r].kind # "none" /\ disk[q].ino = disk[r].ino => q = r
  BY DEF FreshInv
(* At the other paths there is what was there, with an inode that is not touched. *)
<1>4. /\ \A q \in Paths \ {p} : disk'[q] = disk[q]
      /\ \A q \in Paths \ {p} : disk[q].kind # "none" => inodes'[disk[q].ino] = inodes[disk[q].ino]
      /\ \A q \in Paths \ {p} :
            disk'[p].kind # "none" /\ disk[q].kind # "none" => disk'[p].ino # disk[q].ino
  <2>1. CASE \E n \in 1..MaxSize :
              /\ disk[p].kind = "file"
              /\ inodes' = [inodes EXCEPT ![disk[p].ino] = n]
              /\ disk' = [disk EXCEPT ![p].mtime = clock]
    <3>1. PICK n \in 1..MaxSize :
              /\ disk[p].kind = "file"
              /\ inodes' = [inodes EXCEPT ![disk[p].ino] = n]
              /\ disk' = [disk EXCEPT ![p].mtime = clock]
      BY <2>1
    <3>2. disk'[p].ino = disk[p].ino /\ disk[p].kind # "none"
      BY <1>2, <3>1
    <3>3. \A q \in Paths \ {p} : disk[q].kind # "none" => disk[q].ino # disk[p].ino
      BY <1>3, <3>2
    <3>4. \A q \in Paths \ {p} : disk[q].kind # "none" => inodes'[disk[q].ino] = inodes[disk[q].ino]
      BY <1>2, <3>1, <3>3
    <3> QED BY <1>2, <3>1, <3>2, <3>3, <3>4
  <2>2. CASE \E n \in 1..MaxSize :
              /\ inodes' = Append(inodes, n)
              /\ disk' = [disk EXCEPT ![p] =
                             [kind |-> "file", ino |-> Len(inodes) + 1, mtime |-> clock]]
    <3>1. PICK n \in 1..MaxSize :
              /\ inodes' = Append(inodes, n)
              /\ disk' = [disk EXCEPT ![p] =
                             [kind |-> "file", ino |-> Len(inodes) + 1, mtime |-> clock]]
      BY <2>2
    <3>2. disk'[p].ino = Len(inodes) + 1 /\ \A q \in Paths \ {p} : disk'[q] = disk[q]
      BY <1>2, <3>1
    <3>3. n \in Nat /\ \A i \in 1..Len(inodes) : inodes'[i] = inodes[i]
      BY <1>2, <3>1, DirAssumption
    <3> QED BY <1>2, <3>2, <3>3
  <2>3. CASE disk' = [disk EXCEPT ![p] = Nothing] /\ UNCHANGED inodes
    <3>1. disk'[p].kind = "none"
      BY <1>2, <2>3 DEF Nothing
    <3> QED BY <1>2, <2>3, <3>1
  <2> QED BY <2>1, <2>2, <2>3 DEF ChangeFile
<1>5. \A q, r \in Paths :
         disk'[q].kind # "none" /\ disk'[r].kind # "none" /\ disk'[q].ino = disk'[r].ino => q = r
  BY <1>3, <1>4
<1>6. gone' \subseteq Paths \X FileStat \X Nat /\ gone \subseteq gone'
  <2>1. disk[p].kind # "none" => Stat(p) \in FileStat
    BY <1>2 DEF StatOf, FileStat
  <2> QED BY <1>1, <1>2, <1>3, <2>1
<1>7. ASSUME NEW r \in Records, fr[r] # NULL
      PROVE  FreshRecord(fr[r], disk', inodes', gone', clock)
  <2> DEFINE f == fr[r]
  <2>1. FreshRecord(f, disk, inodes, gone, clock) /\ f \in FileRecord
    BY <1>1, <1>7 DEF FreshInv
  <2> SUFFICES ASSUME f.loaded # NULL PROVE WasSince(disk', inodes', gone', f.path, f.st, f.loaded)
    BY <2>1 DEF FreshRecord
  <2>2. /\ f.loaded \in Nat /\ f.loaded <= clock /\ f.path \in Paths
        /\ WasSince(disk, inodes, gone, f.path, f.st, f.loaded)
    BY <2>1 DEF FreshRecord, FileRecord
  <2> HIDE DEF f
  <2>3. CASE \E v \in gone : v[1] = f.path /\ v[2] = f.st /\ v[3] >= f.loaded
    BY <1>6, <2>3 DEF WasSince
  <2>4. CASE disk[f.path].kind # "none" /\ StatOf(disk, inodes, f.path) = f.st
    <3>1. CASE f.path = p
      <4>1. old \in gone' /\ old[1] = f.path /\ old[2] = f.st /\ old[3] = clock
        BY <1>1, <1>2, <2>2, <2>4, <3>1
      <4>2. old[3] >= f.loaded
        BY <1>2, <2>2, <4>1
      <4> HIDE DEF old
      <4> QED BY <4>1, <4>2 DEF WasSince
    <3>2. CASE f.path # p
      <4>1. disk'[f.path] = disk[f.path] /\ inodes'[disk[f.path].ino] = inodes[disk[f.path].ino]
        BY <1>4, <2>2, <2>4, <3>2
      <4>2. StatOf(disk', inodes', f.path) = f.st
        BY <2>4, <4>1 DEF StatOf
      <4> QED BY <2>4, <4>1, <4>2 DEF WasSince
    <3> QED BY <3>1, <3>2
  <2> QED BY <2>2, <2>3, <2>4 DEF WasSince
<1> QED BY <1>1, <1>5, <1>6, <1>7 DEF FreshInv

(* Time passes: what was right at a moment was right then. *)
LEMMA SecondFresh ==
    ASSUME FilesInv, FreshInv, Second
    PROVE  FreshInv'
<1>1. UNCHANGED <<disk, inodes, fr, gone>> /\ clock' = clock + 1 /\ clock \in Nat
  BY DEF Second, FilesInv, FilesTypeOK, DiskTypeOK
<1>2. ASSUME NEW r \in Records, fr[r] # NULL
      PROVE  FreshRecord(fr[r], disk, inodes, gone, clock + 1)
  <2>1. FreshRecord(fr[r], disk, inodes, gone, clock)
    BY <1>2 DEF FreshInv
  <2>2. fr[r] \in FileRecord
    BY <1>2 DEF FilesInv, Accounted
  <2>3. fr[r].loaded # NULL => fr[r].loaded \in Nat /\ fr[r].loaded <= clock
    BY <2>1, <2>2 DEF FreshRecord, FileRecord
  <2>4. fr[r].loaded # NULL => fr[r].loaded <= clock + 1
    BY <1>1, <2>3
  <2> QED BY <2>1, <2>4 DEF FreshRecord
<1> QED BY <1>1, <1>2 DEF FreshInv

(* The records stay fresh. *)
LEMMA FreshStep ==
    ASSUME FilesInv, FreshInv, [DirNext]_dirvars
    PROVE  FreshInv'
<1>1. \A f : SameFile(f, f)
  BY DEF SameFile
<1>2. ASSUME UNCHANGED <<disk, inodes, clock, gone, fr>> PROVE FreshInv'
  BY <1>1, <1>2, FreshKept
<1>3. ASSUME NEW c \in Clients, NEW p \in Paths, NEW m \in {"GET", "POST"},
             NEW cond \in Conditions(c, p), Dir_serve_file(c, p, m, cond)
      PROVE  FreshInv'
  <2>1. UNCHANGED <<disk, inodes, clock, gone>>
    BY <1>3 DEF Dir_serve_file
  <2>2. \A q \in Records : fr'[q] # NULL =>
            (fr[q] # NULL /\ SameFile(fr'[q], fr[q])) \/ JustLoaded(fr'[q])
    BY <1>3, ServeEffect
  <2> QED BY <2>1, <2>2, FreshKept
<1>4. ASSUME NEW c \in Clients, client[c].pc \in Sending, Served(c), gone' = gone PROVE FreshInv'
  BY <1>4, ServedFresh
<1>5. ASSUME NEW c \in Clients, Response_send_status(c) PROVE FreshInv'
  BY <1>4, <1>5 DEF Response_send_status, Sending
<1>6. ASSUME NEW c \in Clients, Dir_send_header(c) PROVE FreshInv'
  BY <1>2, <1>4, <1>6 DEF Dir_send_header, Sending
<1>7. ASSUME NEW c \in Clients, Dir_stream_block(c) PROVE FreshInv'
  BY <1>2, <1>7 DEF Dir_stream_block
<1>8. ASSUME NEW c \in Clients, Dir_stream_fails(c) PROVE FreshInv'
  BY <1>4, <1>8 DEF Dir_stream_fails, Sending
<1>9. ASSUME NEW c \in Clients, Dir_stream_ends(c) PROVE FreshInv'
  BY <1>4, <1>9 DEF Dir_stream_ends, Sending
<1>10. CASE Dir_destroy
  <2>1. /\ fr_cache # NULL /\ UNCHANGED <<disk, inodes, clock, gone>>
        /\ fr' = [r \in Records |->
                     IF r \in Cached(fr_cache) THEN FileRecord_release(fr, r)[r] ELSE fr[r]]
    BY <1>10 DEF Dir_destroy
  <2>2. Accounted(fr, fr_cache, UsesOf(client)) /\ fr \in [Records -> FileRecord \cup {NULL}]
    BY <2>1 DEF FilesInv, TheCache, Accounted
  <2>3. \A r \in Records : r \in Cached(fr_cache) => fr[r] # NULL
    BY <2>2, CachedRecord DEF Cached
  <2>4. ASSUME NEW r \in Records, fr'[r] # NULL PROVE fr[r] # NULL /\ SameFile(fr'[r], fr[r])
    <3>1. CASE r \in Cached(fr_cache)
      <4>1. fr[r] # NULL /\ fr'[r] = FileRecord_release(fr, r)[r]
        BY <2>1, <2>3, <3>1
      <4>2. SameFile(FileRecord_release(fr, r)[r], fr[r])
        BY <2>2, <2>4, <4>1, ReleaseKeepsFiles
      <4> QED BY <4>1, <4>2
    <3>2. CASE r \notin Cached(fr_cache)
      BY <1>1, <2>1, <2>4, <3>2
    <3> QED BY <3>1, <3>2
  <2> QED BY <2>1, <2>4, FreshKept
<1>11. ASSUME NEW p \in Changing, ChangeFile(p) PROVE FreshInv'
  <2>1. p \in Paths
    BY DirAssumption
  <2> QED BY <1>11, <2>1, ChangeFresh
<1>12. CASE Second
  BY <1>12, SecondFresh
<1>13. CASE UNCHANGED dirvars
  BY <1>2, <1>13 DEF dirvars
<1> QED BY <1>3, <1>5, <1>6, <1>7, <1>8, <1>9, <1>10, <1>11, <1>12, <1>13 DEF DirNext

(* An idle connection moves in Dir_serve_file only. *)
LEMMA IdleMoves ==
    ASSUME FilesInv, [DirNext]_dirvars, NEW c \in Clients, client[c].pc = "idle",
           client'[c].pc # "idle"
    PROVE  \E p \in Paths, m \in {"GET", "POST"} :
               \E cond \in Conditions(c, p) : Dir_serve_file(c, p, m, cond)
<1>1. client \in [Clients -> ClientState]
  BY DEF FilesInv, FilesTypeOK
<1>2. client'[c] # client[c]
  OBVIOUS
<1>3. ASSUME NEW d \in Clients, NEW st, client' = [client EXCEPT ![d] = st] PROVE d = c
  BY <1>1, <1>2, <1>3
<1>4. ASSUME NEW d \in Clients, Served(d), client[d].pc # "idle" PROVE FALSE
  BY <1>3, <1>4 DEF Served
<1>5. ASSUME NEW d \in Clients, Response_send_status(d) PROVE FALSE
  BY <1>4, <1>5 DEF Response_send_status
<1>6. ASSUME NEW d \in Clients, Dir_send_header(d) PROVE FALSE
  <2>1. client[d].pc = "header"
    BY <1>6 DEF Dir_send_header
  <2>2. d # c
    BY <2>1
  <2>3. client'[c] = client[c]
    BY <1>1, <1>6, <2>2 DEF Dir_send_header, Served
  <2> QED BY <1>2, <2>3
<1>7. ASSUME NEW d \in Clients, Dir_stream_block(d) PROVE FALSE
  <2>1. client[d].pc = "stream"
    BY <1>7 DEF Dir_stream_block
  <2>2. d # c
    BY <2>1
  <2>3. client'[c] = client[c]
    BY <1>1, <1>7, <2>2 DEF Dir_stream_block
  <2> QED BY <1>2, <2>3
<1>8. ASSUME NEW d \in Clients, Dir_stream_fails(d) PROVE FALSE
  BY <1>4, <1>8 DEF Dir_stream_fails
<1>9. ASSUME NEW d \in Clients, Dir_stream_ends(d) PROVE FALSE
  BY <1>4, <1>9 DEF Dir_stream_ends
<1>10. ~Dir_destroy
  BY <1>2 DEF Dir_destroy
<1>11. ASSUME NEW p \in Changing, ChangeFile(p) PROVE FALSE
  BY <1>2, <1>11 DEF ChangeFile
<1>12. ~Second
  BY <1>2 DEF Second
<1>13. ~UNCHANGED dirvars
  BY <1>2 DEF dirvars
<1>14. \E d \in Clients : \E p \in Paths, m \in {"GET", "POST"} :
          \E cond \in Conditions(d, p) : Dir_serve_file(d, p, m, cond)
  BY <1>5, <1>6, <1>7, <1>8, <1>9, <1>10, <1>11, <1>12, <1>13 DEF DirNext
<1>15. PICK d \in Clients : \E p \in Paths, m \in {"GET", "POST"} :
          \E cond \in Conditions(d, p) : Dir_serve_file(d, p, m, cond)
  BY <1>14
<1>16. ASSUME NEW p \in Paths, NEW m, NEW cond, Dir_serve_file(d, p, m, cond) PROVE d = c
  <2>1. SUFFICES ASSUME d # c PROVE FALSE
    OBVIOUS
  <2>2. client'[c] = client[c]
    BY <1>1, <1>16, <2>1 DEF Dir_serve_file
  <2> QED BY <1>2, <2>2
<1>17. d = c
  BY <1>15, <1>16
<1> QED BY <1>15, <1>17

(* The record that an answer is made from was right within the time to live. *)
LEMMA AnsweredFresh ==
    ASSUME FilesInv, FreshInv, NEW d \in Records, NEW g, g.path \in Paths, ~g.is_dir,
           \/ JustLoaded(g)
           \/ fr[d] # NULL /\ ~Expired(d) /\ SameFile(g, fr[d])
    PROVE  WasThere(g.path, g.st)
<1>1. CASE JustLoaded(g)
  BY <1>1 DEF JustLoaded, WasThere
<1>2. CASE fr[d] # NULL /\ ~Expired(d) /\ SameFile(g, fr[d])
  <2>1. fr[d] \in FileRecord /\ FreshRecord(fr[d], disk, inodes, gone, clock) /\ clock \in Nat
    BY <1>2 DEF FilesInv, FilesTypeOK, DiskTypeOK, Accounted, FreshInv
  <2>2. /\ fr[d].loaded # NULL /\ fr[d].loaded \in Nat
        /\ clock - fr[d].loaded <= FR_CACHE_TIME_TO_LIVE
        /\ WasSince(disk, inodes, gone, fr[d].path, fr[d].st, fr[d].loaded)
    <3>1. fr[d].loaded \in Nat \cup {NULL}
      BY <2>1 DEF FileRecord
    <3>2. fr[d].loaded # NULL
      BY <1>2 DEF Expired
    <3>3. ~(clock - fr[d].loaded > FR_CACHE_TIME_TO_LIVE)
      BY <1>2 DEF Expired
    <3> QED BY <2>1, <3>1, <3>2, <3>3, DirAssumption DEF FreshRecord
  <2>3. g.path = fr[d].path /\ g.st = fr[d].st
    BY <1>2 DEF SameFile
  <2>4. Stat(g.path) = StatOf(disk, inodes, g.path)
    BY DEF Stat, Size, StatOf
  <2>5. CASE \E v \in gone : v[1] = g.path /\ v[2] = g.st /\ v[3] >= fr[d].loaded
    <3>1. PICK v \in gone : v[1] = g.path /\ v[2] = g.st /\ v[3] >= fr[d].loaded
      BY <2>5
    <3>2. v[3] \in Nat
      <4>1. v \in Paths \X FileStat \X Nat
        BY DEF FreshInv
      <4> QED BY <4>1
    <3>3. v[3] >= clock - FR_CACHE_TIME_TO_LIVE
      BY <2>1, <2>2, <3>1, <3>2, DirAssumption
    <3> QED BY <3>1, <3>3 DEF WasThere
  <2>6. CASE disk[g.path].kind # "none" /\ StatOf(disk, inodes, g.path) = g.st
    BY <2>4, <2>6 DEF WasThere
  <2> QED BY <2>2, <2>3, <2>5, <2>6 DEF WasSince
<1> QED BY <1>1, <1>2

(* The files of a directory and the cache that answers from them stay in accord. *)
THEOREM FreshInvariant == DirSpec => []FreshInv
<1>1. DirInit => FreshInv
  BY FreshInvInit
<1>2. FilesInv /\ FreshInv /\ [DirNext]_dirvars => FreshInv'
  BY FreshStep
<1> QED BY <1>1, <1>2, FilesInvariant, PTL DEF DirSpec

(***************************************************************************)
(* FileRecord_cache_check, Dir_none_match: a header that is sent was right *)
(* within the time to live, and so is the copy of a client that is told by *)
(* its tag alone to keep it.                                               *)
(***************************************************************************)
THEOREM AnswersAreFresh == DirSpec => HeadersAreFresh /\ ConfirmedCopiesAreFresh
<1> DEFINE HeaderFresh(c) ==
              client[c].pc = "idle" /\ client'[c].pc = "header" =>
                  WasThere(fr'[client'[c].file].path, fr'[client'[c].file].st)
           CopyFresh(c) ==
              client[c].pc = "idle" /\ client'[c].pc = "status" /\ client'[c].by_tag =>
                  WasThere(copy[c].path, copy[c].st)
<1>1. ASSUME FilesInv, FilesInv', FreshInv, [DirNext]_dirvars, NEW c \in Clients
      PROVE  HeaderFresh(c) /\ CopyFresh(c)
  <2> DEFINE confirmed == client'[c].pc = "status" /\ client'[c].by_tag
             d == client'[c].file
  <2> SUFFICES ASSUME client[c].pc = "idle", client'[c].pc = "header" \/ confirmed
               PROVE  /\ WasThere(fr'[d].path, fr'[d].st)
                      /\ confirmed => WasThere(copy[c].path, copy[c].st)
    BY Zenon
  <2>1. PICK p \in Paths, m \in {"GET", "POST"} :
            \E cond \in Conditions(c, p) : Dir_serve_file(c, p, m, cond)
    BY <1>1, IdleMoves
  <2>2. /\ d \in Records /\ fr'[d] # NULL /\ fr'[d].path = p /\ ~fr'[d].is_dir
        /\ \/ JustLoaded(fr'[d])
           \/ fr[d] # NULL /\ ~Expired(d) /\ SameFile(fr'[d], fr[d])
    BY <1>1, <2>1, ServeEffect
  <2>3. confirmed => copy[c] # NULL /\ copy[c].path = p /\ etag(copy[c].st) = etag(fr'[d].st)
    BY <1>1, <2>1, ServeEffect
  <2>4. WasThere(fr'[d].path, fr'[d].st)
    <3> DEFINE g == fr'[d]
    <3>1. g.path \in Paths /\ ~g.is_dir
      BY <2>1, <2>2
    <3>2. \/ JustLoaded(g)
          \/ fr[d] # NULL /\ ~Expired(d) /\ SameFile(g, fr[d])
      BY <2>2
    <3> HIDE DEF g, d
    <3>3. WasThere(g.path, g.st)
      BY <1>1, <2>2, <3>1, <3>2, AnsweredFresh
    <3> QED BY <3>3 DEF g
  <2>5. ASSUME confirmed PROVE copy[c].path = fr'[d].path /\ copy[c].st = fr'[d].st
    <3>1. copy[c] \in CopyType
      BY <1>1, <2>3, <2>5 DEF FilesInv, FilesTypeOK
    <3>2. copy[c].st \in FileStat
      BY <3>1 DEF CopyType
    <3>3. fr'[d] \in FileRecord
      BY <1>1, <2>2 DEF FilesInv, Accounted
    <3>4. fr'[d].st \in FileStat
      BY <3>3 DEF FileRecord
    <3>5. /\ copy[c].st.mtime = fr'[d].st.mtime
          /\ copy[c].st.size = fr'[d].st.size
      BY <2>3, <2>5 DEF etag
    <3>6. copy[c].st = fr'[d].st
      BY <3>2, <3>4, <3>5 DEF FileStat
    <3> QED BY <2>2, <2>3, <2>5, <3>6
  <2> QED BY <2>4, <2>5
<1> DEFINE Headers == \A c \in Clients : HeaderFresh(c)
           Copies == \A c \in Clients : CopyFresh(c)
<1>2. FilesInv /\ FilesInv' /\ FreshInv /\ [DirNext]_dirvars => [Headers]_dirvars /\ [Copies]_dirvars
  BY <1>1
<1>3. DirSpec => [][Headers]_dirvars /\ [][Copies]_dirvars
  <2> HIDE DEF Headers, Copies
  <2> QED BY <1>2, FilesInvariant, FreshInvariant, PTL DEF DirSpec
<1> QED BY <1>3 DEF HeadersAreFresh, ConfirmedCopiesAreFresh

(***************************************************************************)
(* The tags.  An operation takes one or two from the tag of every slot     *)
(* that holds a record and puts INT_MAX on the one it uses, so that the    *)
(* order of the tags is the order of the last uses, until a tag has come   *)
(* down to zero: as long as fewer than INT_MAX / 2 requests were made.     *)
(***************************************************************************)
AgedBy(k, d, cache, after) ==
    /\ after \in [1..CacheSize -> Slot]
    /\ \A i \in 1..CacheSize : after[i].data # NULL =>
           IF after[i].data = d THEN after[i].tag = INT_MAX
           ELSE after[i].data = cache[i].data /\ after[i].tag = cache[i].tag - k

(* No slot with a record is near to zero. *)
Young(cache) == \A i \in 1..CacheSize : cache[i].data # NULL => cache[i].tag > 2

(* The tags tell which of two records was used first; us has the last uses, of n. *)
Tagged(cache, us, n) ==
    \A i, j \in 1..CacheSize :
        cache[i].data # NULL /\ cache[j].data # NULL =>
            /\ INT_MAX - 2 * n <= cache[i].tag /\ cache[i].tag <= INT_MAX
            /\ us[cache[i].data] < us[cache[j].data] => cache[i].tag < cache[j].tag
            /\ us[cache[i].data] = us[cache[j].data] => i = j

(* Cache_lookup ages every slot by one. *)
LEMMA LookupAges ==
    ASSUME NEW f, NEW cache, NEW uses, Accounted(f, cache, uses), Young(cache),
           NEW matching, matching \subseteq Records,
           NEW found, LookedUp(cache, matching, found)
    PROVE  AgedBy(1, found.data, cache, found.cache)
<1>1. found.cache \in [1..CacheSize -> Slot]
  BY DEF LookedUp
<1> SUFFICES ASSUME NEW i \in 1..CacheSize, found.cache[i].data # NULL
             PROVE  IF found.cache[i].data = found.data THEN found.cache[i].tag = INT_MAX
                    ELSE /\ found.cache[i].data = cache[i].data
                         /\ found.cache[i].tag = cache[i].tag - 1
  BY <1>1 DEF AgedBy
<1>2. found.cache[i].data = cache[i].data
  BY DEF LookedUp
<1>3. Older(cache[i]).tag = cache[i].tag - 1
  <2>1. cache[i] \in Slot
    BY DEF Accounted
  <2>2. cache[i].tag > 2
    BY <1>2 DEF Young
  <2> QED BY <2>1, <2>2 DEF Older, Slot
<1>4. CASE found.data = NULL /\ \A j \in 1..CacheSize : found.cache[j].tag = Older(cache[j]).tag
  BY <1>2, <1>3, <1>4
<1>5. CASE \E j \in 1..CacheSize :
              /\ found.data = cache[j].data /\ cache[j].data \in matching
              /\ found.cache[j].tag = INT_MAX
              /\ \A h \in 1..CacheSize \ {j} : found.cache[h].tag = Older(cache[h]).tag
  <2>1. PICK j \in 1..CacheSize :
              /\ found.data = cache[j].data
              /\ found.cache[j].tag = INT_MAX
              /\ \A h \in 1..CacheSize \ {j} : found.cache[h].tag = Older(cache[h]).tag
    BY <1>5
  <2>2. CASE i = j
    BY <1>2, <2>1, <2>2
  <2>3. CASE i # j
    <3>1. cache[i].data # cache[j].data
      BY <1>2, <2>3, CachedRecord
    <3> QED BY <1>2, <1>3, <2>1, <2>3, <3>1
  <2> QED BY <2>2, <2>3
<1> QED BY <1>4, <1>5 DEF LookedUp

(* FileRecord_cache_check does so, and gives up only a record that has changed. *)
LEMMA CheckedAges ==
    ASSUME NEW uses, Accounted(fr, fr_cache, uses), Young(fr_cache), NEW p \in Paths
    PROVE  LET checked == FileRecord_cache_check(p)
           IN  /\ AgedBy(1, checked.data, fr_cache, checked.cache)
               /\ \/ \A i \in 1..CacheSize : checked.cache[i].data = fr_cache[i].data
                  \/ \E i \in 1..CacheSize :
                        /\ Expired(fr_cache[i].data) /\ Changed(fr_cache[i].data)
                        /\ checked.cache[i].tag = 0
                        /\ \A j \in 1..CacheSize \ {i} : checked.cache[j].data = fr_cache[j].data
<1> DEFINE matching == {r \in Records : fr[r] # NULL /\ fr[r].path = p}
           found == Cache_lookup(fr_cache, matching)
           r == found.data
           checked == FileRecord_cache_check(p)
<1>1. fr_cache \in [1..CacheSize -> Slot]
  BY DEF Accounted
<1>2. LookedUp(fr_cache, matching, found)
  BY <1>1, LookupEffect
<1>3. AgedBy(1, r, fr_cache, found.cache)
  <2>1. matching \subseteq Records
    OBVIOUS
  <2> HIDE DEF matching, found
  <2> QED BY <1>2, <2>1, LookupAges
<1>4. checked = IF r = NULL \/ ~Expired(r) THEN [data |-> r, cache |-> found.cache, fr |-> fr]
                ELSE IF Changed(r)
                THEN [data |-> NULL, cache |-> Cache_evict_object(found.cache, r),
                      fr |-> FileRecord_release(fr, r)]
                ELSE [data |-> r, cache |-> found.cache, fr |-> [fr EXCEPT ![r].loaded = clock]]
  BY DEF FileRecord_cache_check
<1>5. /\ \A i \in 1..CacheSize : found.cache[i].data = fr_cache[i].data
      /\ r # NULL => \E i \in 1..CacheSize : r = fr_cache[i].data
  <2> HIDE DEF matching, found
  <2> QED BY <1>2 DEF LookedUp
<1> HIDE DEF found, checked
<1>6. CASE r = NULL \/ ~Expired(r) \/ ~Changed(r)
  <2>1. checked.data = r /\ checked.cache = found.cache
    BY <1>4, <1>6
  <2> QED BY <1>3, <1>5, <2>1 DEF checked
<1>7. CASE r # NULL /\ Expired(r) /\ Changed(r)
  <2> DEFINE rest == Cache_evict_object(found.cache, r)
  <2>1. checked.data = NULL /\ checked.cache = rest
    BY <1>4, <1>7
  <2>2. PICK i \in 1..CacheSize : r = fr_cache[i].data
    BY <1>5, <1>7
  <2>3. \A j \in 1..CacheSize :
            rest[j] = IF found.cache[j].data = r THEN [tag |-> 0, data |-> NULL] ELSE found.cache[j]
    BY DEF Cache_evict_object
  <2>4. rest \in [1..CacheSize -> Slot]
    <3>1. [tag |-> 0, data |-> NULL] \in Slot /\ found.cache \in [1..CacheSize -> Slot]
      BY <1>3 DEF Slot, AgedBy
    <3> QED BY <3>1 DEF Cache_evict_object
  <2> HIDE DEF rest
  <2>5. rest[i].tag = 0
    BY <1>5, <2>2, <2>3
  <2>6. \A j \in 1..CacheSize \ {i} : rest[j].data = fr_cache[j].data
    <3>1. \A j \in 1..CacheSize \ {i} : fr_cache[j].data # r
      BY <1>7, <2>2, CachedRecord
    <3> QED BY <1>5, <2>3, <3>1
  <2>7. AgedBy(1, NULL, fr_cache, rest)
    <3> SUFFICES ASSUME NEW j \in 1..CacheSize, rest[j].data # NULL
                 PROVE  rest[j].data = fr_cache[j].data /\ rest[j].tag = fr_cache[j].tag - 1
      BY <2>4 DEF AgedBy
    <3>1. rest[j] = found.cache[j] /\ found.cache[j].data # r
      BY <2>3
    <3> QED BY <1>3, <3>1 DEF AgedBy
  <2> QED BY <1>7, <2>1, <2>2, <2>5, <2>6, <2>7 DEF checked
<1> QED BY <1>6, <1>7

(* Which record the cache gives up: one that has changed, or the one that was used the *)
(* longest time ago.                                                                   *)
GivesUp(cache, after) ==
    \A i \in 1..CacheSize : cache[i].data # NULL =>
        \/ InCache(after, cache[i].data)
        \/ Expired(cache[i].data) /\ Changed(cache[i].data)
        \/ \A j \in 1..CacheSize : cache[j].data # NULL => cache[i].tag <= cache[j].tag

(* Cache_add ages every slot once more and takes one with the smallest tag. *)
LEMMA AddAges ==
    ASSUME NEW f, NEW uses, NEW cache \in [1..CacheSize -> Slot], Young(cache),
           NEW checked, Accounted(f, checked, uses), AgedBy(1, NULL, cache, checked),
           NEW d \in Records, f[d] = NULL
    PROVE  AgedBy(2, d, cache, Cache_add(checked, d).cache)
<1> DEFINE m == min_idx(checked)
           after == Cache_add(checked, d).cache
<1>1. checked \in [1..CacheSize -> Slot]
  BY DEF AgedBy
<1>2. /\ m \in 1..CacheSize /\ Puts(checked, m, d, after) /\ after[m].tag = INT_MAX
      /\ \A j \in 1..CacheSize \ {m} : after[j].tag = Older(checked[j]).tag
  BY <1>1, SlotToTake, AddEffect
<1>3. ~InCache(checked, d)
  BY DEF Accounted
<1> HIDE DEF m, after
<1> SUFFICES ASSUME NEW i \in 1..CacheSize, after[i].data # NULL
             PROVE  IF after[i].data = d THEN after[i].tag = INT_MAX
                    ELSE after[i].data = cache[i].data /\ after[i].tag = cache[i].tag - 2
  BY <1>2 DEF AgedBy, Puts, after
<1>4. CASE i = m
  BY <1>2, <1>4 DEF Puts
<1>5. CASE i # m
  <2>1. after[i].data = checked[i].data /\ checked[i].data # d
    BY <1>2, <1>3, <1>5 DEF Puts, InCache
  <2>2. checked[i].data = cache[i].data /\ checked[i].tag = cache[i].tag - 1
    BY <2>1 DEF AgedBy
  <2>3. cache[i].tag > 2 /\ cache[i].tag \in Nat
    <3>1. cache[i] \in Slot
      OBVIOUS
    <3> QED BY <2>1, <2>2, <3>1 DEF Young, Slot
  <2>4. Older(checked[i]).tag = checked[i].tag - 1
    <3>1. checked[i] \in Slot
      BY <1>1
    <3> QED BY <2>2, <2>3, <3>1 DEF Older, Slot
  <2> QED BY <1>2, <1>5, <2>1, <2>2, <2>3, <2>4
<1> QED BY <1>4, <1>5

(* Dir_resolve_file ages the cache by one or two, and gives up the right record. *)
LEMMA ResolvedAges ==
    ASSUME NEW uses, Accounted(fr, fr_cache, uses), DiskTypeOK, Young(fr_cache), NEW p \in Paths,
           NEW file, \A r \in Records : uses[r] > 0 => \E c \in Clients : file[c] = r
    PROVE  LET found == Dir_resolve_file(p)
           IN  /\ \E k \in 1..2 : AgedBy(k, found.data, fr_cache, found.cache)
               /\ GivesUp(fr_cache, found.cache)
<1> DEFINE checked == FileRecord_cache_check(p)
           free == {r \in Records : checked.fr[r] = NULL}
           new == Min(free)
           added == Cache_add(checked.cache, new)
           rec == [Dir_find_file(p) EXCEPT !.users = 2]
           found == Dir_resolve_file(p)
<1>1. Accounted(checked.fr, checked.cache, uses)
  BY CheckAccounted
<1>2. /\ AgedBy(1, checked.data, fr_cache, checked.cache)
      /\ \/ \A i \in 1..CacheSize : checked.cache[i].data = fr_cache[i].data
         \/ \E i \in 1..CacheSize :
               /\ Expired(fr_cache[i].data) /\ Changed(fr_cache[i].data)
               /\ checked.cache[i].tag = 0
               /\ \A j \in 1..CacheSize \ {i} : checked.cache[j].data = fr_cache[j].data
  BY CheckedAges
<1>3. found = IF checked.data # NULL
              THEN [data |-> checked.data, cache |-> checked.cache,
                    fr |-> [checked.fr EXCEPT ![checked.data].users = @ + 1]]
              ELSE IF disk[p].kind = "none" THEN checked
              ELSE [data |-> new, cache |-> added.cache,
                    fr |-> FileRecord_release([checked.fr EXCEPT ![new] = rec], added.evicted)]
  BY DEF Dir_resolve_file
<1>4. fr_cache \in [1..CacheSize -> Slot] /\ checked.cache \in [1..CacheSize -> Slot]
  BY <1>1 DEF Accounted
<1>5. \E r \in Records : checked.fr[r] = NULL
  BY <1>1, FreeRecord
<1>6. new \in Records /\ checked.fr[new] = NULL
  <2>1. free \subseteq Nat /\ free # {}
    BY <1>5 DEF Records
  <2>2. new \in free
    BY <2>1, MinTaken
  <2> QED BY <2>2
<1> HIDE DEF checked, found, new
<1>7. CASE checked.data # NULL \/ disk[p].kind = "none"
  <2>1. found.data = checked.data /\ found.cache = checked.cache
    BY <1>3, <1>7
  <2>2. GivesUp(fr_cache, checked.cache)
    BY <1>2 DEF GivesUp, InCache
  <2>3. 1 \in 1..2
    OBVIOUS
  <2> QED BY <1>2, <2>1, <2>2, <2>3 DEF found
<1>8. CASE checked.data = NULL /\ disk[p].kind # "none"
  <2>1. found.data = new /\ found.cache = added.cache
    BY <1>3, <1>8
  <2>2. AgedBy(1, NULL, fr_cache, checked.cache)
    BY <1>2, <1>8
  <2>3. AgedBy(2, new, fr_cache, added.cache)
    BY <1>1, <1>4, <1>6, <2>2, AddAges
  <2> DEFINE m == min_idx(checked.cache)
  <2>4. /\ m \in 1..CacheSize /\ Puts(checked.cache, m, new, added.cache)
        /\ \A j \in 1..CacheSize : checked.cache[m].tag <= checked.cache[j].tag
    BY <1>4, <1>6, SlotToTake, AddEffect
  <2> HIDE DEF m, added
  <2>5. GivesUp(fr_cache, added.cache)
    <3> SUFFICES ASSUME NEW i \in 1..CacheSize, fr_cache[i].data # NULL,
                        ~InCache(added.cache, fr_cache[i].data),
                        ~(Expired(fr_cache[i].data) /\ Changed(fr_cache[i].data)),
                        NEW j \in 1..CacheSize, fr_cache[j].data # NULL
                 PROVE  fr_cache[i].tag <= fr_cache[j].tag
      BY DEF GivesUp
    <3>1. checked.cache[i].data = fr_cache[i].data
      BY <1>2
    <3>2. i = m
      <4>1. i # m => added.cache[i].data = checked.cache[i].data
        BY <2>4 DEF Puts
      <4> QED BY <3>1, <4>1 DEF InCache
    <3>3. checked.cache[i].tag = fr_cache[i].tag - 1
      BY <2>2, <3>1 DEF AgedBy
    <3>4. fr_cache[i].tag \in Nat /\ fr_cache[j].tag \in Nat /\ fr_cache[i].tag > 2
      <4>1. fr_cache[i] \in Slot /\ fr_cache[j] \in Slot
        BY <1>4
      <4> QED BY <4>1 DEF Slot, Young
    <3>5. \A h \in 1..CacheSize : checked.cache[h].tag # 0
      BY <2>4, <3>2, <3>3, <3>4, <1>4 DEF Slot
    <3>6. checked.cache[j].data = fr_cache[j].data
      BY <1>2, <3>5
    <3>7. checked.cache[j].tag = fr_cache[j].tag - 1
      BY <2>2, <3>6 DEF AgedBy
    <3> QED BY <2>4, <3>2, <3>3, <3>4, <3>7
  <2>6. 2 \in 1..2
    OBVIOUS
  <2> QED BY <2>1, <2>3, <2>5, <2>6 DEF found
<1> QED BY <1>7, <1>8

NoneTwice(cache) ==
    \A i, j \in 1..CacheSize : cache[i].data # NULL /\ cache[i].data = cache[j].data => i = j

UsesUpTo(us, n) == us \in [Records -> Nat] /\ \A r \in Records : us[r] <= n

Later(us, d, n) == [r \in Records |-> IF r = d THEN n + 1 ELSE us[r]]

(* The new tags tell the order of the new uses. *)
LEMMA TaggedAfterUse ==
    ASSUME NEW cache, NEW n \in Nat, NEW us, UsesUpTo(us, n),
           cache \in [1..CacheSize -> Slot], Tagged(cache, us, n),
           NEW k \in 0..2, NEW d, NEW after, AgedBy(k, d, cache, after), d # NULL => k # 0,
           NoneTwice(after)
    PROVE  Tagged(after, Later(us, d, n), n + 1)
<1> DEFINE now == Later(us, d, n)
<1> SUFFICES ASSUME NEW i \in 1..CacheSize, NEW j \in 1..CacheSize,
                    after[i].data # NULL, after[j].data # NULL
             PROVE  /\ INT_MAX - 2 * (n + 1) <= after[i].tag /\ after[i].tag <= INT_MAX
                    /\ now[after[i].data] < now[after[j].data] => after[i].tag < after[j].tag
                    /\ now[after[i].data] = now[after[j].data] => i = j
  BY DEF Tagged
<1>1. \A h \in 1..CacheSize : after[h].data # NULL =>
          after[h].data \in Records /\ after[h].tag \in Nat /\ cache[h].tag \in Nat
  BY DEF AgedBy, Slot
<1>2. \A h \in 1..CacheSize : after[h].data # NULL =>
          IF after[h].data = d THEN after[h].tag = INT_MAX /\ now[after[h].data] = n + 1
          ELSE /\ after[h].data = cache[h].data /\ after[h].tag = cache[h].tag - k
               /\ now[after[h].data] = us[cache[h].data]
               /\ us[cache[h].data] \in Nat /\ us[cache[h].data] <= n
  BY <1>1 DEF AgedBy, UsesUpTo, Later
<1> HIDE DEF now
<1>3. INT_MAX \in Nat /\ k \in {0, 1, 2}
  BY CacheAssumption
<1>4. \A g, h \in 1..CacheSize : cache[g].data # NULL /\ cache[h].data # NULL =>
          /\ INT_MAX - 2 * n <= cache[g].tag /\ cache[g].tag <= INT_MAX
          /\ us[cache[g].data] < us[cache[h].data] => cache[g].tag < cache[h].tag
          /\ us[cache[g].data] = us[cache[h].data] => g = h
  BY DEF Tagged
<1>5. INT_MAX - 2 * (n + 1) <= after[i].tag /\ after[i].tag <= INT_MAX
  <2>1. CASE after[i].data = d
    BY <1>2, <1>3, <2>1
  <2>2. CASE after[i].data # d
    <3>1. /\ cache[i].tag \in Nat /\ after[i].tag = cache[i].tag - k
          /\ INT_MAX - 2 * n <= cache[i].tag /\ cache[i].tag <= INT_MAX
      BY <1>1, <1>2, <1>4, <2>2
    <3> QED BY <1>3, <3>1
  <2> QED BY <2>1, <2>2
<1>6. now[after[i].data] < now[after[j].data] => after[i].tag < after[j].tag
  <2>1. CASE after[i].data = d
    BY <1>1, <1>2, <2>1
  <2>2. CASE after[i].data # d /\ after[j].data = d
    <3>1. cache[i].tag <= INT_MAX /\ after[i].tag = cache[i].tag - k /\ after[j].tag = INT_MAX
      BY <1>2, <1>4, <2>2
    <3>2. k # 0 /\ cache[i].tag \in Nat
      BY <1>1, <2>2
    <3> QED BY <1>1, <1>3, <3>1, <3>2
  <2>3. CASE after[i].data # d /\ after[j].data # d
    <3>1. /\ now[after[i].data] = us[cache[i].data] /\ after[i].tag = cache[i].tag - k
          /\ now[after[j].data] = us[cache[j].data] /\ after[j].tag = cache[j].tag - k
      BY <1>2, <2>3
    <3>2. cache[i].tag \in Nat /\ cache[j].tag \in Nat
      BY <1>1
    <3>3. cache[i].data # NULL /\ cache[j].data # NULL
      BY <1>2, <2>3
    <3>4. us[cache[i].data] < us[cache[j].data] => cache[i].tag < cache[j].tag
      BY <1>4, <3>3
    <3> QED BY <1>3, <3>1, <3>2, <3>4
  <2> QED BY <2>1, <2>2, <2>3
<1>7. now[after[i].data] = now[after[j].data] => i = j
  BY <1>1, <1>2, <1>4 DEF NoneTwice
<1> QED BY <1>5, <1>6, <1>7 DEF now

(* No more requests than the bound; the tags tell the order of the uses. *)
TagInv ==
    /\ requests \in Nat /\ changes \in Nat /\ requests <= MaxEvents
    /\ UsesUpTo(used, requests)
    /\ Tagged(TheCache, used, requests)

(* An empty cache has no tags to speak of. *)
LEMMA TagInvInit ==
    ASSUME MaxEvents \in Nat, DirInit
    PROVE  TagInv
<1>1. requests = 0 /\ changes = 0 /\ used = [r \in Records |-> 0]
  BY DEF DirInit
<1>2. TheCache = Cache_create
  BY DEF DirInit, TheCache
<1>3. \A i \in 1..CacheSize : Cache_create[i].data = NULL
  BY DEF Cache_create
<1> QED BY <1>1, <1>2, <1>3 DEF TagInv, Tagged, UsesUpTo

(* What Dir_serve_file does to the cache. *)
LEMMA ServeAges ==
    ASSUME FilesInv, TagInv, MaxEvents \in Nat, 2 * MaxEvents < INT_MAX,
           NEW c \in Clients, NEW p \in Paths, NEW m \in {"GET", "POST"},
           NEW cond \in Conditions(c, p), Dir_serve_file(c, p, m, cond)
    PROVE  /\ fr_cache # NULL /\ requests < MaxEvents /\ requests' = requests + 1
           /\ UNCHANGED changes
           /\ GivesUp(fr_cache, fr_cache')
           /\ \E d : \E k \in 0..2 :
                 /\ AgedBy(k, d, fr_cache, fr_cache') /\ (d # NULL => k # 0)
                 /\ used' = Later(used, d, requests)
<1> DEFINE found == IF m = "POST" THEN [data |-> NULL, cache |-> fr_cache, fr |-> fr]
                    ELSE Dir_resolve_file(p)
           uses == UsesOf(client)
<1>1. /\ fr_cache # NULL /\ Quiet /\ fr_cache' = found.cache
      /\ used' = Later(used, found.data, requests)
      /\ requests' = requests + 1 /\ changes' = changes
  BY DEF Dir_serve_file, Later
<1>2. /\ DiskTypeOK /\ Accounted(fr, fr_cache, uses) /\ fr_cache \in [1..CacheSize -> Slot]
      /\ Tagged(fr_cache, used, requests)
  BY <1>1 DEF FilesInv, FilesTypeOK, TheCache, TagInv, Accounted
<1>3. requests < MaxEvents /\ requests \in Nat
  <2>1. requests \in Nat /\ changes \in Nat /\ clock \in Nat
    BY <1>2 DEF TagInv, DiskTypeOK
  <2> QED BY <1>1, <2>1 DEF Quiet
<1>4. Young(fr_cache)
  <2> SUFFICES ASSUME NEW i \in 1..CacheSize, fr_cache[i].data # NULL
               PROVE  fr_cache[i].tag > 2
    BY DEF Young
  <2>1. INT_MAX - 2 * requests <= fr_cache[i].tag
    BY <1>2 DEF Tagged
  <2>2. fr_cache[i].tag \in Nat
    <3>1. fr_cache[i] \in Slot
      BY <1>2
    <3> QED BY <3>1 DEF Slot
  <2> QED BY <1>3, <2>1, <2>2, CacheAssumption
<1>5. /\ GivesUp(fr_cache, found.cache)
      /\ \E k \in 0..2 : AgedBy(k, found.data, fr_cache, found.cache) /\ (found.data # NULL => k # 0)
  <2>1. CASE m = "POST"
    <3>1. found.data = NULL /\ found.cache = fr_cache
      BY <2>1
    <3>2. GivesUp(fr_cache, fr_cache)
      BY DEF GivesUp, InCache
    <3>3. AgedBy(0, NULL, fr_cache, fr_cache)
      <4>1. \A i \in 1..CacheSize : fr_cache[i].tag \in Nat
        <5>1. \A i \in 1..CacheSize : fr_cache[i] \in Slot
          BY <1>2
        <5> QED BY <5>1 DEF Slot
      <4> QED BY <1>2, <4>1 DEF AgedBy
    <3> HIDE DEF found
    <3> QED BY <3>1, <3>2, <3>3
  <2>2. CASE m # "POST"
    <3> DEFINE holds == [d \in Clients |-> client[d].file]
               resolved == Dir_resolve_file(p)
    <3>1. \A r \in Records : uses[r] > 0 => \E d \in Clients : holds[d] = r
      BY UsesType
    <3> HIDE DEF uses, holds
    <3>2. /\ \E k \in 1..2 : AgedBy(k, resolved.data, fr_cache, resolved.cache)
          /\ GivesUp(fr_cache, resolved.cache)
      BY <1>2, <1>4, <3>1, ResolvedAges
    <3>3. found = resolved
      BY <2>2
    <3> HIDE DEF found, resolved
    <3>4. PICK k \in 1..2 : AgedBy(k, resolved.data, fr_cache, resolved.cache)
      BY <3>2
    <3>5. k \in 0..2 /\ k # 0
      OBVIOUS
    <3> QED BY <3>2, <3>3, <3>4, <3>5
  <2> QED BY <2>1, <2>2
<1> HIDE DEF found
<1> QED BY <1>1, <1>3, <1>5

(* The tags of a directory tell the order of the uses after a request too. *)
LEMMA ServeTags ==
    ASSUME FilesInv, FilesInv', TagInv, MaxEvents \in Nat, 2 * MaxEvents < INT_MAX,
           NEW c \in Clients, NEW p \in Paths, NEW m \in {"GET", "POST"},
           NEW cond \in Conditions(c, p), Dir_serve_file(c, p, m, cond)
    PROVE  TagInv'
<1>1. /\ fr_cache # NULL /\ requests < MaxEvents /\ requests' = requests + 1 /\ changes' = changes
      /\ \E d : \E k \in 0..2 :
            /\ AgedBy(k, d, fr_cache, fr_cache') /\ (d # NULL => k # 0)
            /\ used' = Later(used, d, requests)
  BY ServeAges
<1>2. PICK d : \E k \in 0..2 :
            /\ AgedBy(k, d, fr_cache, fr_cache') /\ (d # NULL => k # 0)
            /\ used' = Later(used, d, requests)
  BY <1>1
<1>3. PICK k \in 0..2 :
            /\ AgedBy(k, d, fr_cache, fr_cache') /\ (d # NULL => k # 0)
            /\ used' = Later(used, d, requests)
  BY <1>2
<1>4. /\ requests \in Nat /\ changes \in Nat /\ UsesUpTo(used, requests)
      /\ Tagged(fr_cache, used, requests)
  BY <1>1 DEF TagInv, TheCache
<1>5. fr_cache \in [1..CacheSize -> Slot]
  BY <1>1 DEF FilesInv, FilesTypeOK
<1>6. fr_cache' # NULL
  BY <1>3, DirAssumption DEF AgedBy
<1>7. TheCache' = fr_cache'
  BY <1>6 DEF TheCache
<1>8. Accounted(fr', fr_cache', UsesOf(client'))
  <2>1. Accounted(fr', TheCache', UsesOf(client'))
    BY DEF FilesInv
  <2> QED BY <1>7, <2>1
<1>9. NoneTwice(fr_cache')
  <2> SUFFICES ASSUME NEW i \in 1..CacheSize, NEW j \in 1..CacheSize, fr_cache'[i].data # NULL,
                      fr_cache'[i].data = fr_cache'[j].data
               PROVE  i = j
    BY DEF NoneTwice
  <2>1. \A h \in 1..CacheSize : fr_cache'[h].data = fr_cache'[i].data => h = i
    BY <1>8, CachedRecord
  <2> QED BY <2>1
<1>10. Tagged(fr_cache', used', requests')
  <2>1. Tagged(fr_cache', Later(used, d, requests), requests + 1)
    BY <1>3, <1>4, <1>5, <1>9, TaggedAfterUse
  <2> QED BY <1>1, <1>3, <2>1
<1>11. UsesUpTo(used', requests')
  BY <1>1, <1>3, <1>4 DEF UsesUpTo, Later
<1>12. requests' \in Nat /\ changes' \in Nat /\ requests' <= MaxEvents
  BY <1>1, <1>4
<1> QED BY <1>7, <1>10, <1>11, <1>12 DEF TagInv

(* No other step uses a record. *)
LEMMA TagStep ==
    ASSUME FilesInv, FilesInv', TagInv, MaxEvents \in Nat, 2 * MaxEvents < INT_MAX,
           [DirNext]_dirvars
    PROVE  TagInv'
<1>1. ASSUME UNCHANGED <<requests, used, fr_cache>>, changes' \in Nat PROVE TagInv'
  <2>1. TheCache' = TheCache
    BY <1>1 DEF TheCache
  <2> QED BY <1>1, <2>1 DEF TagInv
<1>2. changes \in Nat
  BY DEF TagInv
<1>3. ASSUME NEW c \in Clients, NEW p \in Paths, NEW m \in {"GET", "POST"},
             NEW cond \in Conditions(c, p), Dir_serve_file(c, p, m, cond)
      PROVE  TagInv'
  BY <1>3, ServeTags
<1>4. ASSUME NEW c \in Clients, Response_send_status(c) PROVE TagInv'
  BY <1>1, <1>2, <1>4 DEF Response_send_status, Served
<1>5. ASSUME NEW c \in Clients, Dir_send_header(c) PROVE TagInv'
  BY <1>1, <1>2, <1>5 DEF Dir_send_header, Served
<1>6. ASSUME NEW c \in Clients, Dir_stream_block(c) PROVE TagInv'
  BY <1>1, <1>2, <1>6 DEF Dir_stream_block
<1>7. ASSUME NEW c \in Clients, Dir_stream_fails(c) PROVE TagInv'
  BY <1>1, <1>2, <1>7 DEF Dir_stream_fails, Served
<1>8. ASSUME NEW c \in Clients, Dir_stream_ends(c) PROVE TagInv'
  BY <1>1, <1>2, <1>8 DEF Dir_stream_ends, Served
<1>9. CASE Dir_destroy
  <2>1. UNCHANGED <<requests, used, changes>> /\ TheCache' = Cache_create
    BY <1>9 DEF Dir_destroy, TheCache
  <2>2. \A i \in 1..CacheSize : Cache_create[i].data = NULL
    BY DEF Cache_create
  <2> QED BY <2>1, <2>2 DEF TagInv, Tagged
<1>10. ASSUME NEW p \in Changing, ChangeFile(p) PROVE TagInv'
  <2>1. UNCHANGED <<requests, used, fr_cache>> /\ changes' = changes + 1
    BY <1>10 DEF ChangeFile
  <2> QED BY <1>1, <1>2, <2>1
<1>11. CASE Second
  BY <1>1, <1>2, <1>11 DEF Second
<1>12. CASE UNCHANGED dirvars
  BY <1>1, <1>2, <1>12 DEF dirvars
<1> QED BY <1>3, <1>4, <1>5, <1>6, <1>7, <1>8, <1>9, <1>10, <1>11, <1>12 DEF DirNext

(* The cache changes in Dir_serve_file and Dir_destroy only. *)
LEMMA CacheMoves ==
    ASSUME [DirNext]_dirvars, fr_cache' # NULL, fr_cache' # fr_cache
    PROVE  \E c \in Clients, p \in Paths, m \in {"GET", "POST"} :
               \E cond \in Conditions(c, p) : Dir_serve_file(c, p, m, cond)
<1>1. \A c \in Clients :
          /\ ~Response_send_status(c) /\ ~Dir_send_header(c) /\ ~Dir_stream_block(c)
          /\ ~Dir_stream_fails(c) /\ ~Dir_stream_ends(c)
  BY DEF Response_send_status, Dir_send_header, Dir_stream_block, Dir_stream_fails,
         Dir_stream_ends, Served
<1>2. ~Dir_destroy /\ ~Second /\ ~UNCHANGED dirvars /\ \A p \in Changing : ~ChangeFile(p)
  BY DEF Dir_destroy, Second, dirvars, ChangeFile
<1> QED BY <1>1, <1>2 DEF DirNext

(* The tags of a directory's cache tell the order of the uses of its records, as long as *)
(* fewer than INT_MAX / 2 requests are made.                                             *)
THEOREM TagInvariant ==
    ASSUME MaxEvents \in Nat, 2 * MaxEvents < INT_MAX
    PROVE  DirSpec => []TagInv
<1>1. DirInit => TagInv
  BY TagInvInit
<1>2. FilesInv /\ FilesInv' /\ TagInv /\ [DirNext]_dirvars => TagInv'
  BY TagStep
<1> QED BY <1>1, <1>2, FilesInvariant, PTL DEF DirSpec

(***************************************************************************)
(* Cache_add: as long as fewer than INT_MAX / 2 requests are made, the     *)
(* cache gives up a record that has changed or the one that was used the   *)
(* longest time ago.                                                       *)
(***************************************************************************)
THEOREM EvictionsAreLeastRecent ==
    ASSUME MaxEvents \in Nat, 2 * MaxEvents < INT_MAX
    PROVE  DirSpec => EvictsLeastRecent
<1> DEFINE Least == fr_cache # NULL /\ fr_cache' # NULL =>
              \A r \in Cached(fr_cache) \ Cached(fr_cache') :
                  \/ Expired(r) /\ Changed(r)
                  \/ \A q \in Cached(fr_cache) \cap Cached(fr_cache') : used[r] < used[q]
<1>1. FilesInv /\ TagInv /\ [DirNext]_dirvars => Least
  <2> SUFFICES ASSUME FilesInv, TagInv, [DirNext]_dirvars, fr_cache # NULL, fr_cache' # NULL,
                      NEW r \in Cached(fr_cache), r \notin Cached(fr_cache'),
                      ~(Expired(r) /\ Changed(r)),
                      NEW q \in Cached(fr_cache), q \in Cached(fr_cache')
               PROVE  used[r] < used[q]
    OBVIOUS
  <2>1. fr_cache' # fr_cache
    BY DEF Cached
  <2>2. GivesUp(fr_cache, fr_cache')
    BY <2>1, CacheMoves, ServeAges
  <2>3. PICK i \in 1..CacheSize : fr_cache[i].data = r /\ r # NULL
    BY DEF Cached
  <2>4. PICK j \in 1..CacheSize : fr_cache[j].data = q /\ q # NULL
    BY DEF Cached
  <2>5. fr_cache[i].tag <= fr_cache[j].tag
    <3>1. ~InCache(fr_cache', r)
      BY <2>3 DEF InCache, Cached
    <3> QED BY <2>2, <2>3, <2>4, <3>1 DEF GivesUp
  <2>6. i # j
    BY <2>3, <2>4
  <2>7. /\ used[q] < used[r] => fr_cache[j].tag < fr_cache[i].tag
        /\ used[q] = used[r] => j = i
    BY <2>3, <2>4 DEF TagInv, TheCache, Tagged
  <2>8. fr_cache \in [1..CacheSize -> Slot] /\ used \in [Records -> Nat]
    BY DEF FilesInv, FilesTypeOK, TagInv, UsesUpTo
  <2>9. /\ fr_cache[i].tag \in Nat /\ fr_cache[j].tag \in Nat
        /\ used[r] \in Nat /\ used[q] \in Nat
    <3>1. fr_cache[i] \in Slot /\ fr_cache[j] \in Slot
      BY <2>8
    <3> QED BY <2>3, <2>4, <2>8, <3>1 DEF Slot
  <2> QED BY <2>5, <2>6, <2>7, <2>9
<1>2. DirSpec => [][Least]_dirvars
  BY <1>1, FilesInvariant, TagInvariant, PTL DEF DirSpec
<1> QED BY <1>2 DEF EvictsLeastRecent

(***************************************************************************)
(* FileRecord_cache_check, Dir_none_match, Cache_add: what is sent or      *)
(* confirmed was right within the time to live, and the cache gives up the *)
(* record that was used the longest time ago.                              *)
(***************************************************************************)
THEOREM CopiesStayFresh ==
    ASSUME MaxEvents \in Nat, 2 * MaxEvents < INT_MAX
    PROVE  DirSpec => CopiesAreFresh
BY AnswersAreFresh, EvictionsAreLeastRecent DEF CopiesAreFresh
=============================================================================
