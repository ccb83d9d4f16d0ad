--------------------------- MODULE TrafficProofs ---------------------------
(***************************************************************************)
(* Proofs about the connection registry, for any set of descriptors and    *)
(* any size of the id space, and about the bytes of requests and replies,  *)
(* for any size of buffers, heads and records, any conversation and any    *)
(* reply.                                                                  *)
(*                                                                         *)
(* LiveIsReachable is not inductive by itself: to see that Register_connect *)
(* does not hand out an id that a live registration holds one must know    *)
(* where each id lies behind the counter.  AgesTrackCounter says that, and *)
(* with IdMapSound it makes the invariant inductive.                       *)
(*                                                                         *)
(* StreamsFaithful speaks about what was handed on.  That the next piece   *)
(* continues it depends on what the buffer holds and where the loop stands *)
(* in the request or the reply: RequestInv and ReplyInv say it for every   *)
(* place at which the task can be.                                         *)
(***************************************************************************)
EXTENDS Register, Streams, SequenceTheorems, WellFoundedInduction, TLAPS

(* A live id plus its age is the counter, or the counter one lap later. *)
AgesTrackCounter ==
    ~overtaken => \A fd \in Fds : Live(fd) =>
        /\ age[fd] \in 1 .. MAX_REGISTERED_FDS
        /\ \/ REGISTRATIONS[fd].id + age[fd] = REG_COUNT
           \/ REGISTRATIONS[fd].id + age[fd] = REG_COUNT + MAX_REGISTERED_FDS

IndInv ==
    /\ TypeOK
    /\ IdMapSound
    /\ AgesTrackCounter
    /\ LiveIsReachable

(* The counter's wrap, spelt out: it stays an id. *)
LEMMA NextIdValue ==
    ASSUME REG_COUNT \in Ids
    PROVE  /\ NextId \in Ids
           /\ NextId = IF REG_COUNT = MAX_REGISTERED_FDS - 1
                       THEN 0 ELSE REG_COUNT + 1
  BY RegisterAssumption DEF NextId, Ids

(* The fields of a typed registry, for the steps below. *)
LEMMA RegistryTypes ==
    ASSUME TypeOK, NEW fd \in Fds
    PROVE  /\ REGISTRATIONS[fd] \in Registration
           /\ REGISTRATIONS[fd].conn_type \in {0} \cup ConnTypes
           /\ REGISTRATIONS[fd].id \in Ids
           /\ REGISTRATIONS[fd].last_ping \in 0 .. MaxTime
           /\ age[fd] \in 0 .. (MAX_REGISTERED_FDS + 1)
  BY DEF TypeOK, Registration

(* The initial registry satisfies the invariant: nothing is registered. *)
LEMMA InitIndInv == Init => IndInv
<1> SUFFICES ASSUME Init PROVE IndInv
  OBVIOUS
<1> USE RegisterAssumption DEF Init, Register_init
<1>1. [conn_type |-> 0, id |-> 0, last_ping |-> 0] \in Registration
  BY DEF Registration, Ids
<1>2. TypeOK
  <2>1. REGISTRATIONS \in [Fds -> Registration]
    BY <1>1
  <2>2. /\ REG_COUNT \in Ids
        /\ now \in 1 .. MaxTime
        /\ open \subseteq Fds
    BY DEF Ids
  <2>3. /\ REG_ID_TO_FD \in [Ids -> Fds \cup {0}]
        /\ age \in [Fds -> 0 .. (MAX_REGISTERED_FDS + 1)]
        /\ fresh \in [Fds -> 0 .. MaxFresh]
    OBVIOUS
  <2> QED BY <2>1, <2>2, <2>3 DEF TypeOK
<1>3. \A fd \in Fds : ~Live(fd)
  BY DEF Live, Register_fd_exists
<1>4. IdMapSound /\ AgesTrackCounter /\ LiveIsReachable
  BY <1>3 DEF IdMapSound, AgesTrackCounter, LiveIsReachable, Register_fd_for_id
<1> QED BY <1>2, <1>4 DEF IndInv

(* A registration that is not lapped by this Register_connect grows older by one. *)
LEMMA ConnectAges ==
    ASSUME IndInv, NEW fd \in Fds, NEW t \in ConnTypes, Register_connect(fd, t),
           ~overtaken', NEW g \in Fds \ {fd}, Live(g)
    PROVE  /\ ~overtaken
           /\ age[g] \in 1 .. (MAX_REGISTERED_FDS - 1)
           /\ age'[g] = age[g] + 1
           /\ \/ REGISTRATIONS[g].id + age[g] = REG_COUNT
              \/ REGISTRATIONS[g].id + age[g] = REG_COUNT + MAX_REGISTERED_FDS
<1> USE RegisterAssumption
<1>1. ~overtaken /\ ~(age[g] >= MAX_REGISTERED_FDS)
  BY DEF Register_connect, RecordConnect
<1>2. age[g] \in 1 .. (MAX_REGISTERED_FDS - 1)
  BY <1>1, RegistryTypes DEF IndInv, AgesTrackCounter
<1>3. age'[g] = age[g] + 1
  BY <1>2 DEF Register_connect, RecordConnect, Grow
<1> QED BY <1>1, <1>2, <1>3 DEF IndInv, AgesTrackCounter

(* The entries of the map after Register_connect. *)
LEMMA ConnectMap ==
    ASSUME IndInv, NEW fd \in Fds, NEW t \in ConnTypes, Register_connect(fd, t)
    PROVE  /\ REG_ID_TO_FD'[REG_COUNT] = fd
           /\ \A id \in Ids \ {REG_COUNT} :
                 REG_ID_TO_FD'[id] = IF Live(fd) /\ id = REGISTRATIONS[fd].id
                                     THEN 0 ELSE REG_ID_TO_FD[id]
<1>1. REG_ID_TO_FD' = [MapBeforeConnect(fd) EXCEPT ![REG_COUNT] = fd]
  BY DEF Register_connect, RegConnect
<1> QED BY <1>1, RegistryTypes DEF IndInv, TypeOK, MapBeforeConnect, ClearedMap

(* Register_connect keeps the invariant. *)
LEMMA ConnectIndInv ==
    ASSUME IndInv, NEW fd \in Fds, NEW t \in ConnTypes, Register_connect(fd, t)
    PROVE  IndInv'
<1> USE RegisterAssumption
<1> DEFINE new == [conn_type |-> t, id |-> REG_COUNT, last_ping |-> now]
<1>1. /\ REG_COUNT \in Ids
      /\ NextId \in Ids
      /\ NextId = IF REG_COUNT = MAX_REGISTERED_FDS - 1 THEN 0 ELSE REG_COUNT + 1
  BY NextIdValue DEF IndInv, TypeOK
<1>2. t # 0
  BY DEF CONN_TYPE_HTTP, CONN_TYPE_MSG, CONN_TYPE_SOCKET
<1>3. /\ REGISTRATIONS' = [REGISTRATIONS EXCEPT ![fd] = new]
      /\ REG_COUNT' = NextId
      /\ REG_ID_TO_FD' = [MapBeforeConnect(fd) EXCEPT ![REG_COUNT] = fd]
      /\ UNCHANGED <<open, now>>
  BY DEF Register_connect, RegConnect
<1>4. TypeOK'
  <2>1. new \in Registration
    BY <1>1 DEF IndInv, TypeOK, Registration
  <2>2. REGISTRATIONS' \in [Fds -> Registration]
    BY <1>3, <2>1 DEF IndInv, TypeOK
  <2>3. MapBeforeConnect(fd) \in [Ids -> Fds \cup {0}]
    BY DEF MapBeforeConnect, ClearedMap, IndInv, TypeOK
  <2>4. REG_ID_TO_FD' \in [Ids -> Fds \cup {0}]
    BY <1>1, <1>3, <2>3
  <2>5. /\ age' \in [Fds -> 0 .. (MAX_REGISTERED_FDS + 1)]
        /\ overtaken' \in BOOLEAN
    BY DEF Register_connect, RecordConnect, Grow, IndInv, TypeOK
  <2>6. fresh' \in [Fds -> 0 .. MaxFresh]
    BY DEF Register_connect, IndInv, TypeOK
  <2> QED BY <1>1, <1>3, <2>2, <2>4, <2>5, <2>6 DEF IndInv, TypeOK
<1>5. /\ REGISTRATIONS'[fd] = new
      /\ \A g \in Fds \ {fd} : REGISTRATIONS'[g] = REGISTRATIONS[g]
      /\ \A g \in Fds \ {fd} : Live(g)' <=> Live(g)
  BY <1>3 DEF IndInv, TypeOK, Live, Register_fd_exists
<1>6. /\ REG_ID_TO_FD'[REG_COUNT] = fd
      /\ \A id \in Ids \ {REG_COUNT} :
            REG_ID_TO_FD'[id] = IF Live(fd) /\ id = REGISTRATIONS[fd].id
                                THEN 0 ELSE REG_ID_TO_FD[id]
  BY ConnectMap
<1>7. IdMapSound'
  <2> SUFFICES ASSUME NEW id \in Ids, REG_ID_TO_FD'[id] # 0
               PROVE  /\ REGISTRATIONS'[REG_ID_TO_FD'[id]].conn_type # 0
                      /\ REGISTRATIONS'[REG_ID_TO_FD'[id]].id = id
    BY DEF IdMapSound, Live, Register_fd_exists, Register_fd_for_id,
         Register_id_for_fd
  <2>1. CASE id = REG_COUNT
    BY <1>2, <1>5, <1>6, <2>1
  <2>2. CASE id # REG_COUNT
    <3>1. /\ REG_ID_TO_FD'[id] = REG_ID_TO_FD[id]
          /\ ~(Live(fd) /\ id = REGISTRATIONS[fd].id)
      BY <1>6, <2>2
    <3>2. /\ REG_ID_TO_FD[id] \in Fds
          /\ Live(REG_ID_TO_FD[id])
          /\ REGISTRATIONS[REG_ID_TO_FD[id]].id = id
      BY <3>1 DEF IndInv, TypeOK, IdMapSound, Register_fd_for_id, Register_id_for_fd
    <3>3. REG_ID_TO_FD[id] \in Fds \ {fd}
      BY <3>1, <3>2
    <3> QED BY <1>5, <3>1, <3>2, <3>3 DEF Live, Register_fd_exists
  <2> QED BY <2>1, <2>2
<1>8. ASSUME ~overtaken', NEW g \in Fds \ {fd}, Live(g)
      PROVE  /\ ~overtaken
             /\ age[g] \in 1 .. (MAX_REGISTERED_FDS - 1)
             /\ age'[g] = age[g] + 1
             /\ \/ REGISTRATIONS[g].id + age[g] = REG_COUNT
                \/ REGISTRATIONS[g].id + age[g] = REG_COUNT + MAX_REGISTERED_FDS
  BY <1>8, ConnectAges
<1>9. age'[fd] = 1
  BY DEF Register_connect, RecordConnect
<1>10. AgesTrackCounter'
  <2> SUFFICES ASSUME ~overtaken', NEW g \in Fds, Live(g)'
               PROVE  /\ age'[g] \in 1 .. MAX_REGISTERED_FDS
                      /\ \/ REGISTRATIONS'[g].id + age'[g] = REG_COUNT'
                         \/ REGISTRATIONS'[g].id + age'[g]
                               = REG_COUNT' + MAX_REGISTERED_FDS
    BY DEF AgesTrackCounter
  <2>1. CASE g = fd
    BY <1>1, <1>3, <1>5, <1>9, <2>1 DEF Ids
  <2>2. CASE g # fd
    <3>1. Live(g) /\ REGISTRATIONS'[g].id = REGISTRATIONS[g].id
      BY <1>5, <2>2
    <3>3. /\ age[g] \in 1 .. (MAX_REGISTERED_FDS - 1)
          /\ age'[g] = age[g] + 1
          /\ \/ REGISTRATIONS[g].id + age[g] = REG_COUNT
             \/ REGISTRATIONS[g].id + age[g] = REG_COUNT + MAX_REGISTERED_FDS
      BY <1>8, <2>2, <3>1
    <3>4. REG_COUNT' = IF REG_COUNT = MAX_REGISTERED_FDS - 1
                       THEN 0 ELSE REG_COUNT + 1
      BY <1>1, <1>3
    <3> HIDE DEF new
    <3>5. REGISTRATIONS[g].id \in Ids /\ REG_COUNT \in Ids
      BY <1>1, RegistryTypes DEF IndInv
    <3> QED BY <3>1, <3>3, <3>4, <3>5 DEF Ids
  <2> QED BY <2>1, <2>2
<1>11. LiveIsReachable'
  <2> SUFFICES ASSUME ~overtaken', NEW g \in Fds, Live(g)'
               PROVE  REG_ID_TO_FD'[REGISTRATIONS'[g].id] = g
    BY DEF LiveIsReachable, Register_fd_for_id, Register_id_for_fd
  <2>1. CASE g = fd
    BY <1>5, <1>6, <2>1
  <2>2. CASE g # fd
    <3>1. Live(g) /\ REGISTRATIONS'[g].id = REGISTRATIONS[g].id
      BY <1>5, <2>2
    <3>2. REGISTRATIONS[g].id \in Ids \ {REG_COUNT}
      BY <1>1, <1>8, <2>2, <3>1, RegistryTypes DEF IndInv, Ids
    <3>3. REG_ID_TO_FD[REGISTRATIONS[g].id] = g
      BY <1>8, <2>2, <3>1
      DEF IndInv, LiveIsReachable, Register_fd_for_id, Register_id_for_fd
    <3>4. Live(fd) => REGISTRATIONS[fd].id # REGISTRATIONS[g].id
      BY <1>8, <2>2, <3>1, <3>3
      DEF IndInv, LiveIsReachable, Register_fd_for_id, Register_id_for_fd
    <3> QED BY <1>6, <3>1, <3>2, <3>3, <3>4
  <2> QED BY <2>1, <2>2
<1> QED BY <1>4, <1>7, <1>10, <1>11 DEF IndInv

(* Register_disconnect keeps the invariant, registered or not. *)
LEMMA DisconnectIndInv ==
    ASSUME IndInv, NEW fd \in Fds, Register_disconnect(fd)
    PROVE  IndInv'
<1> USE RegisterAssumption
<1>0. fresh' \in [Fds -> 0 .. MaxFresh]
  BY DEF Register_disconnect, IndInv, TypeOK
<1>1. CASE ~Live(fd)
  <2>1. UNCHANGED <<REGISTRATIONS, REG_COUNT, REG_ID_TO_FD, now, overtaken>>
    BY <1>1 DEF Register_disconnect, regvars
  <2>2. /\ open' \subseteq Fds
        /\ age' \in [Fds -> 0 .. (MAX_REGISTERED_FDS + 1)]
        /\ \A g \in Fds \ {fd} : age'[g] = age[g]
    <3>1. open' = open \ {fd} /\ age' = [age EXCEPT ![fd] = 0]
      BY DEF Register_disconnect
    <3> QED BY <3>1 DEF IndInv, TypeOK
  <2> QED BY <1>0, <1>1, <2>1, <2>2
       DEF IndInv, TypeOK, IdMapSound, AgesTrackCounter, LiveIsReachable, Live,
           Register_fd_exists, Register_fd_for_id, Register_id_for_fd
<1>2. CASE Live(fd)
  <2>1. /\ REGISTRATIONS' = [REGISTRATIONS EXCEPT ![fd] = Register_clear(@)]
        /\ REG_ID_TO_FD' = [REG_ID_TO_FD EXCEPT ![REGISTRATIONS[fd].id] = 0]
        /\ UNCHANGED <<REG_COUNT, now, overtaken>>
        /\ open' \subseteq Fds
        /\ age' = [age EXCEPT ![fd] = 0]
    BY <1>2 DEF Register_disconnect, RegClear, ClearedMap, IndInv, TypeOK
  <2>2. /\ Register_clear(REGISTRATIONS[fd]) \in Registration
        /\ Register_clear(REGISTRATIONS[fd]).conn_type = 0
    <3>1. REGISTRATIONS[fd] \in [conn_type : {0} \cup ConnTypes, id : Ids,
                                 last_ping : 0 .. MaxTime]
      BY RegistryTypes DEF IndInv, Registration
    <3> QED BY <3>1 DEF Register_clear, Registration
  <2>3. TypeOK'
    <3>1. REGISTRATIONS' \in [Fds -> Registration]
      BY <2>1, <2>2 DEF IndInv, TypeOK
    <3>2. REG_ID_TO_FD' \in [Ids -> Fds \cup {0}]
      BY <2>1 DEF IndInv, TypeOK
    <3>3. age' \in [Fds -> 0 .. (MAX_REGISTERED_FDS + 1)]
      BY <2>1 DEF IndInv, TypeOK
    <3> QED BY <1>0, <2>1, <3>1, <3>2, <3>3 DEF IndInv, TypeOK
  <2>4. /\ ~Live(fd)'
        /\ \A g \in Fds \ {fd} : /\ REGISTRATIONS'[g] = REGISTRATIONS[g]
                                 /\ Live(g)' <=> Live(g)
                                 /\ age'[g] = age[g]
    BY <2>1, <2>2 DEF IndInv, TypeOK, Live, Register_fd_exists
  <2>5. /\ REG_ID_TO_FD'[REGISTRATIONS[fd].id] = 0
        /\ \A id \in Ids : id # REGISTRATIONS[fd].id
                              => REG_ID_TO_FD'[id] = REG_ID_TO_FD[id]
    BY <2>1, RegistryTypes DEF IndInv, TypeOK
  <2>6. IdMapSound'
    <3> SUFFICES ASSUME NEW id \in Ids, REG_ID_TO_FD'[id] # 0
                 PROVE  /\ REGISTRATIONS'[REG_ID_TO_FD'[id]].conn_type # 0
                        /\ REGISTRATIONS'[REG_ID_TO_FD'[id]].id = id
      BY DEF IdMapSound, Live, Register_fd_exists, Register_fd_for_id,
         Register_id_for_fd
    <3>1. REG_ID_TO_FD'[id] = REG_ID_TO_FD[id] /\ id # REGISTRATIONS[fd].id
      BY <2>5
    <3>2. /\ REG_ID_TO_FD[id] \in Fds \ {fd}
          /\ Live(REG_ID_TO_FD[id])
          /\ REGISTRATIONS[REG_ID_TO_FD[id]].id = id
      BY <3>1 DEF IndInv, TypeOK, IdMapSound, Register_fd_for_id, Register_id_for_fd
    <3> QED BY <2>4, <3>1, <3>2 DEF Live, Register_fd_exists
  <2>7. AgesTrackCounter'
    BY <2>1, <2>4 DEF IndInv, AgesTrackCounter
  <2>8. LiveIsReachable'
    BY <1>2, <2>1, <2>4, <2>5, RegistryTypes
    DEF IndInv, LiveIsReachable, Register_fd_for_id, Register_id_for_fd
  <2> QED BY <2>3, <2>6, <2>7, <2>8 DEF IndInv
<1> QED BY <1>1, <1>2

(* The remaining steps change no id and no entry of the map. *)
LEMMA OtherStepsIndInv ==
    ASSUME IndInv,
           \/ \E fd \in Fds : Accept(fd) \/ Register_ping(fd)
           \/ \E id \in Ids : Control_kill(id)
           \/ Tick
           \/ UNCHANGED vars
    PROVE  IndInv'
<1> USE RegisterAssumption
    DEF IndInv, TypeOK, IdMapSound, AgesTrackCounter, LiveIsReachable, Live,
        Register_fd_exists, Register_fd_for_id, Register_id_for_fd, regvars, history
<1>1. ASSUME NEW fd \in Fds, Accept(fd) PROVE IndInv'
  BY <1>1 DEF Accept
<1>2. ASSUME NEW fd \in Fds, Register_ping(fd) PROVE IndInv'
  BY <1>2 DEF Register_ping, Registration
<1>3. ASSUME NEW id \in Ids, Control_kill(id) PROVE IndInv'
  BY <1>3 DEF Control_kill
<1>4. CASE Tick
  BY <1>4 DEF Tick
<1>5. CASE UNCHANGED vars
  BY <1>5 DEF vars
<1> QED BY <1>1, <1>2, <1>3, <1>4, <1>5

(* The inductive invariant holds in every reachable state. *)
THEOREM RegisterInvariant == Spec => []IndInv
<1>1. Init => IndInv
  BY InitIndInv
<1>2. IndInv /\ [Next]_vars => IndInv'
  BY ConnectIndInv, DisconnectIndInv, OtherStepsIndInv DEF Next
<1> QED BY <1>1, <1>2, PTL DEF Spec

(***************************************************************************)
(* Type correctness of the registry: in particular REG_COUNT stays inside  *)
(* REG_ID_TO_FD however often it wraps.                                    *)
(***************************************************************************)
THEOREM RegisterTypeOK == Spec => []TypeOK
  BY RegisterInvariant, PTL DEF IndInv

(* Register_fd_for_id never names a connection that holds another id. *)
THEOREM RegisterIdMapSound == Spec => []IdMapSound
  BY RegisterInvariant, PTL DEF IndInv

(* Until the counter laps a live registration, ids reach every connection. *)
THEOREM RegisterLiveIsReachable == Spec => []LiveIsReachable
  BY RegisterInvariant, PTL DEF IndInv

(***************************************************************************)
(* An id passes from one connection to another only through "nobody", as   *)
(* long as the counter has lapped no live registration: the action         *)
(* property of the Register run, for every size of the id space.           *)
(***************************************************************************)
THEOREM RegisterNoIdTakenOver == Spec => NoIdTakenOver
<1> DEFINE Keep == \A id \in Ids :
                     (REG_ID_TO_FD[id] # 0 /\ REG_ID_TO_FD'[id] # 0 /\ ~overtaken')
                        => REG_ID_TO_FD'[id] = REG_ID_TO_FD[id]
<1>1. ASSUME IndInv, [Next]_vars PROVE [Keep]_vars
  <2>1. ASSUME NEW fd \in Fds, NEW t \in ConnTypes, Register_connect(fd, t)
        PROVE  Keep
    <3> SUFFICES ASSUME NEW id \in Ids, REG_ID_TO_FD[id] # 0,
                        REG_ID_TO_FD'[id] # 0, ~overtaken'
                 PROVE  REG_ID_TO_FD'[id] = REG_ID_TO_FD[id]
      OBVIOUS
    <3> DEFINE g == REG_ID_TO_FD[id]
    <3>1. g \in Fds /\ Live(g) /\ REGISTRATIONS[g].id = id
      BY <1>1 DEF IndInv, TypeOK, IdMapSound, Register_fd_for_id, Register_id_for_fd
    <3>2. CASE id = REG_COUNT /\ g # fd
      <4>1. /\ age[g] \in 1 .. (MAX_REGISTERED_FDS - 1)
            /\ \/ id + age[g] = REG_COUNT
               \/ id + age[g] = REG_COUNT + MAX_REGISTERED_FDS
        BY <1>1, <2>1, <3>1, <3>2, ConnectAges
      <4> HIDE DEF g
      <4> QED BY <3>2, <4>1, RegisterAssumption DEF Ids
    <3>3. CASE id = REG_COUNT /\ g = fd
      BY <1>1, <2>1, <3>3, ConnectMap
    <3>4. CASE id # REG_COUNT
      BY <1>1, <2>1, <3>4, ConnectMap
    <3> QED BY <3>2, <3>3, <3>4
  <2>2. ASSUME NEW fd \in Fds, Register_disconnect(fd) PROVE Keep
    BY <1>1, <2>2, RegistryTypes
    DEF Register_disconnect, RegClear, ClearedMap, regvars, IndInv, TypeOK
  <2>3. CASE \/ \E fd \in Fds : Accept(fd) \/ Register_ping(fd)
             \/ \E id \in Ids : Control_kill(id)
             \/ Tick
             \/ UNCHANGED vars
    BY <2>3 DEF Accept, Register_ping, Control_kill, Tick, regvars, vars
  <2> QED BY <1>1, <2>1, <2>2, <2>3 DEF Next
<1> QED BY <1>1, RegisterInvariant, PTL DEF Spec, NoIdTakenOver

-----------------------------------------------------------------------------
(* The invariant of a client's requests. *)
Requesting == {"route", "body", "upload", "stream"}
Stashes == [at : Nat, len : Int]

(* Memory is initialised and never shrinks. *)
IsBuffer(memory) ==
    /\ \E top \in DOMAIN memory : BUFFER_SIZE <= top /\ DOMAIN memory = 0 .. top
    /\ \A i \in DOMAIN memory : memory[i] \in Nat

Clients == [requests : Conversations, pipelines : BOOLEAN, ssl : BOOLEAN, temp_store : BOOLEAN]
RequestParsers == [request : Nat, seen : 0 .. HEADER, error : BOOLEAN]

RequestTypes ==
    /\ client \in Clients
    /\ pc \in Requesting \cup {"header", "closed", "overrun"}
    /\ pos \in Nat /\ nread \in Nat /\ nparsed \in Nat
    /\ IsBuffer(buf)
    /\ parse \in RequestParsers
    /\ parse.seen > 0 => parse.request \in Numbers
    /\ ssl_buff \in Stashes
    /\ loop \in [remaining : Int, at : Nat]
    /\ oversize \in BOOLEAN
    /\ early \in Int
    /\ answered \in Nat
    /\ upstream \in Seq(Nat)

(* Without records that are too long, recv hands out what has come. *)
InOrder == ~oversize => ssl_buff = NoStash /\ got = Bytes(1, pos)

(* Where the loops are, whatever the bytes are. *)
Places ==
    /\ pc = "header" => loop.at + loop.remaining = BUFFER_SIZE - 1
    /\ pc \in Requesting => parse.seen = HEADER
    /\ pc \in {"route", "body"} => early = nread - HEADER
    /\ pc = "body" => /\ loop.remaining >= 0
                      /\ loop.at + loop.remaining = nread + Request(k).content
                      /\ 0 .. Total(k) - 1 \subseteq DOMAIN buf
    /\ pc = "overrun" => early > 0

(* Memory begins with the last n bytes that were read up to end. *)
Holds(memory, end, n) == n <= end /\ \A i \in 0 .. n - 1 : i \in DOMAIN memory /\ memory[i] = end - n + 1 + i
Held(n) == Holds(buf, pos, n)

(* The requests that handlers get. *)
Complete == {[request |-> n, content |-> Body(n)] : n \in Numbers}

Undisturbed ==
    /\ payloads \in Seq(Complete)
    /\ pc = "header" =>
        /\ nparsed = nread /\ loop.at = nread /\ Held(nread)
        /\ parse.seen > 0 /\ ~parse.error => Base(k) = pos - nread
        /\ ~parse.error => parse.seen = nread
    /\ pc = "route" => Held(nread) /\ Base(k) = pos - nread /\ nread >= HEADER
    /\ pc = "body" => /\ pos = Base(k) + loop.at /\ loop.at >= nread /\ nread >= HEADER
                      /\ Held(loop.at)
    /\ pc = "upload" => /\ Base(k) + HEADER <= pos
                        /\ file = Bytes(Base(k) + HEADER + 1, pos)
                        /\ loop.remaining = EndOf(k) - pos
    /\ pc = "stream" => loop.remaining = EndOf(k) - pos /\ Base(k) < pos

(* A client that waits for each answer has sent at most the request behind *)
(* the ones that were answered, and all it sent lies behind them.          *)
Behind(from) ==
    /\ answered <= Len(client.requests)
    /\ IF answered = 0 THEN from = 0 ELSE Base(answered) < from /\ from <= EndOf(answered)

ProxyStarts == {Base(n) + 1 : n \in {m \in Numbers : Request(m).path = "proxy"}}
Whole(s) == \A i \in DOMAIN s : s[i] \in ProxyStarts \/ (i > 1 /\ s[i] = s[i - 1] + 1)

Waiting ==
    /\ pos <= Limit
    /\ pc = "header" => Behind(pos - nread)
    /\ pc \in Requesting => answered < Len(client.requests) /\ k = answered + 1
    /\ Whole(upstream)
    /\ pc = "stream" => upstream # <<>> /\ upstream[Len(upstream)] = pos

RequestInv ==
    /\ RequestTypes /\ InOrder /\ Places
    /\ ~Disturbed => Undisturbed
    /\ ~oversize /\ ~client.pipelines => Waiting

-----------------------------------------------------------------------------
(* The invariant of a reply. *)
InBuffer ==
    /\ rnread \in 0 .. PROXY_BUFFER /\ rnread <= rpos
    /\ \A i \in 0 .. rnread - 1 : proxy_buf[i] = rpos - rnread + 1 + i

(* Where what is sent of the last chunk in the buffer ends. *)
ChunkStarts == {ChunkStart(i) : i \in Chunks}
Reached(end) == IF chunk.chunks_done THEN end = Length ELSE end \in ChunkStarts

InTheReply == Len(relayed) \in Nat /\ relayed = Range1(Len(relayed))

Responding ==
    /\ at = "respond" => /\ reply.kind = "length" /\ InBuffer /\ rpos = rnread /\ relayed = <<>>
                         /\ chunk.body_start + chunk.content_len = Length /\ ~chunk.chunked
    /\ at = "body" => relayed = Range1(rpos) /\ remaining = Length - rpos /\ remaining > 0
    /\ at = "relay" => reply.kind = "close" /\ InBuffer /\ relayed = Range1(rpos - rnread)

Scanning ==
    /\ at = "scan" =>
        /\ reply.kind = "chunks" /\ InBuffer /\ relayed = Range1(rpos - rnread)
        /\ total \in 0 .. rnread /\ rpos - rnread + total \in ChunkStarts
        /\ ~EndsBadly(rpos)
        /\ rnread = 0 => rpos = Available
    /\ at = "chunk body" =>
        /\ relayed = Range1(rpos) /\ remaining \in Nat \ {0} /\ Reached(rpos + remaining)
        /\ rnread \in Nat /\ total \in Nat /\ rnread <= total
    /\ at = "streamed" =>
        /\ InTheReply /\ Reached(Len(relayed)) /\ (~chunk.chunks_done => Len(relayed) = rpos)
        /\ rnread \in Nat /\ total \in Nat /\ (~chunk.chunks_done => rnread <= total)

Ended ==
    /\ at \in {"done", "abort", "failed"} => InTheReply
    /\ at = "done" => Len(relayed) >= Length
    /\ at = "abort" => reply.surplus > 0
    /\ at = "failed" => rpos < REPLY_HEAD \/ (reply.cut /\ rpos = Available)

Parsers == [chunked : BOOLEAN, body_start : Int, content_len : Int, chunks_done : BOOLEAN, error : BOOLEAN]
ReplyTypes ==
    /\ reply \in ReplyKinds
    /\ at \in {"read", "respond", "body", "relay", "scan", "chunk body", "streamed", "done", "abort", "failed"}
    /\ rpos \in Nat /\ rpos <= Available
    /\ DOMAIN proxy_buf = 0 .. PROXY_BUFFER
    /\ rnread \in Nat /\ total \in Int /\ remaining \in Int
    /\ chunk \in Parsers
    /\ aligned \in BOOLEAN
    /\ at = "read" => rpos = 0 /\ relayed = <<>>

ReplyInv ==
    /\ ReplyTypes
    /\ aligned => Responding /\ Scanning /\ Ended

StreamsInv == RequestInv /\ ReplyInv
-----------------------------------------------------------------------------
(* Places. *)

(* A set of numbers that is not empty has a least one. *)
LEMMA LeastNumber ==
    ASSUME NEW T, T \subseteq Nat, T # {}
    PROVE  \E x \in T : x \in Nat /\ \A y \in T : x <= y
<1> DEFINE R == OpToRel(<, Nat)
<1>1. IsWellFoundedOn(R, Nat)
  BY NatLessThanWellFounded
<1>2. \A x, y \in Nat : y < x => <<y, x>> \in R
  BY DEF OpToRel
<1> HIDE DEF R
<1>3. PICK x \in T : \A y \in T : ~ (<<y, x>> \in R)
  BY <1>1, WFMin
<1>4. x \in Nat
  OBVIOUS
<1>5. ASSUME NEW y \in T
      PROVE  x <= y
  <2>1. y \in Nat /\ ~(<<y, x>> \in R)
    BY <1>3
  <2>2. ~(y < x)
    BY <1>2, <1>4, <2>1
  <2> QED
    BY <1>4, <2>1, <2>2
<1> QED
  BY <1>4, <1>5

(* Induction up to n, for a set of numbers that has the ones for which a claim holds. *)
LEMMA Induction ==
    ASSUME NEW n \in Nat, NEW good, 0 \in good, \A i \in 0..(n - 1) : i \in good => i + 1 \in good
    PROVE  \A i \in 0..n : i \in good
<1> DEFINE bad == {i \in 0..n : i \notin good}
<1>1. bad \subseteq Nat
  OBVIOUS
<1>2. CASE bad = {}
  BY <1>2
<1>3. CASE bad # {}
  <2>1. PICK i \in bad : i \in Nat /\ \A j \in bad : i <= j
    <3> HIDE DEF bad
    <3> QED
      BY <1>1, <1>3, LeastNumber
  <2>2. i # 0 /\ i \in 0..n /\ i \notin good
    OBVIOUS
  <2>3. i - 1 \in 0..(n - 1)
    BY <2>1, <2>2
  <2>4. i - 1 \in 0..n
    BY <2>1, <2>2
  <2>5. i - 1 \in good
    BY <2>1, <2>4
  <2>6. (i - 1) + 1 \in good
    BY <2>3, <2>5
  <2> QED
    BY <2>1, <2>2, <2>6
<1> QED
  BY <1>2, <1>3


(* What a client was sent is one piece when the next piece fits on it. *)
LEMMA RangeLength ==
    ASSUME NEW n \in Nat
    PROVE  Len(Range1(n)) = n /\ Range1(n) \in Seq(Nat)
  BY DEF Range1

(* What was relayed grows by the bytes that follow it. *)
LEMMA RangeGrows ==
    ASSUME NEW n \in Nat, NEW m \in Nat
    PROVE  Range1(n) \o [i \in 1 .. m |-> n + i] = Range1(n + m)
<1> DEFINE s == Range1(n)
<1> DEFINE t == [i \in 1 .. m |-> n + i]
<1>1. s \in Seq(Nat) /\ Len(s) = n /\ \A i \in 1 .. n : s[i] = i
  BY DEF Range1
<1>2. t \in Seq(Nat) /\ Len(t) = m /\ \A i \in 1 .. m : t[i] = n + i
  OBVIOUS
<1> HIDE DEF s, t
<1>3. s \o t \in Seq(Nat) /\ Len(s \o t) = n + m
  BY <1>1, <1>2, ConcatProperties
<1>4. \A i \in 1 .. n + m : (s \o t)[i] = i
  BY <1>1, <1>2, ConcatProperties
<1>5. Range1(n + m) \in Seq(Nat) /\ Len(Range1(n + m)) = n + m /\ \A i \in 1 .. n + m : Range1(n + m)[i] = i
  BY DEF Range1
<1>6. s \o t = Range1(n + m)
  BY <1>3, <1>4, <1>5, SeqEqual
<1> QED
  BY <1>6 DEF s, t

(* Chunks follow one another. *)
LEMMA ChunkTypes ==
    ASSUME reply \in ReplyKinds
    PROVE  /\ Chunks = 1 .. Len(reply.chunks) /\ Len(reply.chunks) \in Nat
           /\ \A i \in Chunks : ChunkStart(i) \in Nat /\ ChunkSize(i) \in Nat
           /\ \A i \in Chunks : ChunkSize(i) = 0 <=> i = Len(reply.chunks)
           /\ \A i \in 1 .. Len(reply.chunks) - 1 : ChunkStart(i + 1) = ChunkStart(i) + ChunkSize(i) + 6
           /\ reply.kind = "chunks" <=> Chunks # {}
           /\ Chunks # {} => 1 \in Chunks /\ Len(reply.chunks) \in Chunks /\ ChunkStart(1) = REPLY_HEAD
<1>1. /\ reply.chunks \in Seq([start : Nat, size : Nat])
      /\ reply.kind = "chunks" <=> reply.chunks # <<>>
      /\ reply.chunks # <<>> => reply.chunks[1].start = REPLY_HEAD
      /\ \A i \in 1 .. Len(reply.chunks) - 1 :
            reply.chunks[i + 1].start = reply.chunks[i].start + reply.chunks[i].size + 6
      /\ \A i \in 1 .. Len(reply.chunks) : reply.chunks[i].size = 0 <=> i = Len(reply.chunks)
  BY RepliesAssumption
<1>2. Chunks = 1 .. Len(reply.chunks) /\ Len(reply.chunks) \in Nat
  BY <1>1 DEF Chunks
<1>3. \A i \in Chunks : reply.chunks[i] \in [start : Nat, size : Nat]
  BY <1>1, <1>2, ElementOfSeq
<1>4. reply.chunks # <<>> <=> Chunks # {}
  <2>1. reply.chunks # <<>> => Len(reply.chunks) \in Nat \ {0}
    BY <1>1, EmptySeq
  <2>2. reply.chunks = <<>> => Len(reply.chunks) = 0
    BY EmptySeq
  <2> QED
    BY <2>1, <2>2, <1>2
<1> QED
  BY <1>1, <1>2, <1>3, <1>4 DEF ChunkStart, ChunkSize

(* The chunks of a reply lie behind each other, each with its header before *)
(* and its end of line behind it.                                          *)
LEMMA ChunksInOrder ==
    ASSUME reply \in ReplyKinds
    PROVE  \A i, j \in Chunks : i < j => ChunkStart(i) + ChunkSize(i) + 6 <= ChunkStart(j)
<1> DEFINE N == Len(reply.chunks)
<1> DEFINE good == {n \in Nat : \A i \in Chunks : i + n + 1 \in Chunks =>
                                    ChunkStart(i) + ChunkSize(i) + 6 <= ChunkStart(i + n + 1)}
<1>1. /\ Chunks = 1 .. N /\ N \in Nat
      /\ \A i \in Chunks : ChunkStart(i) \in Nat /\ ChunkSize(i) \in Nat
      /\ \A i \in 1 .. N - 1 : ChunkStart(i + 1) = ChunkStart(i) + ChunkSize(i) + 6
  BY ChunkTypes
<1> HIDE DEF N
<1>2. 0 \in good
  <2> SUFFICES ASSUME NEW i \in Chunks, i + 1 \in Chunks
               PROVE  ChunkStart(i) + ChunkSize(i) + 6 <= ChunkStart(i + 1)
    BY <1>1
  <2>1. i \in 1 .. N - 1
    BY <1>1
  <2> QED
    BY <1>1, <2>1
<1>3. ASSUME NEW n \in 0 .. (N - 1), n \in good
      PROVE  n + 1 \in good
  <2> SUFFICES ASSUME NEW i \in Chunks, i + n + 2 \in Chunks
               PROVE  ChunkStart(i) + ChunkSize(i) + 6 <= ChunkStart(i + n + 2)
    BY <1>1
  <2>1. i \in Nat /\ i + n + 1 \in Chunks /\ i + n + 1 \in 1 .. N - 1 /\ (i + n + 1) + 1 = i + n + 2
    BY <1>1
  <2>2. ChunkStart(i) + ChunkSize(i) + 6 <= ChunkStart(i + n + 1)
    BY <1>3, <2>1
  <2>3. ChunkStart(i + n + 2) = ChunkStart(i + n + 1) + ChunkSize(i + n + 1) + 6
    BY <1>1, <2>1
  <2>4. /\ ChunkStart(i) \in Nat /\ ChunkSize(i) \in Nat /\ ChunkStart(i + n + 1) \in Nat
        /\ ChunkSize(i + n + 1) \in Nat
    BY <1>1, <2>1
  <2> QED
    BY <2>2, <2>3, <2>4
<1>4. \A n \in 0 .. N : n \in good
  <2> HIDE DEF good
  <2> QED
    BY <1>1, <1>2, <1>3, Induction
<1> SUFFICES ASSUME NEW i \in Chunks, NEW j \in Chunks, i < j
             PROVE  ChunkStart(i) + ChunkSize(i) + 6 <= ChunkStart(j)
  OBVIOUS
<1>5. j - i - 1 \in 0 .. N /\ i + (j - i - 1) + 1 = j
  BY <1>1
<1>6. j - i - 1 \in good
  BY <1>4, <1>5
<1> QED
  BY <1>5, <1>6

(* How long a reply is, and where its chunks lie in it. *)
LEMMA LengthFacts ==
    ASSUME reply \in ReplyKinds
    PROVE  /\ Length \in Nat /\ REPLY_HEAD <= Length /\ Available \in Nat
           /\ reply.surplus \in Nat /\ reply.cut \in BOOLEAN /\ reply.content \in Nat
           /\ Length <= Available + 1 /\ (~reply.cut => Length <= Available)
           /\ Available = IF reply.cut THEN Length - 1 ELSE Length + reply.surplus
           /\ \A i \in Chunks : /\ REPLY_HEAD <= ChunkStart(i)
                                /\ ChunkStart(i) + ChunkSize(i) + 6 <= Length
           /\ Chunks # {} => Length = ChunkStart(Len(reply.chunks)) + ChunkSize(Len(reply.chunks)) + 6
<1>1. /\ REPLY_HEAD \in Nat \ {0} /\ reply.content \in Nat /\ reply.surplus \in Nat /\ reply.cut \in BOOLEAN
  BY RepliesAssumption
<1> DEFINE N == Len(reply.chunks)
<1>2. /\ Chunks = 1 .. N /\ N \in Nat
      /\ \A i \in Chunks : ChunkStart(i) \in Nat /\ ChunkSize(i) \in Nat
      /\ reply.kind = "chunks" <=> Chunks # {}
      /\ Chunks # {} => 1 \in Chunks /\ N \in Chunks /\ ChunkStart(1) = REPLY_HEAD
  BY ChunkTypes
<1>3. \A i, j \in Chunks : i < j => ChunkStart(i) + ChunkSize(i) + 6 <= ChunkStart(j)
  BY ChunksInOrder
<1>4. Length = IF Chunks = {} THEN REPLY_HEAD + reply.content ELSE ChunkStart(N) + ChunkSize(N) + 6
  BY <1>2 DEF Length
<1> HIDE DEF N
<1>5. ASSUME NEW i \in Chunks
      PROVE  REPLY_HEAD <= ChunkStart(i) /\ ChunkStart(i) + ChunkSize(i) + 6 <= Length
  <2>1. ChunkStart(i) \in Nat /\ ChunkSize(i) \in Nat /\ 1 \in Chunks /\ N \in Chunks /\ ChunkStart(1) = REPLY_HEAD
        /\ ChunkStart(N) \in Nat /\ ChunkSize(N) \in Nat /\ ChunkSize(1) \in Nat
        /\ Length = ChunkStart(N) + ChunkSize(N) + 6
    BY <1>2, <1>4
  <2>2. REPLY_HEAD <= ChunkStart(i)
    <3>1. CASE i = 1
      BY <3>1, <2>1, <1>1
    <3>2. CASE i # 1
      <4>1. 1 < i
        BY <3>2, <1>2
      <4>2. ChunkStart(1) + ChunkSize(1) + 6 <= ChunkStart(i)
        BY <4>1, <2>1, <1>3
      <4> QED
        BY <4>2, <2>1, <1>1
    <3> QED
      BY <3>1, <3>2
  <2>3. ChunkStart(i) + ChunkSize(i) + 6 <= Length
    <3>1. CASE i = N
      BY <3>1, <2>1
    <3>2. CASE i # N
      <4>1. i < N
        BY <3>2, <1>2
      <4>2. ChunkStart(i) + ChunkSize(i) + 6 <= ChunkStart(N)
        BY <4>1, <2>1, <1>3
      <4> QED
        BY <4>2, <2>1
    <3> QED
      BY <3>1, <3>2
  <2> QED
    BY <2>2, <2>3
<1>6. Length \in Nat /\ REPLY_HEAD <= Length
  <2>1. CASE Chunks = {}
    BY <2>1, <1>1, <1>4
  <2>2. CASE Chunks # {}
    <3>1. N \in Chunks /\ ChunkStart(N) \in Nat /\ ChunkSize(N) \in Nat
      BY <2>2, <1>2
    <3>2. REPLY_HEAD <= ChunkStart(N)
      BY <3>1, <1>5
    <3> QED
      BY <3>1, <3>2, <2>2, <1>1, <1>4
  <2> QED
    BY <2>1, <2>2
<1>7. /\ Available \in Nat /\ Length <= Available + 1 /\ (~reply.cut => Length <= Available)
      /\ Available = IF reply.cut THEN Length - 1 ELSE Length + reply.surplus
  BY <1>6, <1>1 DEF Available
<1>8. Chunks # {} => Length = ChunkStart(N) + ChunkSize(N) + 6
  BY <1>4
<1> QED
  BY <1>1, <1>5, <1>6, <1>7, <1>8 DEF N

(* What is said of a reply depends on the reply only. *)
LEMMA SameReply ==
    ASSUME reply' = reply
    PROVE  /\ Length' = Length /\ Available' = Available /\ ChunkStarts' = ChunkStarts
           /\ EndsBadly(rpos)' = EndsBadly(rpos')
<1>1. Chunks' = Chunks
  BY DEF Chunks
<1>2. /\ \A i : ChunkStart(i)' = ChunkStart(i) 
      /\ \A i : ChunkSize(i)' = ChunkSize(i)
  BY DEF ChunkStart, ChunkSize
<1>3. Length' = Length
  BY <1>2 DEF Length, ChunkStart, ChunkSize
<1>4. Available' = Available
  BY <1>3 DEF Available
<1>5. ChunkStarts' = ChunkStarts
  BY <1>1, <1>2 DEF ChunkStarts
<1>6. EndsBadly(rpos)' = EndsBadly(rpos')
  BY <1>1, <1>2 DEF EndsBadly, IsSize
<1> QED
  BY <1>3, <1>4, <1>5, <1>6

(* What fdrecv returns follows what was read before. *)
Read(bytes, len) ==
    /\ Len(bytes) \in Nat /\ Len(bytes) <= (IF len > 0 THEN len ELSE 0)
    /\ bytes = [i \in 1 .. Len(bytes) |-> rpos + i]
    /\ rpos + Len(bytes) <= Available
    /\ Len(bytes) = 0 => rpos = Available
    /\ bytes = <<>> <=> Len(bytes) = 0

(* fdrecv reads bytes that follow the ones read before. *)
LEMMA FdrecvReads ==
    ASSUME rpos \in Nat, Available \in Nat, rpos <= Available, NEW len \in Int, NEW bytes \in fdrecv(len)
    PROVE  Read(bytes, len)
<1>1. CASE rpos = Available
  <2>1. bytes = <<>> /\ Len(bytes) = 0
    BY <1>1 DEF fdrecv
  <2>2. bytes = [i \in 1 .. 0 |-> rpos + i]
    BY <2>1
  <2> QED
    BY <1>1, <2>1, <2>2 DEF Read
<1>2. CASE rpos # Available
  <2>1. PICK n \in 1 .. Least(len, Available - rpos) : bytes = [i \in 1 .. n |-> rpos + i]
    BY <1>2 DEF fdrecv
  <2>2. n \in Nat /\ n >= 1 /\ n <= len /\ n <= Available - rpos
    BY <2>1 DEF Least
  <2>3. Len(bytes) = n
    BY <2>1, <2>2
  <2>4. bytes # <<>>
    BY <2>3, <2>2
  <2> QED
    BY <1>2, <2>1, <2>2, <2>3, <2>4 DEF Read
<1> QED
  BY <1>1, <1>2

(* Every outcome of the chunk parser is a state of that parser. *)
LEMMA ParserTypes ==
    ASSUME reply \in ReplyKinds, NEW memory, NEW n \in Nat, NEW off \in Int
    PROVE  ParseAt(memory, n, off) \in Parsers
<1>1. NoChunk \in Parsers /\ Malformed \in Parsers
  BY DEF NoChunk, Malformed, Found, Parsers
<1>2. \A c \in BOOLEAN, b \in Int, l \in Int, d \in BOOLEAN : Found(c, b, l, d) \in Parsers
  BY DEF Found, Parsers
<1>3. ReplyHead(memory, n, off) \in Parsers
  <2>1. reply.content \in Int /\ REPLY_HEAD \in Int
    BY LengthFacts, RepliesAssumption
  <2>2. off + REPLY_HEAD \in Int /\ (IF reply.kind = "length" THEN reply.content ELSE -1) \in Int
        /\ (reply.kind = "chunks") \in BOOLEAN
    BY <2>1
  <2>3. Found(reply.kind = "chunks", off + REPLY_HEAD,
              IF reply.kind = "length" THEN reply.content ELSE -1, FALSE) \in Parsers
    BY <2>2, <1>2
  <2> QED
    BY <2>3, <1>1 DEF ReplyHead
<1>4. IsSize(memory[off]) => ChunkHead(memory, n, off) \in Parsers
  <2> SUFFICES ASSUME IsSize(memory[off]) PROVE ChunkHead(memory, n, off) \in Parsers
    OBVIOUS
  <2> DEFINE size == SizeAt(memory[off])
  <2> DEFINE cr == IF off + 1 < n /\ IsSize(memory[off + 1]) THEN off + 2 ELSE off + 1
  <2>1. size \in Nat
    <3>1. (CHOOSE i \in Chunks : memory[off] - ChunkStart(i) \in {1, 2}) \in Chunks
      BY DEF IsSize
    <3> QED
      BY <3>1, ChunkTypes DEF SizeAt
  <2>2. cr \in Int
    OBVIOUS
  <2> HIDE DEF size, cr
  <2> DEFINE start == IF cr + 1 < n THEN cr + 2 ELSE 0
  <2> DEFINE done == size = 0
  <2>3. start \in Int /\ done \in BOOLEAN /\ TRUE \in BOOLEAN
    BY <2>2
  <2> HIDE DEF start, done
  <2>4. Found(TRUE, start, size, done) \in Parsers
    BY <2>1, <2>3 DEF Found, Parsers
  <2>5. ChunkHead(memory, n, off) =
          IF cr >= n THEN NoChunk
          ELSE IF ~IsReturn(memory[cr]) \/ (cr + 1 < n /\ ~IsFeed(memory[cr + 1])) THEN Malformed
          ELSE Found(TRUE, IF cr + 1 < n THEN cr + 2 ELSE 0, size, size = 0)
    BY DEF ChunkHead, size, cr
  <2> QED
    BY <2>4, <2>5, <1>1 DEF start, done
<1> QED
  BY <1>1, <1>3, <1>4 DEF ParseAt

(* A chunk whose head is in the buffer is found. *)
LEMMA ChunkFound ==
    ASSUME reply \in ReplyKinds, rpos \in Nat, InBuffer, ~EndsBadly(rpos),
           NEW i \in Chunks, NEW off \in Nat, off < rnread, rpos - rnread + off = ChunkStart(i)
    PROVE  /\ off + 4 <= rnread
           /\ ParseAt(proxy_buf, rnread, off) = Found(TRUE, off + 4, ChunkSize(i), ChunkSize(i) = 0)
<1> DEFINE s == ChunkStart(i)
<1>1. /\ s \in Nat /\ s >= 1 /\ ChunkSize(i) \in Nat
      /\ \A j \in Chunks : ChunkStart(j) \in Nat /\ ChunkSize(j) \in Nat /\ j \in Nat
  <2>1. REPLY_HEAD \in Nat \ {0} /\ REPLY_HEAD <= s
    BY LengthFacts, RepliesAssumption
  <2> QED
    BY <2>1, ChunkTypes
<1>2. \A j \in Chunks : j # i => ChunkStart(j) >= s + 6 \/ ChunkStart(j) + 6 <= s
  <2> SUFFICES ASSUME NEW j \in Chunks, j # i
               PROVE  ChunkStart(j) >= s + 6 \/ ChunkStart(j) + 6 <= s
    OBVIOUS
  <2>1. CASE i < j
    BY <2>1, <1>1, ChunksInOrder
  <2>2. CASE j < i
    BY <2>2, <1>1, ChunksInOrder
  <2> QED
    BY <2>1, <2>2, <1>1
<1>3. rnread \in Nat /\ \A j \in 0 .. 3 : off + j < rnread => proxy_buf[off + j] = s + 1 + j
  BY <1>1 DEF InBuffer
<1> HIDE DEF s
<1>4. IsSize(s + 1) /\ IsSize(s + 2)
  <2>1. (s + 1) - ChunkStart(i) = 1 /\ (s + 2) - ChunkStart(i) = 2
    BY <1>1 DEF s
  <2>2. (s + 1) - ChunkStart(i) \in {1, 2} /\ (s + 2) - ChunkStart(i) \in {1, 2}
    BY <2>1
  <2> QED
    BY <2>2, Zenon DEF IsSize
<1>5. ~IsSize(s + 3) /\ IsReturn(s + 3) /\ IsFeed(s + 4)
  <2>1. (s + 3) - ChunkStart(i) = 3 /\ (s + 4) - ChunkStart(i) = 4
    BY <1>1 DEF s
  <2>4. (s + 3) - ChunkStart(i) \in {3, ChunkSize(i) + 5} /\ (s + 4) - ChunkStart(i) \in {4, ChunkSize(i) + 6}
    BY <2>1
  <2>2. IsReturn(s + 3) /\ IsFeed(s + 4)
    BY <2>4, Zenon DEF IsReturn, IsFeed
  <2>3. \A j \in Chunks : (s + 3) - ChunkStart(j) \notin {1, 2}
    BY <2>1, <1>1, <1>2
  <2>5. ~IsSize(s + 3)
    BY <2>3, Zenon DEF IsSize
  <2> QED
    BY <2>2, <2>5
<1>6. SizeAt(s + 1) = ChunkSize(i)
  <2>1. \A j \in Chunks : (s + 1) - ChunkStart(j) \in {1, 2} => j = i
    BY <1>1, <1>2
  <2>2. (s + 1) - ChunkStart(i) \in {1, 2}
    BY <1>1 DEF s
  <2>3. (CHOOSE j \in Chunks : (s + 1) - ChunkStart(j) \in {1, 2}) = i
    BY <2>1, <2>2
  <2>4. SizeAt(s + 1) = ChunkSize(CHOOSE j \in Chunks : (s + 1) - ChunkStart(j) \in {1, 2})
    BY DEF SizeAt
  <2> QED
    BY <2>3, <2>4
<1>7. off + 4 <= rnread
  <2>1. rpos = s + (rnread - off) /\ rnread - off \in Nat /\ rnread - off >= 1
    BY <1>1, <1>3 DEF s
  <2>2. ~IsSize(rpos) /\ ~IsSize(rpos - 1)
    BY DEF EndsBadly
  <2>3. rnread - off # 1 /\ rnread - off # 2 
    BY <2>1, <2>2, <1>4
  <2>4. rnread - off # 3
    <3> SUFFICES ASSUME rnread - off = 3 PROVE FALSE
      OBVIOUS
    <3>1. rpos - 1 = s + 2
      BY <2>1, <1>1
    <3> QED
      BY <3>1, <2>2, <1>4
  <2> QED
    BY <2>1, <2>3, <2>4, <1>3
<1>8. /\ proxy_buf[off] = s + 1 /\ proxy_buf[off + 1] = s + 2 /\ proxy_buf[off + 2] = s + 3
      /\ proxy_buf[off + 3] = s + 4
  BY <1>3, <1>7, <1>1
<1>9. ChunkHead(proxy_buf, rnread, off) = Found(TRUE, off + 4, ChunkSize(i), ChunkSize(i) = 0)
  <2> DEFINE cr == IF off + 1 < rnread /\ IsSize(proxy_buf[off + 1]) THEN off + 2 ELSE off + 1
  <2>1. cr = off + 2
    BY <1>4, <1>7, <1>8, <1>3
  <2> HIDE DEF cr
  <2>2. ~(cr >= rnread) /\ cr + 1 < rnread /\ cr + 1 = off + 3 /\ cr + 2 = off + 4
    BY <2>1, <1>7, <1>3
  <2>3. IsReturn(proxy_buf[cr]) /\ IsFeed(proxy_buf[cr + 1])
    BY <2>1, <2>2, <1>5, <1>8
  <2>4. SizeAt(proxy_buf[off]) = ChunkSize(i)
    BY <1>6, <1>8
  <2> QED
    BY <2>2, <2>3, <2>4 DEF ChunkHead, cr
<1>10. ~(off >= rnread) /\ proxy_buf[off] # 1 /\ IsSize(proxy_buf[off])
  BY <1>1, <1>3, <1>4, <1>8
<1>11. ParseAt(proxy_buf, rnread, off) = ChunkHead(proxy_buf, rnread, off)
  BY <1>10 DEF ParseAt
<1> QED
  BY <1>7, <1>9, <1>11

(* The head is found if it is there. *)
LEMMA HeadFound ==
    ASSUME reply \in ReplyKinds, NEW memory, NEW n \in Nat, n > 0, \A i \in 0 .. n - 1 : memory[i] = i + 1
    PROVE  ParseAt(memory, n, 0) =
             IF n < REPLY_HEAD THEN NoChunk
             ELSE Found(reply.kind = "chunks", REPLY_HEAD,
                        IF reply.kind = "length" THEN reply.content ELSE -1, FALSE)
<1>1. REPLY_HEAD \in Nat
  BY RepliesAssumption
<1>2. memory[0] = 1
  OBVIOUS
<1>3. \A i \in 1 .. Least(REPLY_HEAD, n - 0) : memory[0 + i - 1] = i
  BY <1>1 DEF Least
<1>4. n - 0 = n /\ 0 + REPLY_HEAD = REPLY_HEAD
  BY <1>1
<1>5. ReplyHead(memory, n, 0) =
        IF n < REPLY_HEAD THEN NoChunk
        ELSE Found(reply.kind = "chunks", REPLY_HEAD,
                   IF reply.kind = "length" THEN reply.content ELSE -1, FALSE)
  BY <1>3, <1>4 DEF ReplyHead
<1>6. ParseAt(memory, n, 0) = ReplyHead(memory, n, 0)
  BY <1>2 DEF ParseAt
<1> QED
  BY <1>5, <1>6

(* A reply of which nothing was relayed. *)
LEMMA NothingSent == Range1(0) = <<>> /\ Len(<<>>) = 0
<1>1. Range1(0) \in Seq(Nat) /\ Len(Range1(0)) = 0
  BY RangeLength
<1> QED
  BY <1>1, EmptySeq

(* What a read leaves in the buffer, and what is sent of it. *)
LEMMA BufferFilled ==
    ASSUME rpos \in Nat, DOMAIN proxy_buf = 0 .. PROXY_BUFFER, NEW len \in Nat, len <= PROXY_BUFFER,
           NEW bytes, Read(bytes, len)
    PROVE  /\ DOMAIN Store(0, bytes) = 0 .. PROXY_BUFFER
           /\ \A i \in 0 .. Len(bytes) - 1 : Store(0, bytes)[i] = rpos + 1 + i
<1>1. /\ Len(bytes) \in Nat /\ Len(bytes) <= len /\ \A i \in 1 .. Len(bytes) : bytes[i] = rpos + i
      /\ PROXY_BUFFER \in Nat
  BY RepliesAssumption DEF Read
<1>2. DOMAIN Store(0, bytes) = 0 .. PROXY_BUFFER
  BY DEF Store
<1>3. ASSUME NEW i \in 0 .. Len(bytes) - 1
      PROVE  Store(0, bytes)[i] = rpos + 1 + i
  <2>1. i \in DOMAIN proxy_buf /\ i \in 0 .. 0 + Len(bytes) - 1 /\ i - 0 + 1 = i + 1 /\ i + 1 \in 1 .. Len(bytes)
    BY <1>1
  <2>2. Store(0, bytes)[i] = bytes[i + 1]
    BY <2>1 DEF Store
  <2> QED
    BY <1>1, <2>1, <2>2
<1> QED
  BY <1>2, <1>3

(* The first n bytes of the buffer are bytes of the reply, in order. *)
LEMMA StoredPiece ==
    ASSUME rpos \in Nat, InBuffer, NEW n \in 0 .. rnread
    PROVE  Stored(0, n) = [i \in 1 .. n |-> (rpos - rnread) + i]
<1>1. rnread \in Nat /\ rnread <= rpos /\ \A i \in 0 .. rnread - 1 : proxy_buf[i] = rpos - rnread + 1 + i
  BY DEF InBuffer
<1>2. ASSUME NEW i \in 1 .. n
      PROVE  proxy_buf[0 + i - 1] = (rpos - rnread) + i
  <2>1. 0 + i - 1 \in 0 .. rnread - 1
    BY <1>1
  <2> QED
    BY <1>1, <2>1
<1> QED
  BY <1>2 DEF Stored

(* The types of what the steps of a reply read. *)
LEMMA ReplyTypesFacts ==
    ASSUME ReplyTypes
    PROVE  /\ reply \in ReplyKinds /\ rpos \in Nat /\ rpos <= Available /\ Available \in Nat
           /\ DOMAIN proxy_buf = 0 .. PROXY_BUFFER /\ PROXY_BUFFER \in Nat \ {0} /\ REPLY_HEAD \in Nat \ {0}
           /\ rnread \in Nat /\ total \in Int /\ remaining \in Int /\ chunk \in Parsers /\ aligned \in BOOLEAN
           /\ Length \in Nat
  BY LengthFacts, RepliesAssumption DEF ReplyTypes

(* A reply starts with nothing read and nothing relayed. *)
LEMMA ReplyStarts ==
    ASSUME ReplyInit
    PROVE  ReplyInv
<1>1. reply \in ReplyKinds /\ at = "read" /\ rpos = 0 /\ rnread = 0 /\ total = 0 /\ remaining = 0
      /\ relayed = <<>> /\ aligned = TRUE /\ chunk = NoChunk /\ DOMAIN proxy_buf = 0 .. PROXY_BUFFER
  BY DEF ReplyInit
<1>2. Available \in Nat
  BY <1>1, LengthFacts
<1>3. chunk \in Parsers
  BY <1>1 DEF NoChunk, Found, Parsers
<1>4. ReplyTypes
  BY <1>1, <1>2, <1>3 DEF ReplyTypes
<1>5. Responding /\ Scanning /\ Ended
  BY <1>1 DEF Responding, Scanning, Ended
<1> QED
  BY <1>4, <1>5 DEF ReplyInv

(* Proxy_read_and_parse: the head is found, or it did not come. *)
LEMMA HeadStep ==
    ASSUME ReplyInv, Proxy_read_and_parse
    PROVE  ReplyInv'
<1>1. /\ reply \in ReplyKinds /\ rpos = 0 /\ Available \in Nat /\ rpos \in Nat /\ rpos <= Available
      /\ DOMAIN proxy_buf = 0 .. PROXY_BUFFER /\ PROXY_BUFFER \in Nat \ {0} /\ REPLY_HEAD \in Nat \ {0}
      /\ relayed = <<>> /\ remaining \in Int /\ Length \in Nat
  BY ReplyTypesFacts DEF ReplyInv, ReplyTypes, Proxy_read_and_parse
<1>2. PICK bytes \in fdrecv(PROXY_BUFFER) :
        LET memory == [Store(0, bytes) EXCEPT ![Len(bytes)] = 0]
            found == IF bytes = <<>> THEN Malformed ELSE ParseAt(memory, Len(bytes), 0)
        IN  /\ proxy_buf' = memory
            /\ rpos' = rpos + Len(bytes)
            /\ rnread' = Len(bytes)
            /\ chunk' = found
            /\ aligned' = ~EndsBadly(rpos + Len(bytes))
            /\ at' = IF found.error \/ found.body_start = 0 THEN "failed"
                     ELSE IF found.chunked THEN "scan"
                     ELSE IF found.content_len >= 0 THEN "respond" ELSE "relay"
            /\ total' = found.body_start
            /\ UNCHANGED <<reply, remaining, relayed>>
  BY DEF Proxy_read_and_parse
<1> DEFINE n == Len(bytes)
<1> DEFINE memory == [Store(0, bytes) EXCEPT ![n] = 0]
<1> DEFINE found == IF bytes = <<>> THEN Malformed ELSE ParseAt(memory, n, 0)
<1>3. /\ proxy_buf' = memory /\ rpos' = rpos + n /\ rnread' = n /\ chunk' = found
      /\ aligned' = ~EndsBadly(rpos + n)
      /\ at' = IF found.error \/ found.body_start = 0 THEN "failed"
               ELSE IF found.chunked THEN "scan"
               ELSE IF found.content_len >= 0 THEN "respond" ELSE "relay"
      /\ total' = found.body_start
      /\ reply' = reply /\ remaining' = remaining /\ relayed' = relayed
  BY <1>2
<1>4. Read(bytes, PROXY_BUFFER)
  BY <1>1, FdrecvReads
<1>5. n \in Nat /\ n <= PROXY_BUFFER /\ rpos + n <= Available /\ (bytes = <<>> <=> n = 0)
  BY <1>1, <1>4 DEF Read
<1>6. /\ DOMAIN Store(0, bytes) = 0 .. PROXY_BUFFER
      /\ \A i \in 0 .. n - 1 : Store(0, bytes)[i] = i + 1
  BY <1>1, <1>4, BufferFilled
<1> HIDE DEF n
<1>7. DOMAIN memory = 0 .. PROXY_BUFFER /\ \A i \in 0 .. n - 1 : memory[i] = i + 1
  BY <1>1, <1>5, <1>6
<1> HIDE DEF memory
<1>8. found = IF n = 0 THEN Malformed
              ELSE IF n < REPLY_HEAD THEN NoChunk
              ELSE Found(reply.kind = "chunks", REPLY_HEAD,
                         IF reply.kind = "length" THEN reply.content ELSE -1, FALSE)
  <2>1. CASE n = 0
    BY <2>1, <1>5
  <2>2. CASE n # 0
    <3>1. n \in Nat /\ n > 0 /\ bytes # <<>>
      BY <2>2, <1>5
    <3>2. ParseAt(memory, n, 0) =
             IF n < REPLY_HEAD THEN NoChunk
             ELSE Found(reply.kind = "chunks", REPLY_HEAD,
                        IF reply.kind = "length" THEN reply.content ELSE -1, FALSE)
      BY <3>1, <1>1, <1>7, HeadFound
    <3> QED
      BY <3>1, <3>2, <2>2
  <2> QED
    BY <2>1, <2>2
<1>9. found \in Parsers
  BY <1>1, <1>5, ParserTypes DEF Malformed, Parsers
<1> HIDE DEF found
<1>10. /\ Available' = Available /\ Length' = Length /\ ChunkStarts' = ChunkStarts
       /\ EndsBadly(rpos)' = EndsBadly(rpos')
  BY <1>3, SameReply
<1>11. rpos' = n /\ n <= Available'
  BY <1>1, <1>3, <1>5, <1>10
<1>12. at' \in {"failed", "scan", "respond", "relay"}
  BY <1>3
<1>13. ReplyTypes'
  BY <1>1, <1>3, <1>5, <1>7, <1>9, <1>11, <1>12 DEF ReplyTypes, Parsers
<1>14. relayed' = Range1(0) /\ relayed' = <<>>
  BY <1>1, <1>3, NothingSent
<1>15. InBuffer'
  BY <1>1, <1>3, <1>5, <1>7, <1>11 DEF InBuffer
<1>16. CASE n < REPLY_HEAD
  <2>1. found.error \/ found.body_start = 0
    BY <1>16, <1>8 DEF Malformed, NoChunk, Found
  <2>2. at' = "failed"
    BY <2>1, <1>3
  <2>3. InTheReply'
    BY <1>14, NothingSent DEF InTheReply
  <2>4. Responding' /\ Scanning' /\ Ended'
    BY <2>2, <2>3, <1>16, <1>11 DEF Responding, Scanning, Ended
  <2> QED
    BY <2>4, <1>13 DEF ReplyInv
<1>17. CASE ~(n < REPLY_HEAD)
  <2>1. n # 0
    BY <1>17, <1>1, <1>5
  <2>2. /\ ~found.error /\ found.body_start = REPLY_HEAD /\ found.chunked = (reply.kind = "chunks")
        /\ found.content_len = IF reply.kind = "length" THEN reply.content ELSE -1
    BY <2>1, <1>17, <1>8 DEF Found
  <2>3. at' = IF reply.kind = "chunks" THEN "scan" ELSE IF reply.kind = "length" THEN "respond" ELSE "relay"
    <3>1. reply.content \in Nat
      BY <1>1, LengthFacts
    <3>2. CASE reply.kind = "chunks"
      BY <3>2, <2>2, <1>1, <1>3
    <3>3. CASE reply.kind # "chunks" /\ reply.kind = "length"
      <4>1. ~found.chunked /\ (~found.error) /\ found.body_start # 0
        BY <3>3, <2>2, <1>1
      <4>2. found.content_len = reply.content
        BY <3>3, <2>2
      <4>3. (found.content_len >= 0)
        BY <4>2, <3>1
      <4> QED
        BY <3>3, <4>1, <4>3, <1>3
    <3>4. CASE reply.kind # "chunks" /\ reply.kind # "length"
      <4>1. ~found.chunked /\ (~found.error) /\ found.body_start # 0
        BY <3>4, <2>2, <1>1
      <4>2. found.content_len = -1
        BY <3>4, <2>2
      <4>3. ~(found.content_len >= 0)
        BY <4>2, <3>1
      <4> QED
        BY <3>4, <4>1, <4>3, <1>3
    <3> QED
      BY <3>2, <3>3, <3>4
  <2>4. reply.kind \in {"length", "close", "chunks"}
    BY <1>1, RepliesAssumption
  <2>5. rpos' - rnread' = 0
    BY <1>3, <1>5, <1>11
  <2>6. Responding'
    <3>1. at' = "respond" => /\ reply'.kind = "length" /\ chunk'.body_start + chunk'.content_len = Length'
                             /\ ~chunk'.chunked
      <4> SUFFICES ASSUME at' = "respond" PROVE /\ reply'.kind = "length" /\ ~chunk'.chunked
                                                /\ chunk'.body_start + chunk'.content_len = Length'
        OBVIOUS
      <4>1. reply.kind = "length"
        BY <2>3
      <4>2. Length = REPLY_HEAD + reply.content
        BY <4>1 DEF Length
      <4> QED
        BY <4>1, <4>2, <2>2, <1>3, <1>10
    <3>2. at' = "relay" => reply'.kind = "close"
      BY <2>3, <2>4, <1>3
    <3>3. at' # "body"
      BY <1>12
    <3> QED
      BY <3>1, <3>2, <3>3, <2>5, <1>3, <1>11, <1>14, <1>15 DEF Responding
  <2>7. aligned' => Scanning'
    <3>1. at' = "scan" => reply'.kind = "chunks" /\ ChunkStart(1) = REPLY_HEAD /\ 1 \in Chunks
      BY <2>3, <1>3, <1>1, ChunkTypes
    <3>2. at' = "scan" => (rpos' - rnread') + total' \in ChunkStarts'
      BY <3>1, <2>2, <2>5, <1>1, <1>3, <1>10 DEF ChunkStarts
    <3>3. total' \in 0 .. rnread' /\ rnread' # 0
      BY <2>1, <2>2, <1>1, <1>3, <1>5, <1>17
    <3>4. aligned' => ~EndsBadly(rpos)'
      BY <1>1, <1>3, <1>10
    <3> QED
      BY <3>1, <3>2, <3>3, <3>4, <2>5, <1>12, <1>14, <1>15 DEF Scanning
  <2>8. Ended'
    BY <2>3 DEF Ended
  <2> QED
    BY <2>6, <2>7, <2>8, <1>13 DEF ReplyInv
<1> QED
  BY <1>16, <1>17

(* What is sent next goes behind what was sent. *)
LEMMA SentOn ==
    ASSUME NEW a \in Nat, NEW m \in Nat, NEW bytes, bytes = [i \in 1 .. m |-> a + i], relayed = Range1(a)
    PROVE  relayed \o bytes = Range1(a + m) /\ a + m \in Nat
<1>1. Range1(a) \o [i \in 1 .. m |-> a + i] = Range1(a + m)
  BY RangeGrows
<1>2. a + m \in Nat
  OBVIOUS
<1> QED
  BY <1>1, <1>2

(* What a step relayed is the start of the reply. *)
LEMMA InTheReplyOf ==
    ASSUME NEW n \in Nat, relayed' = Range1(n)
    PROVE  InTheReply' /\ Len(relayed') = n /\ Len(relayed)' = n
  BY RangeLength DEF InTheReply

(* A reply of a known length: what came with the head is sent at once. *)
LEMMA RespondStep ==
    ASSUME ReplyInv, RespondLength
    PROVE  ReplyInv'
<1>1. /\ reply \in ReplyKinds /\ rpos \in Nat /\ rpos <= Available /\ Available \in Nat
      /\ DOMAIN proxy_buf = 0 .. PROXY_BUFFER /\ rnread \in Nat /\ Length \in Nat
      /\ chunk \in Parsers /\ aligned \in BOOLEAN
  BY ReplyTypesFacts DEF ReplyInv
<1>2. /\ at = "respond" /\ chunk' = chunk
      /\ UNCHANGED <<reply, rpos, proxy_buf, rnread, aligned>>
      /\ relayed' = relayed \o Stored(0, rnread)
      /\ total' = RespondTotal
      /\ remaining' = RespondTotal - rnread
      /\ at' = CASE RespondTotal - rnread < 0 -> "abort"
                 [] RespondTotal - rnread = 0 -> IF chunk'.chunked \/ at = "scan" THEN "streamed" ELSE "done"
                 [] OTHER -> IF chunk'.chunked \/ at = "scan" THEN "chunk body" ELSE "body"
  BY DEF RespondLength, BeginResponse
<1>3. RespondTotal \in Int
  BY <1>1 DEF RespondTotal, Parsers
<1>4. /\ Available' = Available /\ Length' = Length /\ ChunkStarts' = ChunkStarts
  BY <1>2, SameReply
<1>5. PICK left \in Int : left = RespondTotal - rnread
  BY <1>1, <1>3
<1>52. left \in Int
  OBVIOUS
<1>51. /\ remaining' = left
       /\ left < 0 => at' = "abort"
       /\ left = 0 => at' = IF chunk.chunked THEN "streamed" ELSE "done"
       /\ left > 0 => at' = IF chunk.chunked THEN "chunk body" ELSE "body"
  <2>1. (chunk'.chunked \/ at = "scan") <=> chunk.chunked
    BY <1>1, <1>2 DEF Parsers
  <2>2. /\ remaining' = left
        /\ at' = CASE left < 0 -> "abort"
                   [] left = 0 -> IF chunk'.chunked \/ at = "scan" THEN "streamed" ELSE "done"
                   [] OTHER -> IF chunk'.chunked \/ at = "scan" THEN "chunk body" ELSE "body"
    BY <1>2, <1>5
  <2>6. chunk.chunked \in BOOLEAN
    BY <1>1 DEF Parsers
  <2>7. left < 0 \/ left = 0 \/ left > 0
    BY <1>52
  <2>3. CASE left < 0
    <3>2. ~(left = 0) /\ ~(left > 0)
      BY <2>3, <1>52
    <3>1. at' = "abort" /\ remaining' = left
      BY <3>2, <2>2, <2>3
    <3> QED
      BY <3>1, <3>2, <2>3, Zenon
  <2>4. CASE left = 0
    BY <2>1, <2>2, <2>4, <2>6, <1>52
  <2>5. CASE left > 0
    <3>1. ~(left = 0) /\ ~(left < 0)
      BY <2>5, <1>52
    <3>2. at' = IF chunk.chunked THEN "chunk body" ELSE "body"
      BY <3>1, <2>1, <2>2, <2>6
    <3> QED
      BY <3>1, <3>2, <2>2, Zenon
  <2> QED
    BY <2>3, <2>4, <2>5, <2>7, Zenon
<1>6. at' \in {"abort", "streamed", "done", "chunk body", "body"}
  <2>1. chunk.chunked \in BOOLEAN
    BY <1>1 DEF Parsers
  <2>2. CASE left < 0
    BY <1>51, <2>2
  <2>3. CASE left = 0
    BY <1>51, <2>1, <2>3
  <2>4. CASE left > 0
    BY <1>51, <2>1, <2>4
  <2>5. left < 0 \/ left = 0 \/ left > 0
    BY <1>52
  <2> QED
    BY <2>2, <2>3, <2>4, <2>5, Zenon
<1>7. ReplyTypes'
  BY <1>1, <1>2, <1>3, <1>4, <1>51, <1>6 DEF ReplyTypes
<1>8. ASSUME aligned'
      PROVE  Responding' /\ Scanning' /\ Ended'
  <2>1. /\ reply.kind = "length" /\ InBuffer /\ rpos = rnread /\ relayed = <<>>
        /\ RespondTotal = Length /\ ~chunk.chunked
    BY <1>8, <1>2 DEF ReplyInv, Responding, RespondTotal
  <2>2. relayed' = Range1(rpos)
    <3>1. Stored(0, rnread) = [i \in 1 .. rnread |-> (rpos - rnread) + i]
      BY <1>1, <2>1, StoredPiece
    <3>2. Stored(0, rnread) = [i \in 1 .. rnread |-> 0 + i]
      BY <3>1, <2>1, <1>1
    <3>3. relayed = Range1(0)
      BY <2>1, NothingSent
    <3>4. relayed \o Stored(0, rnread) = Range1(0 + rnread)
      BY <3>2, <3>3, <1>1, SentOn
    <3> QED
      BY <3>4, <1>1, <1>2, <2>1
  <2>3. InTheReply' /\ Len(relayed') = rpos /\ Len(relayed)' = rpos
    BY <2>2, <1>1, InTheReplyOf
  <2>4. left = Length - rpos
    BY <2>1, <1>5
  <2>5. CASE left < 0
    <3>1. at' = "abort"
      BY <2>5, <1>51
    <3>2. reply.surplus > 0
      BY <2>4, <2>5, <1>1, LengthFacts
    <3> QED
      BY <3>1, <3>2, <2>3, <1>2 DEF Responding, Scanning, Ended
  <2>6. CASE left = 0
    <3>1. at' = "done"
      BY <2>6, <1>51, <2>1
    <3>2. Len(relayed)' >= Length'
      BY <2>3, <2>4, <2>6, <1>1, <1>4
    <3> QED
      BY <3>1, <3>2, <2>3 DEF Responding, Scanning, Ended
  <2>7. CASE left > 0
    <3>1. at' = "body" /\ remaining' = left
      BY <2>7, <1>51, <2>1
    <3>2. remaining' = Length' - rpos' /\ remaining' > 0 /\ relayed' = Range1(rpos')
      BY <3>1, <2>2, <2>4, <2>7, <1>2, <1>4
    <3> QED
      BY <3>1, <3>2 DEF Responding, Scanning, Ended
  <2> QED
    BY <1>5, <2>5, <2>6, <2>7
<1> QED
  BY <1>7, <1>8 DEF ReplyInv

(* The loop of Proxy_stream_response. *)
LEMMA StreamStep ==
    ASSUME ReplyInv, Proxy_stream_response
    PROVE  ReplyInv'
<1>1. /\ reply \in ReplyKinds /\ rpos \in Nat /\ rpos <= Available /\ Available \in Nat
      /\ DOMAIN proxy_buf = 0 .. PROXY_BUFFER /\ rnread \in Nat /\ Length \in Nat
      /\ chunk \in Parsers /\ aligned \in BOOLEAN /\ remaining \in Int /\ PROXY_BUFFER \in Nat \ {0}
      /\ total \in Int
  BY ReplyTypesFacts DEF ReplyInv
<1>2. at \in {"body", "chunk body"} /\ Wanted \in Int /\ Wanted <= remaining /\ Wanted <= PROXY_BUFFER
  <2>1. at \in {"body", "chunk body"}
    BY DEF Proxy_stream_response
  <2>2. Wanted = IF remaining < PROXY_BUFFER THEN remaining ELSE PROXY_BUFFER
    BY DEF Wanted, Least
  <2>3. Wanted \in Int /\ Wanted <= remaining /\ Wanted <= PROXY_BUFFER
    BY <2>2, <1>1
  <2> QED
    BY <2>1, <2>3
<1>3. PICK bytes \in fdrecv(Wanted) :
        /\ proxy_buf' = Store(0, bytes)
        /\ rpos' = rpos + Len(bytes)
        /\ relayed' = relayed \o bytes
        /\ remaining' = remaining - Len(bytes)
        /\ at' = CASE remaining' > 0 -> at
                   [] remaining' < 0 -> "abort"
                   [] OTHER -> IF at = "body" THEN "done" ELSE "streamed"
        /\ UNCHANGED <<reply, rnread, chunk, total, aligned>>
  BY DEF Proxy_stream_response, RemainingAfter
<1> DEFINE n == Len(bytes)
<1>4. Read(bytes, Wanted)
  BY <1>1, <1>2, FdrecvReads
<1>5. /\ n \in Nat /\ n <= (IF Wanted > 0 THEN Wanted ELSE 0) /\ rpos + n <= Available
      /\ bytes = [i \in 1 .. n |-> rpos + i]
  BY <1>4 DEF Read
<1>6. DOMAIN proxy_buf' = 0 .. PROXY_BUFFER
  BY <1>1, <1>3 DEF Store
<1>7. /\ rpos' = rpos + n /\ relayed' = relayed \o bytes /\ remaining' = remaining - n
      /\ reply' = reply /\ rnread' = rnread /\ chunk' = chunk /\ total' = total /\ aligned' = aligned
  BY <1>3
<1>71. /\ remaining' \in Int
       /\ remaining' > 0 => at' = at
       /\ remaining' < 0 => at' = "abort"
       /\ remaining' = 0 => at' = IF at = "body" THEN "done" ELSE "streamed"
  <2>1. remaining' \in Int
    BY <1>1, <1>5, <1>7
  <2> QED
    BY <1>3, <2>1
<1> HIDE DEF n
<1>8. /\ Available' = Available /\ Length' = Length /\ ChunkStarts' = ChunkStarts
  BY <1>7, SameReply
<1>9. remaining' \in Int /\ rpos' \in Nat
  BY <1>1, <1>5, <1>7
<1>10. at' \in {"body", "chunk body", "abort", "done", "streamed"}
  <2>1. PICK r \in Int : remaining' = r
    BY <1>71
  <2>2. CASE r > 0
    BY <1>2, <1>71, <2>1, <2>2
  <2>3. CASE r < 0
    BY <1>71, <2>1, <2>3
  <2>4. CASE r = 0
    BY <1>71, <2>1, <2>4
  <2>5. r > 0 \/ r < 0 \/ r = 0
    OBVIOUS
  <2> QED
    BY <2>2, <2>3, <2>4, <2>5, Zenon
<1>11. ReplyTypes'
  BY <1>1, <1>5, <1>6, <1>7, <1>8, <1>9, <1>10 DEF ReplyTypes
<1>12. ASSUME aligned'
       PROVE  Responding' /\ Scanning' /\ Ended'
  <2>1. Responding /\ Scanning
    BY <1>12, <1>7 DEF ReplyInv
  <2>2. remaining > 0 /\ relayed = Range1(rpos)
    <3>1. at = "body" => relayed = Range1(rpos) /\ remaining > 0
      BY <2>1 DEF Responding
    <3>2. at = "chunk body" => relayed = Range1(rpos) /\ remaining \in Nat \ {0}
      BY <2>1 DEF Scanning
    <3>3. CASE at = "body"
      BY <3>1, <3>3
    <3>4. CASE at = "chunk body"
      <4>1. relayed = Range1(rpos) /\ remaining \in Nat \ {0}
        BY <3>2, <3>4
      <4> QED
        BY <4>1
    <3> QED
      BY <3>3, <3>4, <1>2
  <2>3. remaining' >= 0 /\ ~(remaining' < 0)
    <3>1. n <= remaining
      <4>1. n \in Nat /\ n <= IF Wanted > 0 THEN Wanted ELSE 0
        BY <1>5
      <4>2. PICK w \in Int : w = Wanted
        BY <1>2
      <4>3. w <= remaining /\ remaining > 0 /\ n <= IF w > 0 THEN w ELSE 0
        BY <4>1, <4>2, <1>2, <2>2
      <4> QED
        BY <4>1, <4>3, <1>1
    <3> QED
      BY <3>1, <1>1, <1>5, <1>7
  <2>4. relayed' = Range1(rpos')
    BY <2>2, <1>1, <1>5, <1>7, SentOn
  <2>5. InTheReply' /\ Len(relayed') = rpos' /\ Len(relayed)' = rpos'
    BY <2>4, <1>9, InTheReplyOf
  <2>6. rpos' + remaining' = rpos + remaining
    BY <1>1, <1>5, <1>7
  <2>7. CASE at = "body"
    <3>1. remaining = Length - rpos
      BY <2>1, <2>7 DEF Responding
    <3>2. remaining' = Length' - rpos'
      <4>1. remaining' = remaining - n /\ rpos' = rpos + n /\ n \in Nat /\ Length \in Nat
        BY <1>1, <1>5, <1>7
      <4> QED
        BY <4>1, <3>1, <1>1, <1>8
    <3>3. CASE remaining' > 0
      <4>1. at' = "body"
        BY <3>3, <1>71, <2>7
      <4> QED
        BY <4>1, <3>2, <3>3, <2>4 DEF Responding, Scanning, Ended
    <3>4. CASE ~(remaining' > 0)
      <4>1. at' = "done"
        BY <3>4, <1>71, <2>7, <2>3
      <4>2. Len(relayed)' >= Length'
        <5>1. n = remaining
          BY <3>4, <2>3, <1>1, <1>5, <1>7
        <5>2. rpos + n = Length
          BY <5>1, <3>1, <1>1
        <5> QED
          BY <5>2, <2>5, <1>1, <1>5, <1>7, <1>8
      <4> QED
        BY <4>1, <4>2, <2>5 DEF Responding, Scanning, Ended
    <3> QED
      BY <3>3, <3>4
  <2>8. CASE at = "chunk body"
    <3>1. Reached(rpos + remaining) /\ total \in Nat /\ rnread <= total
      BY <2>1, <2>8 DEF Scanning
    <3>2. Reached(rpos + remaining)'
      BY <3>1, <2>6, <1>7, <1>8 DEF Reached
    <3>3. CASE remaining' > 0
      <4>1. at' = "chunk body"
        BY <3>3, <1>71, <2>8
      <4>2. remaining' \in Nat \ {0}
        BY <3>3, <1>9
      <4> QED
        BY <4>1, <4>2, <3>1, <3>2, <2>4, <1>1, <1>7 DEF Responding, Scanning, Ended
    <3>4. CASE ~(remaining' > 0)
      <4>1. at' = "streamed" /\ remaining' = 0
        <5>1. PICK r \in Int : remaining' = r
          BY <1>71
        <5>2. r = 0
          BY <5>1, <3>4, <2>3
        <5> QED
          BY <5>1, <5>2, <1>71, <2>8
      <4>2. Len(relayed)' = (rpos + remaining)' /\ Len(relayed)' = rpos'
        <5>2. PICK p \in Nat : rpos' = p
          BY <1>9
        <5>1. rpos' + 0 = rpos'
          BY <5>2
        <5> QED
          BY <5>1, <4>1, <2>5
      <4>3. Reached(Len(relayed))'
        BY <3>2, <4>2 DEF Reached
      <4> QED
        BY <4>1, <4>2, <4>3, <3>1, <2>5, <1>1, <1>7 DEF Responding, Scanning, Ended
    <3> QED
      BY <3>3, <3>4
  <2> QED
    BY <2>7, <2>8, <1>2
<1> QED
  BY <1>11, <1>12 DEF ReplyInv

(* Up to the close. *)
LEMMA RelayStep ==
    ASSUME ReplyInv, RelayUntilClose
    PROVE  ReplyInv'
<1>1. /\ reply \in ReplyKinds /\ rpos \in Nat /\ rpos <= Available /\ Available \in Nat
      /\ DOMAIN proxy_buf = 0 .. PROXY_BUFFER /\ rnread \in Nat /\ Length \in Nat
      /\ chunk \in Parsers /\ aligned \in BOOLEAN /\ remaining \in Int /\ PROXY_BUFFER \in Nat \ {0}
      /\ total \in Int
  BY ReplyTypesFacts DEF ReplyInv
<1>2. PICK bytes \in fdrecv(PROXY_BUFFER) :
        /\ proxy_buf' = Store(0, bytes)
        /\ rpos' = rpos + Len(bytes)
        /\ rnread' = Len(bytes)
        /\ at' = IF bytes = <<>> THEN "done" ELSE "relay"
  BY DEF RelayUntilClose
<1> DEFINE n == Len(bytes)
<1>3. /\ at = "relay" /\ relayed' = relayed \o Stored(0, rnread)
      /\ reply' = reply /\ chunk' = chunk /\ total' = total /\ remaining' = remaining /\ aligned' = aligned
      /\ rpos' = rpos + n /\ rnread' = n /\ at' = IF bytes = <<>> THEN "done" ELSE "relay"
      /\ proxy_buf' = Store(0, bytes)
  BY <1>2 DEF RelayUntilClose
<1>4. Read(bytes, PROXY_BUFFER)
  BY <1>1, FdrecvReads
<1>5. /\ n \in Nat /\ n <= PROXY_BUFFER /\ rpos + n <= Available /\ (bytes = <<>> <=> n = 0)
      /\ n = 0 => rpos = Available
  BY <1>1, <1>4 DEF Read
<1>6. DOMAIN proxy_buf' = 0 .. PROXY_BUFFER /\ \A i \in 0 .. n - 1 : proxy_buf'[i] = rpos + 1 + i
  BY <1>1, <1>3, <1>4, BufferFilled
<1> HIDE DEF n
<1>7. /\ Available' = Available /\ Length' = Length
  BY <1>3, SameReply
<1>8. ReplyTypes'
  BY <1>1, <1>3, <1>5, <1>6, <1>7 DEF ReplyTypes
<1>9. ASSUME aligned'
      PROVE  Responding' /\ Scanning' /\ Ended'
  <2>1. reply.kind = "close" /\ InBuffer /\ relayed = Range1(rpos - rnread)
    BY <1>9, <1>3 DEF ReplyInv, Responding
  <2>2. rnread <= rpos /\ rpos - rnread \in Nat /\ (rpos - rnread) + rnread = rpos
    BY <2>1, <1>1 DEF InBuffer
  <2>3. Stored(0, rnread) = [i \in 1 .. rnread |-> (rpos - rnread) + i]
    BY <1>1, <2>1, StoredPiece
  <2>31. PICK a \in Nat : a = rpos - rnread
    BY <2>2
  <2>32. relayed \o Stored(0, rnread) = Range1(a + rnread) /\ a + rnread = rpos
    BY <2>1, <2>2, <2>3, <2>31, <1>1, SentOn
  <2>4. relayed' = Range1(rpos)
    BY <2>32, <1>3
  <2>5. rpos' - rnread' = rpos /\ InBuffer'
    BY <1>1, <1>3, <1>5, <1>6 DEF InBuffer
  <2>6. InTheReply' /\ Len(relayed)' = rpos
    BY <2>4, <1>1, InTheReplyOf
  <2>7. CASE bytes = <<>>
    <3>1. at' = "done" /\ rpos = Available
      BY <2>7, <1>3, <1>5
    <3>2. ~reply.cut
      BY <2>1, <1>1, RepliesAssumption
    <3>3. Len(relayed)' >= Length'
      BY <3>1, <3>2, <2>6, <1>1, <1>7, LengthFacts
    <3> QED
      BY <3>1, <3>3, <2>6 DEF Responding, Scanning, Ended
  <2>8. CASE bytes # <<>>
    BY <2>8, <2>1, <2>4, <2>5, <1>3 DEF Responding, Scanning, Ended
  <2> QED
    BY <2>7, <2>8
<1> QED
  BY <1>8, <1>9 DEF ReplyInv

-----------------------------------------------------------------------------
(* Behind a chunk is the next one or, if it is empty, the end. *)
LEMMA BehindChunk ==
    ASSUME reply \in ReplyKinds, NEW i \in Chunks
    PROVE  /\ ChunkStart(i) \in Nat /\ ChunkSize(i) \in Nat
           /\ ChunkSize(i) = 0 => ChunkStart(i) + ChunkSize(i) + 6 = Length
           /\ ChunkSize(i) # 0 => ChunkStart(i) + ChunkSize(i) + 6 \in ChunkStarts
<1> DEFINE N == Len(reply.chunks)
<1>1. /\ Chunks = 1 .. N /\ N \in Nat
      /\ \A j \in Chunks : ChunkStart(j) \in Nat /\ ChunkSize(j) \in Nat
      /\ \A j \in Chunks : ChunkSize(j) = 0 <=> j = N
      /\ \A j \in 1 .. N - 1 : ChunkStart(j + 1) = ChunkStart(j) + ChunkSize(j) + 6
  BY ChunkTypes
<1>2. Length = ChunkStart(N) + ChunkSize(N) + 6
  BY LengthFacts
<1> HIDE DEF N
<1>3. ChunkSize(i) = 0 => ChunkStart(i) + ChunkSize(i) + 6 = Length
  BY <1>1, <1>2
<1>4. ASSUME ChunkSize(i) # 0
      PROVE  ChunkStart(i) + ChunkSize(i) + 6 \in ChunkStarts
  <2>1. i \in 1 .. N - 1 /\ i + 1 \in Chunks
    BY <1>1, <1>4
  <2>2. ChunkStart(i + 1) = ChunkStart(i) + ChunkSize(i) + 6
    BY <1>1, <2>1
  <2> QED
    BY <2>1, <2>2 DEF ChunkStarts
<1> QED
  BY <1>1, <1>3, <1>4

(* The beginning of a response, from scan_chunks. *)
LEMMA BeginFacts ==
    ASSUME at = "scan", NEW end \in Int, rnread \in Nat, SendChunks(end)
    PROVE  /\ relayed' = relayed \o Stored(0, Least(end, rnread))
           /\ total' = end
           /\ Least(end, rnread) \in Int
           /\ remaining' = end - Least(end, rnread)
           /\ end <= rnread => at' = "streamed" /\ Least(end, rnread) = end
           /\ end > rnread => at' = "chunk body" /\ Least(end, rnread) = rnread
<1> DEFINE n == Least(end, rnread)
<1>1. /\ n \in Int /\ end - n \in Int
      /\ end <= rnread => n = end /\ end - n = 0
      /\ end > rnread => n = rnread /\ end - n > 0
  BY DEF Least
<1> HIDE DEF n
<1>2. /\ relayed' = relayed \o Stored(0, n) /\ total' = end /\ remaining' = end - n
      /\ at' = CASE end - n < 0 -> "abort"
                 [] end - n = 0 -> IF chunk'.chunked \/ at = "scan" THEN "streamed" ELSE "done"
                 [] OTHER -> IF chunk'.chunked \/ at = "scan" THEN "chunk body" ELSE "body"
  BY DEF SendChunks, BeginResponse, n
<1>3. chunk'.chunked \/ at = "scan"
  OBVIOUS
<1>4. PICK left \in Int : left = end - n
  BY <1>1
<1>5. at' = CASE left < 0 -> "abort" [] left = 0 -> "streamed" [] OTHER -> "chunk body"
  BY <1>2, <1>3, <1>4
<1>6. ASSUME end <= rnread
      PROVE  at' = "streamed"
  <2>1. left = 0 /\ ~(left < 0)
    BY <1>1, <1>4, <1>6
  <2> QED
    BY <2>1, <1>5
<1>7. ASSUME end > rnread
      PROVE  at' = "chunk body"
  <2>1. ~(left = 0) /\ ~(left < 0)
    BY <1>1, <1>4, <1>7
  <2> QED
    BY <2>1, <1>5
<1> QED
  BY <1>1, <1>2, <1>6, <1>7 DEF n

(* One turn of scan_chunks: in a buffer that begins with a chunk and ends  *)
(* outside of every head, it finds the chunks one by one.                  *)
LEMMA ScanStep ==
    ASSUME ReplyInv, scan_chunks
    PROVE  ReplyInv'
<1>1. /\ reply \in ReplyKinds /\ rpos \in Nat /\ rpos <= Available /\ Available \in Nat
      /\ DOMAIN proxy_buf = 0 .. PROXY_BUFFER /\ rnread \in Nat /\ Length \in Nat
      /\ chunk \in Parsers /\ aligned \in BOOLEAN /\ remaining \in Int /\ PROXY_BUFFER \in Nat \ {0}
      /\ total \in Int
  BY ReplyTypesFacts DEF ReplyInv
<1> DEFINE found == ParseAt(proxy_buf, rnread, total)
<1> DEFINE end == IF found.chunked THEN ChunkEnd(found) ELSE total
<1> DEFINE more == found.chunked /\ ~found.chunks_done /\ found.content_len > 0 /\ end < rnread - 1
<1>2. /\ at = "scan" /\ chunk' = found
      /\ IF found.error \/ rnread = 0
         THEN at' = "failed" /\ total' = total /\ remaining' = remaining /\ relayed' = relayed
         ELSE IF more
         THEN total' = end /\ at' = at /\ remaining' = remaining /\ relayed' = relayed
         ELSE SendChunks(end)
      /\ reply' = reply /\ rpos' = rpos /\ proxy_buf' = proxy_buf /\ rnread' = rnread /\ aligned' = aligned
  BY DEF scan_chunks
<1>3. found \in Parsers
  BY <1>1, ParserTypes
<1> HIDE DEF found
<1>4. end \in Int
  BY <1>1, <1>3 DEF ChunkEnd, Parsers
<1>41. found.error \in BOOLEAN /\ more \in BOOLEAN
  BY <1>3 DEF Parsers
<1> HIDE DEF end, more
<1>5. /\ Available' = Available /\ Length' = Length /\ ChunkStarts' = ChunkStarts
      /\ EndsBadly(rpos)' = EndsBadly(rpos')
  BY <1>2, SameReply
<1>6. SendChunks(end) =>
        /\ relayed' = relayed \o Stored(0, Least(end, rnread))
        /\ total' = end /\ remaining' \in Int /\ remaining' = end - Least(end, rnread)
        /\ end <= rnread => at' = "streamed" /\ Least(end, rnread) = end
        /\ end > rnread => at' = "chunk body" /\ Least(end, rnread) = rnread
  <2> SUFFICES ASSUME SendChunks(end)
               PROVE  /\ relayed' = relayed \o Stored(0, Least(end, rnread))
                      /\ total' = end /\ remaining' \in Int /\ remaining' = end - Least(end, rnread)
                      /\ end <= rnread => at' = "streamed" /\ Least(end, rnread) = end
                      /\ end > rnread => at' = "chunk body" /\ Least(end, rnread) = rnread
    OBVIOUS
  <2>1. /\ relayed' = relayed \o Stored(0, Least(end, rnread))
        /\ total' = end /\ Least(end, rnread) \in Int /\ remaining' = end - Least(end, rnread)
        /\ end <= rnread => at' = "streamed" /\ Least(end, rnread) = end
        /\ end > rnread => at' = "chunk body" /\ Least(end, rnread) = rnread
    BY <1>1, <1>2, <1>4, BeginFacts
  <2>3. PICK m \in Int : m = Least(end, rnread)
    BY <2>1
  <2>2. end - m \in Int
    BY <1>4
  <2> QED
    BY <2>1, <2>2, <2>3
<1>7. total' \in Int /\ remaining' \in Int /\ at' \in {"failed", "scan", "streamed", "chunk body"}
  <2>1. CASE found.error \/ rnread = 0
    BY <2>1, <1>1, <1>2
  <2>2. CASE ~(found.error \/ rnread = 0) /\ more
    BY <2>2, <1>1, <1>2, <1>4
  <2>3. CASE ~(found.error \/ rnread = 0) /\ ~more
    <3>1. SendChunks(end)
      BY <2>3, <1>2
    <3>2. total' = end /\ remaining' \in Int
      BY <3>1, <1>6
    <3>3. end <= rnread \/ end > rnread
      BY <1>1, <1>4
    <3>4. at' \in {"streamed", "chunk body"}
      BY <3>1, <3>3, <1>6
    <3> QED
      BY <3>2, <3>4, <1>4
  <2> QED
    BY <2>1, <2>2, <2>3
<1>8. ReplyTypes'
  BY <1>1, <1>2, <1>3, <1>5, <1>7 DEF ReplyTypes
<1>9. ASSUME aligned'
      PROVE  Responding' /\ Scanning' /\ Ended'
  <2>1. /\ reply.kind = "chunks" /\ InBuffer /\ relayed = Range1(rpos - rnread)
        /\ total \in 0 .. rnread /\ rpos - rnread + total \in ChunkStarts
        /\ ~EndsBadly(rpos)
        /\ rnread = 0 => rpos = Available
    BY <1>9, <1>2 DEF ReplyInv, Scanning
  <2>2. rnread <= rpos /\ rnread <= PROXY_BUFFER /\ InBuffer'
    BY <2>1, <1>1, <1>2 DEF InBuffer
  <2>3. PICK a \in Nat : a = rpos - rnread /\ a + rnread = rpos
    BY <2>2, <1>1
  <2>4. relayed = Range1(a) /\ a + total \in ChunkStarts
    BY <2>1, <2>3
  <2>5. PICK i \in Chunks : ChunkStart(i) = a + total
    BY <2>4 DEF ChunkStarts
  <2>6. /\ ChunkStart(i) \in Nat /\ ChunkSize(i) \in Nat
        /\ ChunkSize(i) = 0 => ChunkStart(i) + ChunkSize(i) + 6 = Length
        /\ ChunkSize(i) # 0 => ChunkStart(i) + ChunkSize(i) + 6 \in ChunkStarts
        /\ ChunkStart(i) + ChunkSize(i) + 6 <= Length
    BY <1>1, BehindChunk, LengthFacts
  (* What is sent. *)
  <2>7. ASSUME SendChunks(end), NEW n \in 0 .. rnread, Least(end, rnread) = n
        PROVE  relayed' = Range1(a + n) /\ a + n \in Nat /\ InTheReply' /\ Len(relayed)' = a + n
    <3>1. Stored(0, n) = [j \in 1 .. n |-> a + j]
      BY <1>1, <2>1, <2>3, StoredPiece
    <3>2. n \in Nat /\ relayed' = relayed \o Stored(0, n)
      <4>1. relayed' = relayed \o Stored(0, Least(end, rnread))
        BY <2>7, <1>6
      <4> QED
        BY <4>1, <2>7, <1>1
    <3>3. relayed' = Range1(a + n) /\ a + n \in Nat
      BY <3>1, <3>2, <2>4, SentOn
    <3> QED
      BY <3>3, InTheReplyOf
  <2>8. CASE total = rnread
    <3>1. found = NoChunk
      BY <2>8, <1>1 DEF found, ParseAt
    <3>2. ~found.error /\ ~found.chunked /\ ~found.chunks_done /\ end = total /\ ~more
      BY <3>1 DEF NoChunk, Found, end, more
    <3>3. CASE rnread = 0
      <4>1. at' = "failed" /\ relayed' = Range1(a)
        BY <3>3, <2>4, <1>2
      <4>2. InTheReply'
        BY <4>1, <2>3, InTheReplyOf
      <4>3. rpos = Available /\ rpos = ChunkStart(i)
        BY <3>3, <2>1, <2>3, <2>5, <2>8, <1>1
      <4>4. reply.cut
        BY <4>3, <2>6, <1>1, LengthFacts
      <4> QED
        BY <4>1, <4>2, <4>3, <4>4, <1>2, <1>5 DEF Responding, Scanning, Ended
    <3>4. CASE rnread # 0
      <4>1. SendChunks(end)
        BY <3>2, <3>4, <1>2
      <4>2. at' = "streamed" /\ Least(end, rnread) = rnread /\ total' = rnread
        BY <4>1, <3>2, <2>8, <1>6, <1>1
      <4>3. Len(relayed)' = rpos /\ InTheReply'
        BY <4>1, <4>2, <2>3, <2>7, <1>1
      <4>4. ~chunk'.chunks_done /\ rpos \in ChunkStarts'
        BY <3>2, <2>3, <2>4, <2>8, <1>2, <1>5
      <4>5. Reached(Len(relayed))'
        BY <4>3, <4>4 DEF Reached
      <4> QED
        BY <4>2, <4>3, <4>5, <1>1, <1>2 DEF Responding, Scanning, Ended
    <3> QED
      BY <3>3, <3>4
  <2>9. CASE total # rnread
    <3>1. total \in Nat /\ total < rnread /\ rpos - rnread + total = ChunkStart(i)
      BY <2>9, <2>1, <2>3, <2>5, <1>1
    <3>2. /\ total + 4 <= rnread
          /\ found = Found(TRUE, total + 4, ChunkSize(i), ChunkSize(i) = 0)
      BY <3>1, <2>1, <1>1, ChunkFound DEF found
    <3>3. /\ ~found.error /\ found.chunked /\ found.chunks_done = (ChunkSize(i) = 0)
          /\ found.content_len = ChunkSize(i) /\ found.body_start = total + 4
      BY <3>2 DEF Found
    <3>4. end = total + 6 + ChunkSize(i)
      BY <3>3, <3>1, <2>6 DEF end, ChunkEnd
    <3>5. more <=> ChunkSize(i) # 0 /\ end < rnread - 1
      <4>1. more <=> ~found.chunks_done /\ found.content_len > 0 /\ end < rnread - 1
        BY <3>3 DEF more
      <4>2. (~found.chunks_done <=> ChunkSize(i) # 0) /\ (found.content_len > 0 <=> ChunkSize(i) # 0)
        <5>1. PICK z \in Nat : z = ChunkSize(i)
          BY <2>6
        <5>2. found.chunks_done = (z = 0) /\ found.content_len = z
          BY <3>3, <5>1
        <5>3. z > 0 <=> z # 0
          OBVIOUS
        <5>4. found.content_len > 0 <=> z # 0
          BY <5>2, <5>3
        <5>5. ~found.chunks_done <=> z # 0
          BY <5>2
        <5> QED
          BY <5>1, <5>4, <5>5
      <4> QED
        BY <4>1, <4>2
    <3>6. /\ rnread # 0 /\ end \in Nat /\ a + end \in Nat /\ a + end = ChunkStart(i) + ChunkSize(i) + 6
      BY <3>1, <3>4, <2>3, <2>5, <2>6, <1>1
    <3>7. /\ ChunkSize(i) = 0 => a + end = Length
          /\ ChunkSize(i) # 0 => a + end \in ChunkStarts
      BY <3>6, <2>6
    <3>75. PICK e \in Nat : e = end
      BY <3>6
    <3>76. chunk'.chunks_done = (ChunkSize(i) = 0)
      BY <3>3, <1>2
    <3>8. Reached(a + e)'
      BY <3>7, <3>75, <3>76, <1>5 DEF Reached
    <3>9. CASE more
      <4>1. total' = end /\ at' = "scan" /\ relayed' = relayed
        BY <3>3, <3>6, <3>9, <1>2
      <4>2. end \in 0 .. rnread /\ a + end \in ChunkStarts
        BY <3>5, <3>6, <3>7, <3>9, <1>1
      <4>3. rpos' - rnread' = a /\ a + total' \in ChunkStarts' /\ relayed' = Range1(a) /\ total' \in 0 .. rnread'
        BY <4>1, <4>2, <2>3, <2>4, <1>2, <1>5
      <4> QED
        BY <4>1, <4>3, <2>1, <2>2, <1>2, <1>5 DEF Responding, Scanning, Ended
    <3>10. CASE ~more /\ end <= rnread
      <4>1. SendChunks(end)
        BY <3>3, <3>6, <3>10, <1>2
      <4>2. at' = "streamed" /\ Least(end, rnread) = end /\ total' = end
        BY <4>1, <3>10, <1>6
      <4>3. InTheReply' /\ Len(relayed)' = a + end
        BY <4>1, <4>2, <3>6, <3>10, <2>7, <1>1
      <4>4. Reached(Len(relayed))'
        BY <4>3, <3>75, <3>8 DEF Reached
      <4>5. ASSUME ~chunk'.chunks_done
            PROVE  Len(relayed)' = rpos' /\ rnread' <= total'
        <5>1. ChunkSize(i) # 0
          BY <4>5, <3>3, <1>2
        <5>2. end = rnread \/ end = rnread - 1
          BY <5>1, <3>5, <3>6, <3>10, <1>1
        <5>3. end # rnread - 1
          <6> SUFFICES ASSUME end = rnread - 1 PROVE FALSE
            OBVIOUS
          <6>1. rpos - 1 \in ChunkStarts
            <7>1. a + end = rpos - 1
              BY <2>3, <3>6, <1>1
            <7> QED
              BY <7>1, <5>1, <3>7
          <6>2. PICK j \in Chunks : ChunkStart(j) = rpos - 1
            BY <6>1 DEF ChunkStarts
          <6>3. rpos - ChunkStart(j) = 1
            BY <6>2, <1>1
          <6>4. rpos - ChunkStart(j) \in {1, 2}
            BY <6>3
          <6>5. IsSize(rpos)
            BY <6>4, Zenon DEF IsSize
          <6> QED
            BY <6>5, <2>1 DEF EndsBadly
        <5>4. end = rnread
          BY <5>2, <5>3
        <5> QED
          BY <5>4, <4>2, <4>3, <2>3, <1>1, <1>2
      <4>6. total' \in Nat /\ rnread' \in Nat
        BY <4>2, <3>6, <1>1, <1>2
      <4> QED
        BY <4>2, <4>3, <4>4, <4>5, <4>6 DEF Responding, Scanning, Ended
    <3>11. CASE ~more /\ end > rnread
      <4>1. SendChunks(end)
        BY <3>3, <3>6, <3>11, <1>2
      <4>2. at' = "chunk body" /\ Least(end, rnread) = rnread /\ total' = end /\ remaining' = end - rnread
        BY <4>1, <3>11, <1>6
      <4>3. relayed' = Range1(rpos)
        <5>1. rnread \in 0 .. rnread
          BY <1>1
        <5>2. relayed' = Range1(a + rnread)
          BY <5>1, <4>1, <4>2, <2>7
        <5> QED
          BY <5>2, <2>3
      <4>4. remaining' \in Nat \ {0} /\ rpos + (end - rnread) = a + e
        <5>1. remaining' = e - rnread /\ e > rnread
          BY <4>2, <3>11, <3>75
        <5>2. e - rnread \in Nat \ {0} /\ rpos + (e - rnread) = a + e
          BY <5>1, <3>75, <2>3, <1>1
        <5> QED
          BY <5>1, <5>2, <3>75
      <4>5. rpos' + remaining' = a + e
        BY <4>2, <4>4, <1>2
      <4>6. Reached(rpos + remaining)'
        BY <4>5, <3>8 DEF Reached
      <4>7. total' \in Nat /\ rnread' \in Nat /\ rnread' <= total' /\ relayed' = Range1(rpos')
        <5>1. total' = e /\ e > rnread
          BY <4>2, <3>11, <3>75
        <5>2. rnread <= e
          BY <5>1, <3>75, <1>1
        <5> QED
          BY <5>1, <5>2, <4>3, <3>75, <1>1, <1>2
      <4> QED
        BY <4>2, <4>4, <4>6, <4>7 DEF Responding, Scanning, Ended
    <3>12. end <= rnread \/ end > rnread
      BY <3>6, <1>1
    <3> QED
      BY <3>9, <3>10, <3>11, <3>12
  <2> QED
    BY <2>8, <2>9
<1> QED
  BY <1>8, <1>9 DEF ReplyInv

-----------------------------------------------------------------------------
(* The next chunks are read to the start of the buffer, since nothing of the last was kept. *)
LEMMA NextStep ==
    ASSUME ReplyInv, NextChunks
    PROVE  ReplyInv'
<1>1. /\ reply \in ReplyKinds /\ rpos \in Nat /\ rpos <= Available /\ Available \in Nat
      /\ DOMAIN proxy_buf = 0 .. PROXY_BUFFER /\ rnread \in Nat /\ Length \in Nat
      /\ chunk \in Parsers /\ aligned \in BOOLEAN /\ remaining \in Int /\ PROXY_BUFFER \in Nat \ {0}
      /\ total \in Int
  BY ReplyTypesFacts DEF ReplyInv
<1>2. at = "streamed" /\ reply' = reply /\ remaining' = remaining /\ relayed' = relayed
  BY DEF NextChunks
<1>3. /\ Available' = Available /\ Length' = Length /\ ChunkStarts' = ChunkStarts
      /\ EndsBadly(rpos)' = EndsBadly(rpos')
  BY <1>2, SameReply
<1>4. chunk.chunks_done \in BOOLEAN
  BY <1>1 DEF Parsers
<1>5. aligned => /\ InTheReply /\ Reached(Len(relayed)) /\ (~chunk.chunks_done => Len(relayed) = rpos)
                 /\ (~chunk.chunks_done => rnread <= total)
  BY <1>2 DEF ReplyInv, Scanning
<1>6. CASE chunk.chunks_done
  <2>1. /\ at' = "done" /\ rpos' = rpos /\ proxy_buf' = proxy_buf /\ rnread' = rnread /\ chunk' = chunk
        /\ total' = total /\ aligned' = aligned
    BY <1>6 DEF NextChunks
  <2>2. ReplyTypes'
    BY <2>1, <1>1, <1>2, <1>3 DEF ReplyTypes
  <2>3. ASSUME aligned'
        PROVE  Responding' /\ Scanning' /\ Ended'
    <3>1. InTheReply /\ Len(relayed) = Length
      BY <2>1, <2>3, <1>5, <1>6 DEF Reached
    <3>2. InTheReply' /\ Len(relayed)' = Length' /\ Length' \in Nat
      BY <3>1, <1>1, <1>2, <1>3 DEF InTheReply
    <3>3. Len(relayed)' >= Length'
      BY <3>2
    <3> QED
      BY <2>1, <3>2, <3>3 DEF Responding, Scanning, Ended
  <2> QED
    BY <2>2, <2>3 DEF ReplyInv
<1>7. CASE ~chunk.chunks_done
  <2> DEFINE kept == Kept(rnread)
  <2>1. PICK bytes \in fdrecv(PROXY_BUFFER - kept) :
          LET memory == Moved(rnread)
              filled == [i \in DOMAIN memory |->
                           IF i \in kept .. kept + Len(bytes) - 1
                           THEN bytes[i - kept + 1] ELSE memory[i]]
          IN  /\ proxy_buf' = [filled EXCEPT ![Len(bytes)] = 0]
              /\ rpos' = rpos + Len(bytes)
              /\ rnread' = Len(bytes)
              /\ chunk' = [chunk EXCEPT !.body_start = 0]
              /\ total' = 0
              /\ aligned' = (aligned /\ ~EndsBadly(rpos + Len(bytes)))
              /\ at' = "scan"
    BY <1>7 DEF NextChunks
  <2> DEFINE n == Len(bytes)
  <2> DEFINE memory == Moved(rnread)
  <2> DEFINE filled == [i \in DOMAIN memory |-> IF i \in kept .. kept + n - 1 THEN bytes[i - kept + 1] ELSE memory[i]]
  <2>2. /\ proxy_buf' = [filled EXCEPT ![n] = 0] /\ rpos' = rpos + n /\ rnread' = n
        /\ chunk' = [chunk EXCEPT !.body_start = 0] /\ total' = 0
        /\ aligned' = (aligned /\ ~EndsBadly(rpos + n)) /\ at' = "scan"
    BY <2>1
  <2>3. kept \in Int /\ (rnread <= total => kept = 0)
    BY <1>1 DEF Kept
  <2>4. PROXY_BUFFER - kept \in Int /\ DOMAIN memory = 0 .. PROXY_BUFFER
    BY <2>3, <1>1 DEF Moved
  <2> HIDE DEF kept
  <2>5. Read(bytes, PROXY_BUFFER - kept)
    BY <1>1, <2>4, <2>1, FdrecvReads DEF kept
  <2>6. n \in Nat /\ rpos + n <= Available /\ (n = 0 => rpos = Available)
    BY <2>5 DEF Read
  <2> HIDE DEF memory
  <2>7. DOMAIN proxy_buf' = 0 .. PROXY_BUFFER
    BY <2>2, <2>4
  <2>8. chunk' \in Parsers /\ aligned' \in BOOLEAN /\ ~chunk'.chunks_done
    <3>1. chunk' \in Parsers /\ chunk'.chunks_done = chunk.chunks_done
      <4>1. chunk' = [chunk EXCEPT !.body_start = 0] /\ chunk \in Parsers
        BY <2>2, <1>1
      <4> QED
        BY <4>1 DEF Parsers
    <3> QED
      BY <3>1, <2>2, <1>7
  <2>9. ASSUME aligned'
        PROVE  Responding' /\ Scanning' /\ Ended'
    <3>1. /\ aligned /\ ~EndsBadly(rpos + n) /\ InTheReply /\ Reached(rpos) /\ Len(relayed) = rpos
          /\ rnread <= total
      BY <2>9, <2>2, <1>5, <1>7
    <3>2. rpos \in ChunkStarts /\ relayed = Range1(rpos) /\ kept = 0
      BY <3>1, <2>3, <1>7 DEF Reached, InTheReply
    <3>3. reply.kind = "chunks"
      BY <3>2, <1>1, ChunkTypes DEF ChunkStarts
    <3>4. Read(bytes, PROXY_BUFFER)
      BY <3>2, <2>5, <1>1
    <3>5. n <= PROXY_BUFFER
      BY <3>4, <1>1 DEF Read
    <3>6. \A i \in 1 .. n : bytes[i] = rpos + i
      BY <3>4 DEF Read
    <3>7. ASSUME NEW i \in 0 .. n - 1
          PROVE  filled[i] = rpos + 1 + i
      <4>1. i \in DOMAIN memory /\ i \in 0 .. 0 + n - 1 /\ i - 0 + 1 = i + 1 /\ i + 1 \in 1 .. n
        BY <3>5, <2>4, <2>6, <1>1
      <4>2. filled[i] = bytes[i + 1]
        BY <4>1, <3>2
      <4> QED
        BY <4>1, <4>2, <3>6, <2>6, <1>1
    <3>8. DOMAIN filled = 0 .. PROXY_BUFFER
      BY <2>4
    <3> HIDE DEF n, filled
    <3>10. \A i \in 0 .. n - 1 : proxy_buf'[i] = rpos + 1 + i
      BY <3>7, <3>8, <3>5, <2>2, <2>6, <1>1
    <3>11. InBuffer'
      BY <3>5, <3>10, <2>2, <2>6, <1>1 DEF InBuffer
    <3>12. rpos' - rnread' = rpos /\ rpos' - rnread' + total' = rpos /\ total' \in 0 .. rnread'
      BY <2>2, <2>6, <1>1
    <3>13. ~EndsBadly(rpos)' /\ (rnread' = 0 => rpos' = Available')
      BY <3>1, <2>2, <2>6, <1>1, <1>3
    <3> QED
      BY <3>2, <3>3, <3>11, <3>12, <3>13, <2>2, <1>2, <1>3 DEF Responding, Scanning, Ended
  <2> HIDE DEF n
  <2>10. ReplyTypes'
    BY <2>2, <2>6, <2>7, <2>8, <1>1, <1>2, <1>3 DEF ReplyTypes
  <2> QED
    BY <2>9, <2>10 DEF ReplyInv
<1> QED
  BY <1>4, <1>6, <1>7

(* The claims about replies follow. *)
LEMMA RepliesPass ==
    ASSUME ReplyInv
    PROVE  RelayedInOrder /\ RelayedCompletely /\ FailsForAReason
<1>1. /\ reply \in ReplyKinds /\ rpos \in Nat /\ rnread \in Nat /\ total \in Int /\ remaining \in Int
      /\ at \in {"read", "respond", "body", "relay", "scan", "chunk body", "streamed", "done", "abort", "failed"}
      /\ at = "read" => relayed = <<>>
  BY DEF ReplyInv, ReplyTypes
<1>2. ASSUME aligned
      PROVE  relayed = Range1(Len(relayed))
  <2>1. Responding /\ Scanning /\ Ended
    BY <1>2 DEF ReplyInv
  <2>2. ASSUME NEW n \in Nat, relayed = Range1(n)
        PROVE  relayed = Range1(Len(relayed))
    BY <2>2, RangeLength
  <2>3. CASE at \in {"read", "respond"}
    <3>1. relayed = Range1(0)
      BY <2>1, <2>3, <1>1, NothingSent DEF Responding
    <3> QED
      BY <3>1, <2>2
  <2>4. CASE at \in {"body", "chunk body"}
    <3>1. relayed = Range1(rpos)
      BY <2>1, <2>4 DEF Responding, Scanning
    <3> QED
      BY <3>1, <2>2, <1>1
  <2>5. CASE at \in {"relay", "scan"}
    <3>1. relayed = Range1(rpos - rnread) /\ rnread <= rpos
      BY <2>1, <2>5 DEF Responding, Scanning, InBuffer
    <3>3. PICK p \in Nat, r \in Nat : p = rpos /\ r = rnread
      BY <1>1
    <3>4. p - r \in Nat
      BY <3>1, <3>3
    <3>2. rpos - rnread \in Nat
      BY <3>3, <3>4
    <3> QED
      BY <3>1, <3>2, <2>2
  <2>6. CASE at \in {"streamed", "done", "abort", "failed"}
    BY <2>1, <2>6 DEF Scanning, Ended, InTheReply
  <2> QED
    BY <2>3, <2>4, <2>5, <2>6, <1>1
<1>3. aligned => Ended
  BY DEF ReplyInv
<1> QED
  BY <1>2, <1>3 DEF RelayedInOrder, RelayedCompletely, FailsForAReason, Ended

(* Every step of a reply keeps the invariant. *)
LEMMA ReplySteps ==
    ASSUME ReplyInv, ReplyNext
    PROVE  ReplyInv'
  BY HeadStep, RespondStep, StreamStep, ScanStep, NextStep, RelayStep DEF ReplyNext

(* The invariant of a reply mentions the variables of the reply only. *)
LEMMA ReplyStutters ==
    ASSUME ReplyInv, UNCHANGED replyVars
    PROVE  ReplyInv'
<1>1. UNCHANGED <<reply, at, rpos, proxy_buf, rnread, chunk, total, remaining, relayed, aligned>>
  BY DEF replyVars
<1>2. /\ Length' = Length /\ Available' = Available /\ ChunkStarts' = ChunkStarts
      /\ EndsBadly(rpos)' = EndsBadly(rpos)
  BY <1>1, SameReply
<1>3. ReplyTypes' = ReplyTypes
  BY <1>1, <1>2 DEF ReplyTypes
<1>4. InBuffer' = InBuffer /\ InTheReply' = InTheReply
  BY <1>1 DEF InBuffer, InTheReply
<1>5. /\ Reached(Len(relayed))' = Reached(Len(relayed))
      /\ Reached(rpos + remaining)' = Reached(rpos + remaining)
  BY <1>1, <1>2 DEF Reached
<1>6. Responding' = Responding /\ Scanning' = Scanning /\ Ended' = Ended
  BY <1>1, <1>2, <1>4, <1>5 DEF Responding, Scanning, Ended
<1> QED
  BY <1>1, <1>3, <1>6 DEF ReplyInv

-----------------------------------------------------------------------------
(* The bytes of a piece. *)
LEMMA BytesAre ==
    ASSUME NEW from \in Nat, NEW n \in Nat
    PROVE  /\ Bytes(from + 1, from + n) = [i \in 1 .. n |-> from + i]
           /\ Bytes(from + 1, from + n) \in Seq(Nat)
           /\ Len(Bytes(from + 1, from + n)) = n
<1>1. (from + n) - (from + 1) + 1 = n
  OBVIOUS
<1>2. \A i \in 1 .. n : (from + 1) + i - 1 = from + i
  OBVIOUS
<1>3. Bytes(from + 1, from + n) = [i \in 1 .. n |-> from + i]
  BY <1>1, <1>2 DEF Bytes
<1>4. [i \in 1 .. n |-> from + i] \in Seq(Nat) /\ Len([i \in 1 .. n |-> from + i]) = n
  OBVIOUS
<1> QED
  BY <1>3, <1>4

(* A piece grows by what is read behind it. *)
LEMMA BytesGrow ==
    ASSUME NEW from \in Nat, NEW n \in Nat, NEW m \in Nat
    PROVE  Bytes(from + 1, from + n) \o [i \in 1 .. m |-> (from + n) + i] = Bytes(from + 1, from + n + m)
<1> DEFINE s == Bytes(from + 1, from + n)
<1> DEFINE t == [i \in 1 .. m |-> (from + n) + i]
<1> DEFINE u == Bytes(from + 1, from + n + m)
<1>1. s \in Seq(Nat) /\ Len(s) = n /\ \A i \in 1 .. n : s[i] = from + i
  <2>1. s = [i \in 1 .. n |-> from + i] /\ s \in Seq(Nat) /\ Len(s) = n
    BY BytesAre
  <2> HIDE DEF s
  <2> QED
    BY <2>1
<1>2. t \in Seq(Nat) /\ Len(t) = m /\ \A i \in 1 .. m : t[i] = (from + n) + i
  OBVIOUS
<1>3. u \in Seq(Nat) /\ Len(u) = n + m /\ \A i \in 1 .. n + m : u[i] = from + i
  <2>1. from + (n + m) = from + n + m /\ n + m \in Nat
    OBVIOUS
  <2>2. u = Bytes(from + 1, from + (n + m))
    BY <2>1
  <2> HIDE DEF u
  <2>3. /\ Bytes(from + 1, from + (n + m)) = [i \in 1 .. n + m |-> from + i]
        /\ Bytes(from + 1, from + (n + m)) \in Seq(Nat)
        /\ Len(Bytes(from + 1, from + (n + m))) = n + m
    BY <2>1, BytesAre
  <2> QED
    BY <2>2, <2>3
<1> HIDE DEF s, t, u
<1>4. s \o t \in Seq(Nat) /\ Len(s \o t) = n + m
  BY <1>1, <1>2, ConcatProperties
<1>5. ASSUME NEW i \in 1 .. n + m
      PROVE  (s \o t)[i] = from + i
  <2>1. CASE i <= n
    <3>1. (s \o t)[i] = s[i] /\ i \in 1 .. n
      BY <2>1, <1>1, <1>2, ConcatProperties
    <3> QED
      BY <3>1, <1>1
  <2>2. CASE ~(i <= n)
    <3>1. (s \o t)[i] = t[i - n] /\ i - n \in 1 .. m
      BY <2>2, <1>1, <1>2, ConcatProperties
    <3>2. t[i - n] = (from + n) + (i - n)
      BY <3>1, <1>2
    <3> QED
      BY <3>1, <3>2
  <2> QED
    BY <2>1, <2>2
<1>6. s \o t = u
  BY <1>3, <1>4, <1>5, SeqEqual
<1> QED
  BY <1>6 DEF s, t, u

(* Requests follow one another. *)
LEMMA RequestFacts ==
    ASSUME client \in Clients
    PROVE  /\ Numbers = 1 .. Len(client.requests) /\ Len(client.requests) \in Nat \ {0}
           /\ Len(client.requests) \in Numbers
           /\ HEADER \in Nat \ {0}
           /\ \A n \in Numbers : /\ Base(n) \in Nat /\ Request(n).content \in Nat
                                 /\ Total(n) = HEADER + Request(n).content /\ Total(n) \in Nat
                                 /\ EndOf(n) = Base(n) + HEADER + Request(n).content /\ EndOf(n) \in Nat
                                 /\ Request(n).path \in {"handler", "proxy", "dir"}
                                 /\ Base(n) < EndOf(n) /\ EndOf(n) = Base(n) + Total(n)
           /\ Base(1) = 0
           /\ \A n \in 1 .. Len(client.requests) - 1 : Base(n + 1) = EndOf(n)
<1> DEFINE c == client.requests
<1>1. c \in Conversations /\ HEADER \in Nat \ {0}
  BY ConversationsAssumption DEF Clients
<1>2. /\ c \in Seq([path : {"handler", "proxy", "dir"}, content : Nat, base : Nat])
      /\ c # <<>> /\ c[1].base = 0
      /\ \A i \in 1 .. Len(c) - 1 : c[i + 1].base = c[i].base + HEADER + c[i].content
  BY <1>1, ConversationsAssumption
<1>3. Len(c) \in Nat \ {0}
  BY <1>2, EmptySeq
<1>4. \A n \in 1 .. Len(c) : c[n] \in [path : {"handler", "proxy", "dir"}, content : Nat, base : Nat]
  BY <1>2, ElementOfSeq
<1>5. Numbers = 1 .. Len(c) /\ Len(c) \in Numbers
  BY <1>3 DEF Numbers
<1>6. \A n \in Numbers : /\ Base(n) \in Nat /\ Request(n).content \in Nat
                         /\ Request(n).path \in {"handler", "proxy", "dir"}
  BY <1>4, <1>5 DEF Base, Request
<1>7. \A n \in Numbers : /\ Total(n) = HEADER + Request(n).content /\ Total(n) \in Nat
                         /\ EndOf(n) = Base(n) + HEADER + Request(n).content /\ EndOf(n) \in Nat
  BY <1>1, <1>6 DEF Total, EndOf
<1>71. ASSUME NEW n \in Numbers
       PROVE  Base(n) < EndOf(n) /\ EndOf(n) = Base(n) + Total(n)
  <2>1. PICK b \in Nat, z \in Nat, h \in Nat \ {0} : b = Base(n) /\ z = Request(n).content /\ h = HEADER
    BY <1>1, <1>6
  <2>2. Total(n) = h + z /\ EndOf(n) = b + h + z
    BY <2>1, <1>7
  <2>3. b < b + h + z /\ b + h + z = b + (h + z)
    OBVIOUS
  <2> QED
    BY <2>1, <2>2, <2>3
<1>8. Base(1) = 0 /\ \A n \in 1 .. Len(c) - 1 : Base(n + 1) = Base(n) + HEADER + Request(n).content
  BY <1>2 DEF Base, Request
<1>9. \A n \in 1 .. Len(c) - 1 : n \in Numbers
  BY <1>3, <1>5
<1> HIDE DEF c
<1>10. \A n \in 1 .. Len(c) - 1 : Base(n + 1) = EndOf(n)
  BY <1>7, <1>8, <1>9
<1> QED
  BY <1>1, <1>3, <1>5, <1>6, <1>7, <1>71, <1>8, <1>10 DEF c

(* A client's requests lie behind each other. *)
LEMMA RequestsInOrder ==
    ASSUME client \in Clients
    PROVE  \A i, j \in Numbers : i < j => EndOf(i) <= Base(j) /\ Base(i) < Base(j)
<1> DEFINE N == Len(client.requests)
<1> DEFINE good == {n \in Nat : \A i \in Numbers : i + n + 1 \in Numbers => EndOf(i) <= Base(i + n + 1)}
<1>1. /\ Numbers = 1 .. N /\ N \in Nat
      /\ \A n \in Numbers : Base(n) \in Nat /\ EndOf(n) \in Nat /\ Base(n) < EndOf(n)
      /\ \A n \in 1 .. N - 1 : Base(n + 1) = EndOf(n)
  BY RequestFacts
<1> HIDE DEF N
<1>2. 0 \in good
  <2> SUFFICES ASSUME NEW i \in Numbers, i + 1 \in Numbers
               PROVE  EndOf(i) <= Base(i + 1)
    BY <1>1
  <2>1. i \in 1 .. N - 1
    BY <1>1
  <2> QED
    BY <1>1, <2>1
<1>3. ASSUME NEW n \in 0 .. (N - 1), n \in good
      PROVE  n + 1 \in good
  <2> SUFFICES ASSUME NEW i \in Numbers, i + n + 2 \in Numbers
               PROVE  EndOf(i) <= Base(i + n + 2)
    BY <1>1
  <2>1. i \in Nat /\ i + n + 1 \in Numbers /\ i + n + 1 \in 1 .. N - 1 /\ (i + n + 1) + 1 = i + n + 2
    BY <1>1
  <2>2. EndOf(i) <= Base(i + n + 1)
    BY <1>3, <2>1
  <2>3. Base(i + n + 2) = EndOf(i + n + 1)
    BY <1>1, <2>1
  <2>4. /\ EndOf(i) \in Nat /\ Base(i + n + 1) \in Nat /\ EndOf(i + n + 1) \in Nat
        /\ Base(i + n + 1) < EndOf(i + n + 1)
    BY <1>1, <2>1
  <2> QED
    BY <2>2, <2>3, <2>4
<1>4. \A n \in 0 .. N : n \in good
  <2> HIDE DEF good
  <2> QED
    BY <1>1, <1>2, <1>3, Induction
<1> SUFFICES ASSUME NEW i \in Numbers, NEW j \in Numbers, i < j
             PROVE  EndOf(i) <= Base(j) /\ Base(i) < Base(j)
  OBVIOUS
<1>5. j - i - 1 \in 0 .. N /\ i + (j - i - 1) + 1 = j
  BY <1>1
<1>6. j - i - 1 \in good
  BY <1>4, <1>5
<1>7. EndOf(i) <= Base(j)
  BY <1>5, <1>6
<1>8. Base(i) < EndOf(i) /\ Base(i) \in Nat /\ EndOf(i) \in Nat /\ Base(j) \in Nat
  BY <1>1
<1> QED
  BY <1>7, <1>8

(* How far a client sends grows with the answers. *)
LEMMA LimitGrows ==
    ASSUME client \in Clients, client' = client, answered \in Nat, answered < Len(client.requests),
           answered' = answered + 1
    PROVE  /\ Limit \in Nat /\ Limit' \in Nat /\ Limit <= Limit'
           /\ ~client.pipelines => Limit = EndOf(answered + 1)
<1> DEFINE N == Len(client.requests)
<1>1. /\ Numbers = 1 .. N /\ N \in Nat \ {0} /\ N \in Numbers
      /\ \A n \in Numbers : Base(n) \in Nat /\ EndOf(n) \in Nat /\ Base(n) < EndOf(n)
      /\ \A n \in 1 .. N - 1 : Base(n + 1) = EndOf(n)
  BY RequestFacts
<1>2. StreamEnd = EndOf(N) /\ StreamEnd' = StreamEnd
  BY DEF StreamEnd, EndOf, Base, Total, Request
<1>3. PICK a \in Nat : a = answered
  OBVIOUS
<1>4. \A n : EndOf(n)' = EndOf(n)
  BY DEF EndOf, Base, Total, Request
<1>5. Limit = IF client.pipelines \/ a >= N THEN EndOf(N) ELSE EndOf(a + 1)
  BY <1>2, <1>3 DEF Limit
<1>6. Limit' = IF client.pipelines \/ a + 1 >= N THEN EndOf(N) ELSE EndOf(a + 2)
  <2>1. EndOf(answered + 1)' = EndOf(a + 2)
    <3>1. answered' + 1 = a + 2
      BY <1>3
    <3>2. EndOf(answered + 1)' = EndOf(a + 2)'
      BY <3>1 DEF EndOf, Base, Total, Request
    <3> QED
      BY <3>2, <1>4
  <2>2. answered' = a + 1
    BY <1>3
  <2>3. Len(client.requests)' = N
    OBVIOUS
  <2> QED
    BY <1>2, <2>1, <2>2, <2>3 DEF Limit
<1> HIDE DEF N
<1>7. a + 1 \in Numbers /\ ~(a >= N) /\ (a + 1 < N => a + 2 \in Numbers /\ a + 1 \in 1 .. N - 1 /\ a + 2 = (a + 1) + 1)
  BY <1>1, <1>3 DEF N
<1>8. Limit \in Nat /\ Limit' \in Nat
  BY <1>1, <1>5, <1>6, <1>7
<1>9. ~client.pipelines => Limit = EndOf(answered + 1)
  BY <1>3, <1>5, <1>7
<1>10. Limit <= Limit'
  <2>1. CASE client.pipelines
    BY <2>1, <1>1, <1>5, <1>6
  <2>2. CASE ~client.pipelines /\ a + 1 >= N
    <3>1. a + 1 = N
      BY <2>2, <1>1, <1>7
    <3>2. Limit = EndOf(N) /\ Limit' = EndOf(N)
      BY <3>1, <2>2, <1>5, <1>6
    <3> QED
      BY <3>2, <1>1
  <2>3. CASE ~client.pipelines /\ ~(a + 1 >= N)
    <3>1. a + 1 < N
      BY <2>3, <1>1
    <3>2. Base(a + 2) = EndOf(a + 1) /\ Base(a + 2) < EndOf(a + 2) /\ Base(a + 2) \in Nat /\ EndOf(a + 2) \in Nat
      BY <3>1, <1>1, <1>7
    <3>3. Limit = EndOf(a + 1) /\ Limit' = EndOf(a + 2)
      BY <2>3, <1>5, <1>6, <1>7
    <3> QED
      BY <3>2, <3>3
  <2> QED
    BY <2>1, <2>2, <2>3
<1> QED
  BY <1>8, <1>9, <1>10

-----------------------------------------------------------------------------
(* The bytes of the first p positions and the m that follow. *)
LEMMA GotGrows ==
    ASSUME NEW p \in Nat, NEW m \in Nat
    PROVE  Bytes(1, p) \o [i \in 1 .. m |-> p + i] = Bytes(1, p + m)
<1>1. Bytes(0 + 1, 0 + p) \o [i \in 1 .. m |-> (0 + p) + i] = Bytes(0 + 1, 0 + p + m)
  BY BytesGrow
<1>2. 0 + 1 = 1 /\ 0 + p = p /\ 0 + p + m = p + m
  OBVIOUS
<1> QED
  BY <1>1, <1>2

(* What recv returns: a piece, and how far it read. *)
Received(o, len) ==
    /\ o.bytes \in Seq(Nat) /\ Len(o.bytes) \in Nat /\ (o.bytes = <<>> <=> Len(o.bytes) = 0)
    /\ Len(o.bytes) <= (IF len > 0 THEN len ELSE 0)
    /\ o.pos \in Nat /\ o.stash \in Stashes /\ o.over \in BOOLEAN
    /\ ~oversize /\ ~o.over =>
        /\ o.bytes = [i \in 1 .. Len(o.bytes) |-> pos + i] /\ o.pos = pos + Len(o.bytes) /\ o.stash = NoStash
    /\ pos <= Limit => o.pos <= Limit

(* A read of memory is a number. *)
LEMMA MemoryTypes ==
    ASSUME NEW memory, IsBuffer(memory)
    PROVE  \A i : (IF i \in DOMAIN memory THEN memory[i] ELSE 0) \in Nat
  BY DEF IsBuffer

(* When nothing is received, nothing is lost. *)
LEMMA NothingReceived ==
    ASSUME pos \in Nat, ssl_buff \in Stashes, ~oversize => ssl_buff = NoStash, NEW len \in Int
    PROVE  Received(Nothing, len)
<1>1. /\ Nothing.bytes = <<>> /\ Nothing.pos = pos /\ Nothing.stash = ssl_buff /\ Nothing.over = FALSE
  BY DEF Nothing, Outcome
<1>2. <<>> \in Seq(Nat) /\ Len(<<>>) = 0 /\ <<>> = [i \in 1 .. 0 |-> pos + i] /\ 0 <= (IF len > 0 THEN len ELSE 0)
  OBVIOUS
<1>3. pos = pos + 0
  OBVIOUS
<1> HIDE DEF Nothing
<1> QED
  BY <1>1, <1>2, <1>3, Zenon DEF Received

(* Every outcome of recv is a piece of what the client sent, or tells that *)
(* a record was longer than the caller asked for.                          *)
LEMMA RecvReceives ==
    ASSUME pos \in Nat, ssl_buff \in Stashes, oversize \in BOOLEAN, ~oversize => ssl_buff = NoStash,
           IsBuffer(buf), RECORD \in Nat, Limit \in Nat, NEW to \in Nat, NEW len \in Int, NEW o \in recv(to, len)
    PROVE  Received(o, len)
<1>1. CASE o = Nothing
  BY <1>1, NothingReceived
<1>2. CASE o # Nothing
  <2>1. len \in Nat /\ len > 0 /\ o \in IF client.ssl THEN ssl_recv(to, len) ELSE plaintext_recv(len)
    BY <1>2 DEF recv
  <2>2. NoStash \in Stashes
    BY DEF NoStash, Stashes
  <2>3. CASE ~client.ssl
    <3>1. PICK n \in 1 .. Smaller(len, Limit - pos) :
            o = Outcome(Bytes(pos + 1, pos + n), pos + n, NoStash, FALSE)
      BY <2>1, <2>3 DEF plaintext_recv
    <3>2. n \in Nat /\ n >= 1 /\ n <= len /\ pos + n <= Limit /\ pos + n \in Nat
      BY <3>1, <2>1 DEF Smaller
    <3>3. o.bytes = Bytes(pos + 1, pos + n) /\ o.pos = pos + n /\ o.stash = NoStash /\ o.over = FALSE
      BY <3>1 DEF Outcome
    <3>4. /\ o.bytes = [i \in 1 .. n |-> pos + i] /\ o.bytes \in Seq(Nat) /\ Len(o.bytes) = n
      BY <3>2, <3>3, BytesAre
    <3>5. o.bytes # <<>>
      BY <3>2, <3>4
    <3>6. Len(o.bytes) \in Nat /\ Len(o.bytes) <= (IF len > 0 THEN len ELSE 0) /\ (o.bytes = <<>> <=> Len(o.bytes) = 0)
      BY <3>2, <3>4, <3>5, <2>1
    <3>7. o.bytes = [i \in 1 .. Len(o.bytes) |-> pos + i] /\ o.pos = pos + Len(o.bytes) /\ o.pos \in Nat /\ o.pos <= Limit
      BY <3>2, <3>3, <3>4
    <3>8. o.stash \in Stashes /\ o.stash = NoStash /\ o.over \in BOOLEAN
      BY <3>3, <2>2
    <3> QED
      BY <3>4, <3>6, <3>7, <3>8, Zenon DEF Received
  <2>4. CASE client.ssl /\ ssl_buff.len >= 0
    <3> DEFINE n == Smaller(ssl_buff.len, len)
    <3>1. o = Outcome([i \in 1 .. n |-> Memory(ssl_buff.at + i - 1)], pos,
                      IF ssl_buff.len < len THEN NoStash
                      ELSE [at |-> ssl_buff.at + n, len |-> ssl_buff.len - n], FALSE)
      BY <2>1, <2>4 DEF ssl_recv
    <3>2. ssl_buff.at \in Nat /\ ssl_buff.len \in Int
      BY DEF Stashes
    <3>3. n \in Nat /\ n <= len
      BY <2>1, <2>4, <3>2 DEF Smaller
    <3>4. \A i : Memory(i) \in Nat
      BY MemoryTypes DEF Memory
    <3> HIDE DEF n
    <3>5. /\ o.bytes = [i \in 1 .. n |-> Memory(ssl_buff.at + i - 1)] /\ o.pos = pos /\ o.over = FALSE
          /\ o.stash = IF ssl_buff.len < len THEN NoStash ELSE [at |-> ssl_buff.at + n, len |-> ssl_buff.len - n]
      BY <3>1 DEF Outcome
    <3>6. o.bytes \in Seq(Nat) /\ Len(o.bytes) = n
      BY <3>3, <3>4, <3>5
    <3>7. o.stash \in Stashes
      <4>1. ssl_buff.at + n \in Nat /\ ssl_buff.len - n \in Int
        BY <3>2, <3>3
      <4>2. [at |-> ssl_buff.at + n, len |-> ssl_buff.len - n] \in Stashes
        BY <4>1 DEF Stashes
      <4> QED
        BY <4>2, <3>5, <2>2
    <3>8. oversize
      <4>1. NoStash.len = -1
        BY DEF NoStash
      <4>2. ssl_buff # NoStash
        BY <4>1, <2>4
      <4> QED
        BY <4>2
    <3>9. o.bytes = <<>> <=> n = 0
      BY <3>3, <3>6, EmptySeq
    <3> QED
      BY <3>3, <3>5, <3>6, <3>7, <3>8, <3>9, <2>1 DEF Received
  <2>5. CASE client.ssl /\ ~(ssl_buff.len >= 0)
    <3>1. PICK n \in 1 .. Smaller(RECORD, Limit - pos) :
            o = Outcome(Bytes(pos + 1, pos + Smaller(n, len)), pos + n,
                        IF n > len THEN [at |-> to + len, len |-> n - len] ELSE NoStash, n > len)
      BY <2>1, <2>5 DEF ssl_recv
    <3>2. n \in Nat /\ n >= 1 /\ pos + n <= Limit /\ pos + n \in Nat
      BY <3>1 DEF Smaller
    <3>3. PICK m \in Nat : m = Smaller(n, len) /\ m <= len /\ m >= 1 /\ (~(n > len) => m = n)
      BY <2>1, <3>2 DEF Smaller
    <3>4. /\ o.bytes = Bytes(pos + 1, pos + m) /\ o.pos = pos + n /\ o.over = (n > len)
          /\ o.stash = IF n > len THEN [at |-> to + len, len |-> n - len] ELSE NoStash
      BY <3>1, <3>3 DEF Outcome
    <3>5. /\ o.bytes = [i \in 1 .. m |-> pos + i] /\ o.bytes \in Seq(Nat) /\ Len(o.bytes) = m
      BY <3>4, BytesAre
    <3>6. o.bytes # <<>>
      BY <3>3, <3>5
    <3>7. o.stash \in Stashes
      <4>1. to + len \in Nat /\ n - len \in Int
        BY <2>1, <3>2
      <4>2. [at |-> to + len, len |-> n - len] \in Stashes
        BY <4>1 DEF Stashes
      <4> QED
        BY <4>2, <3>4, <2>2
    <3>8. ~o.over => o.pos = pos + m /\ o.stash = NoStash
      BY <3>3, <3>4
    <3>9. o.over \in BOOLEAN
      BY <3>4
    <3>10. Len(o.bytes) \in Nat /\ Len(o.bytes) <= (IF len > 0 THEN len ELSE 0) /\ (o.bytes = <<>> <=> Len(o.bytes) = 0)
      BY <3>3, <3>5, <3>6, <2>1
    <3>11. o.bytes = [i \in 1 .. Len(o.bytes) |-> pos + i] /\ o.pos \in Nat /\ o.pos <= Limit
      BY <3>2, <3>4, <3>5
    <3>12. ~o.over => o.pos = pos + Len(o.bytes) /\ o.stash = NoStash
      BY <3>5, <3>8
    <3> QED
      BY <3>5, <3>7, <3>9, <3>10, <3>11, <3>12, Zenon DEF Received
  <2> QED
    BY <2>3, <2>4, <2>5
<1> QED
  BY <1>1, <1>2

(* What a step takes from the network. *)
Progress(n) ==
    /\ pos' \in Nat /\ ssl_buff' \in Stashes /\ oversize' \in BOOLEAN /\ (oversize => oversize')
    /\ InOrder'
    /\ ~oversize' => pos' = pos + n
    /\ pos <= Limit => pos' <= Limit

Piece(bytes, len) ==
    /\ bytes \in Seq(Nat) /\ Len(bytes) \in Nat /\ (bytes = <<>> <=> Len(bytes) = 0)
    /\ Len(bytes) <= (IF len > 0 THEN len ELSE 0)
    /\ ~oversize' => bytes = [i \in 1 .. Len(bytes) |-> pos + i]

(* How far a client that waits for answers has sent is a number. *)
LEMMA LimitTypes ==
    ASSUME client \in Clients, answered \in Nat
    PROVE  Limit \in Nat
<1>1. /\ Numbers = 1 .. Len(client.requests) /\ Len(client.requests) \in Nat \ {0}
      /\ Len(client.requests) \in Numbers
      /\ \A n \in Numbers : EndOf(n) \in Nat
  BY RequestFacts
<1>2. StreamEnd \in Nat
  BY <1>1 DEF StreamEnd
<1>3. ~(answered >= Len(client.requests)) => answered + 1 \in Numbers
  BY <1>1
<1> QED
  BY <1>1, <1>2, <1>3 DEF Limit

(* A call of recv moves on by the bytes it returns. *)
LEMMA Taking ==
    ASSUME RequestTypes, InOrder, NEW to \in Nat, NEW len \in Int, NEW o \in recv(to, len), Taken(o)
    PROVE  Progress(Len(o.bytes)) /\ Piece(o.bytes, len)
<1>1. /\ pos \in Nat /\ ssl_buff \in Stashes /\ oversize \in BOOLEAN /\ (~oversize => ssl_buff = NoStash /\ got = Bytes(1, pos))
      /\ IsBuffer(buf) /\ RECORD \in Nat /\ Limit \in Nat
  BY LimitTypes, ConversationsAssumption DEF RequestTypes, InOrder, Clients
<1>2. Received(o, len)
  BY <1>1, RecvReceives
<1>3. pos' = o.pos /\ ssl_buff' = o.stash /\ got' = got \o o.bytes /\ oversize' = (oversize \/ o.over)
  BY DEF Taken
<1> DEFINE n == Len(o.bytes)
<1>4. /\ o.bytes \in Seq(Nat) /\ n \in Nat /\ (o.bytes = <<>> <=> n = 0)
      /\ n <= (IF len > 0 THEN len ELSE 0)
      /\ o.pos \in Nat /\ o.stash \in Stashes /\ o.over \in BOOLEAN
      /\ ~oversize /\ ~o.over => /\ o.bytes = [i \in 1 .. n |-> pos + i] /\ o.pos = pos + n /\ o.stash = NoStash
      /\ pos <= Limit => o.pos <= Limit
  BY <1>2 DEF Received
<1>5. InOrder'
  <2> SUFFICES ASSUME ~oversize'
               PROVE  ssl_buff' = NoStash /\ got' = Bytes(1, pos')
    BY DEF InOrder, NoStash, Bytes
  <2>1. /\ o.bytes = [i \in 1 .. n |-> pos + i] /\ o.pos = pos + n /\ o.stash = NoStash /\ got = Bytes(1, pos)
    BY <1>1, <1>3, <1>4
  <2> HIDE DEF n
  <2>2. Bytes(1, pos) \o [i \in 1 .. n |-> pos + i] = Bytes(1, pos + n)
    BY <1>1, <1>4, GotGrows
  <2>4. got \o o.bytes = Bytes(1, pos + n)
    BY <2>1, <2>2
  <2> QED
    BY <2>1, <2>4, <1>3
<1> HIDE DEF n
<1>6. Progress(n)
  BY <1>1, <1>3, <1>4, <1>5 DEF Progress
<1>7. Piece(o.bytes, len)
  <2> USE DEF n
  <2> QED
    BY <1>1, <1>3, <1>4 DEF Piece
<1> QED
  BY <1>6, <1>7 DEF n

(* A step without recv leaves the connection where it is. *)
LEMMA TakingNothing ==
    ASSUME RequestTypes, InOrder, NothingTaken
    PROVE  Progress(0) /\ pos' = pos /\ oversize' = oversize
<1>1. /\ pos \in Nat /\ ssl_buff \in Stashes /\ oversize \in BOOLEAN 
  BY DEF RequestTypes
<1>2. UNCHANGED <<pos, ssl_buff, got, oversize>>
  BY DEF NothingTaken
<1>3. InOrder'
  BY <1>2 DEF InOrder, NoStash, Bytes
<1>4. pos = pos + 0
  BY <1>1
<1> QED
  BY <1>1, <1>2, <1>3, <1>4 DEF Progress

(* What a write leaves in memory. *)
LEMMA WriteTypes ==
    ASSUME IsBuffer(buf), NEW a \in Nat, NEW bytes \in Seq(Nat)
    PROVE  IsBuffer(Write(a, bytes)) /\ DOMAIN Write(a, bytes) = DOMAIN buf
<1>1. PICK top \in DOMAIN buf : BUFFER_SIZE <= top /\ DOMAIN buf = 0 .. top
  BY DEF IsBuffer
<1>2. DOMAIN Write(a, bytes) = DOMAIN buf
  BY DEF Write
<1>3. ASSUME NEW i \in DOMAIN buf
      PROVE  Write(a, bytes)[i] \in Nat
  <2>1. buf[i] \in Nat /\ i \in Int /\ Len(bytes) \in Nat
    BY <1>1 DEF IsBuffer
  <2>2. Write(a, bytes)[i] = IF i \in a .. a + Len(bytes) - 1 THEN bytes[i - a + 1] ELSE buf[i]
    BY DEF Write
  <2>3. CASE i \in a .. a + Len(bytes) - 1
    <3>1. i - a + 1 \in 1 .. Len(bytes)
      BY <2>1, <2>3
    <3>2. bytes[i - a + 1] \in Nat
      BY <3>1, ElementOfSeq
    <3> QED
      BY <3>2, <2>2, <2>3
  <2>4. CASE i \notin a .. a + Len(bytes) - 1
    BY <2>1, <2>2, <2>4
  <2> QED
    BY <2>3, <2>4
<1> QED
  BY <1>1, <1>2, <1>3 DEF IsBuffer

(* Writing the next bytes behind those that memory holds makes it hold more. *)
LEMMA WriteHolds ==
    ASSUME IsBuffer(buf), pos \in Nat, NEW a \in Nat, Holds(buf, pos, a), NEW m \in Nat, NEW bytes, Len(bytes) = m,
           bytes = [i \in 1 .. m |-> pos + i], m > 0 => a + m - 1 \in DOMAIN buf
    PROVE  Holds(Write(a, bytes), pos + m, a + m)
<1>1. PICK top \in DOMAIN buf : BUFFER_SIZE <= top /\ DOMAIN buf = 0 .. top
  BY DEF IsBuffer
<1>2. a <= pos /\ \A i \in 0 .. a - 1 : i \in DOMAIN buf /\ buf[i] = pos - a + 1 + i
  BY DEF Holds
<1>3. a + m <= pos + m
  BY <1>2
<1>4. ASSUME NEW i \in 0 .. (a + m) - 1
      PROVE  i \in DOMAIN Write(a, bytes) /\ Write(a, bytes)[i] = (pos + m) - (a + m) + 1 + i
  <2>1. i \in DOMAIN buf
    <3>1. CASE i < a
      <4>1. i \in 0 .. a - 1
        BY <3>1
      <4> QED
        BY <4>1, <1>2
    <3>2. CASE ~(i < a)
      <4>1. m > 0 /\ i <= a + m - 1
        BY <3>2
      <4>2. a + m - 1 \in 0 .. top /\ top \in Int
        BY <4>1, <1>1
      <4> QED
        BY <4>1, <4>2, <1>1
    <3> QED
      BY <3>1, <3>2
  <2>2. DOMAIN Write(a, bytes) = DOMAIN buf
    BY DEF Write
  <2>3. Write(a, bytes)[i] = IF i \in a .. a + m - 1 THEN bytes[i - a + 1] ELSE buf[i]
    BY <2>1 DEF Write
  <2>4. CASE i < a
    <3>1. i \in 0 .. a - 1 /\ i \notin a .. a + m - 1
      BY <2>4
    <3>2. Write(a, bytes)[i] = pos - a + 1 + i
      BY <3>1, <2>3, <1>2
    <3> QED
      BY <3>2, <2>1, <2>2
  <2>5. CASE ~(i < a)
    <3>1. i \in a .. a + m - 1 /\ i - a + 1 \in 1 .. m
      BY <2>5
    <3>2. Write(a, bytes)[i] = pos + (i - a + 1)
      BY <3>1, <2>3
    <3> QED
      BY <3>2, <2>1, <2>2
  <2> QED
    BY <2>4, <2>5
<1> QED
  BY <1>3, <1>4 DEF Holds

(* The request parser: types, and in an undisturbed buffer the request that starts there. *)
Understood(p, memory, from, to, q) ==
    \A end \in Nat :
        Holds(memory, end, to) /\ from < to
          /\ (~p.error => p.seen = from /\ (p.seen > 0 => Base(p.request) = end - to))
        => (~q.error => /\ q.seen > 0 /\ Base(q.request) = end - to
                        /\ q.seen = to \/ (q.seen = HEADER /\ HEADER <= to))

(* What Request_parse returns, for each buffer and each state of the parser. *)
LEMMA ParseFacts ==
    ASSUME client \in Clients, NEW p \in RequestParsers, p.seen > 0 => p.request \in Numbers,
           NEW memory, NEW from \in Nat, NEW to \in Nat, NEW q, q = Request_parse(p, memory, from, to)
    PROVE  /\ q \in RequestParsers
           /\ q.seen > 0 => q.request \in Numbers
           /\ Understood(p, memory, from, to, q)
<1>1. /\ HEADER \in Nat \ {0} /\ Numbers = 1 .. Len(client.requests) /\ Len(client.requests) \in Nat
      /\ \A j \in Numbers : Base(j) \in Nat
  BY RequestFacts
<1>2. p.request \in Nat /\ p.seen \in 0 .. HEADER /\ p.seen \in Nat /\ p.seen <= HEADER /\ p.error \in BOOLEAN
  BY <1>1 DEF RequestParsers
<1> DEFINE n == Smaller(HEADER - p.seen, to - from)
<1>3. n \in Int /\ n <= HEADER - p.seen /\ n <= to - from /\ (n = HEADER - p.seen \/ n = to - from)
  BY <1>1, <1>2 DEF Smaller
<1> DEFINE InMemory(i) == IF i \in DOMAIN memory THEN memory[i] ELSE 0
<1> DEFINE heads == {h \in IF p.seen = 0 THEN Numbers ELSE {p.request} :
                       \A i \in 0 .. n - 1 : InMemory(from + i) = Base(h) + p.seen + i + 1}
<1> DEFINE h == CHOOSE x \in heads : TRUE
<1>4. q = IF p.error \/ n <= 0 THEN p
          ELSE IF heads = {} THEN [p EXCEPT !.error = TRUE]
          ELSE [p EXCEPT !.request = h, !.seen = @ + n]
  BY DEF Request_parse
<1>5. heads # {} => /\ h \in Numbers \/ (p.seen # 0 /\ h = p.request)
                    /\ h \in IF p.seen = 0 THEN Numbers ELSE {p.request}
                    /\ \A i \in 0 .. n - 1 : InMemory(from + i) = Base(h) + p.seen + i + 1
  <2> SUFFICES ASSUME heads # {}
               PROVE  /\ h \in Numbers \/ (p.seen # 0 /\ h = p.request)
                      /\ h \in IF p.seen = 0 THEN Numbers ELSE {p.request}
                      /\ \A i \in 0 .. n - 1 : InMemory(from + i) = Base(h) + p.seen + i + 1
    OBVIOUS
  <2>1. h \in heads
    <3> HIDE DEF heads
    <3> QED
      OBVIOUS
  <2> HIDE DEF h
  <2> QED
    BY <2>1
<1> HIDE DEF n, heads, h, InMemory
<1>6. heads # {} => h \in Numbers /\ h \in Nat
  <2>1. p.seen # 0 => p.request \in Numbers
    BY <1>2
  <2> QED
    BY <2>1, <1>1, <1>5
<1>7. CASE p.error \/ n <= 0
  <2>1. q = p
    BY <1>4, <1>7
  <2>2. ASSUME NEW end \in Nat, from < to, p.seen = from /\ (p.seen > 0 => Base(p.request) = end - to), ~p.error
        PROVE  /\ q.seen > 0 /\ Base(q.request) = end - to /\ q.seen = HEADER /\ HEADER <= to
    <3>1. p.seen = HEADER
      BY <2>2, <1>1, <1>2, <1>3, <1>7
    <3> QED
      BY <3>1, <2>1, <2>2, <1>1
  <2> QED
    BY <2>1, <2>2 DEF Understood
<1>8. CASE ~(p.error \/ n <= 0) /\ heads = {}
  <2>1. q = [p EXCEPT !.error = TRUE]
    BY <1>4, <1>8
  <2>2. q \in RequestParsers /\ q.seen = p.seen /\ q.request = p.request /\ q.error
    BY <2>1 DEF RequestParsers
  <2> QED
    BY <2>2 DEF Understood
<1>9. CASE ~(p.error \/ n <= 0) /\ heads # {}
  <2>1. q = [p EXCEPT !.request = h, !.seen = @ + n]
    BY <1>4, <1>9
  <2>2. n \in Nat /\ n > 0 /\ p.seen + n \in 0 .. HEADER /\ p.seen + n > 0
    BY <1>1, <1>2, <1>3, <1>9
  <2>3. q.request = h /\ q.seen = p.seen + n /\ q.error = p.error
    BY <2>1 DEF RequestParsers
  <2>4. q \in RequestParsers
    BY <2>1, <2>2, <1>6, <1>9 DEF RequestParsers
  <2>5. ASSUME NEW end \in Nat, Holds(memory, end, to), from < to,
               p.seen = from /\ (p.seen > 0 => Base(p.request) = end - to)
        PROVE  /\ Base(h) = end - to
               /\ p.seen + n = to \/ (p.seen + n = HEADER /\ HEADER <= to)
    <3>1. p.seen + n = to \/ (p.seen + n = HEADER /\ HEADER <= to)
      BY <2>5, <2>2, <1>1, <1>2, <1>3
    <3>2. CASE p.seen = 0
      <4>1. InMemory(from + 0) = Base(h) + p.seen + 0 + 1
        BY <2>2, <1>5, <1>9
      <4>2. from + 0 = 0 /\ Base(h) \in Nat
        BY <3>2, <2>5, <1>1, <1>6, <1>9
      <4>3. 0 \in 0 .. to - 1
        BY <2>5
      <4>4. 0 \in DOMAIN memory /\ memory[0] = end - to + 1 + 0 /\ to <= end
        BY <4>3, <2>5 DEF Holds
      <4>5. InMemory(0) = end - to + 1 + 0
        BY <4>4 DEF InMemory
      <4>6. PICK b \in Nat : b = Base(h)
        BY <4>2
      <4>7. end - to + 1 + 0 = b + 0 + 0 + 1
        BY <4>1, <4>2, <4>5, <4>6, <3>2
      <4> QED
        BY <4>4, <4>6, <4>7, <3>1
    <3>3. CASE p.seen # 0
      <4>1. p.seen > 0 /\ h = p.request
        BY <3>3, <1>2, <1>5, <1>9
      <4> QED
        BY <4>1, <3>1, <2>5
    <3> QED
      BY <3>2, <3>3
  <2> QED
    BY <2>2, <2>3, <2>4, <2>5, <1>6, <1>9 DEF Understood
<1> QED
  BY <1>7, <1>8, <1>9

-----------------------------------------------------------------------------
(* The types of what the steps of a request read. *)
LEMMA RequestInvFacts ==
    ASSUME RequestInv
    PROVE  /\ RequestTypes /\ InOrder /\ Places
           /\ client \in Clients /\ pos \in Nat /\ nread \in Nat /\ nparsed \in Nat /\ IsBuffer(buf)
           /\ client.pipelines \in BOOLEAN /\ client.temp_store \in BOOLEAN
           /\ parse \in RequestParsers /\ (parse.seen > 0 => parse.request \in Numbers)
           /\ oversize \in BOOLEAN /\ early \in Int /\ answered \in Nat /\ upstream \in Seq(Nat)
           /\ loop \in [remaining : Int, at : Nat] /\ loop.remaining \in Int /\ loop.at \in Nat
           /\ Limit \in Nat /\ BUFFER_SIZE \in Nat \ {0} /\ HEADER \in Nat \ {0} /\ MAX_CONTENT_LENGTH \in Nat
           /\ pc \in Requesting => k \in Numbers
           /\ pc \in Requesting \cup {"header", "closed", "overrun"}
<1>1. RequestTypes /\ InOrder /\ Places
  BY DEF RequestInv
<1>2. /\ client \in Clients /\ pos \in Nat /\ nread \in Nat /\ nparsed \in Nat /\ IsBuffer(buf)
      /\ parse \in RequestParsers /\ (parse.seen > 0 => parse.request \in Numbers)
      /\ oversize \in BOOLEAN /\ early \in Int /\ answered \in Nat /\ upstream \in Seq(Nat)
      /\ loop \in [remaining : Int, at : Nat]
      /\ pc \in Requesting \cup {"header", "closed", "overrun"}
  BY <1>1 DEF RequestTypes
<1>3. BUFFER_SIZE \in Nat \ {0} /\ HEADER \in Nat \ {0} /\ MAX_CONTENT_LENGTH \in Nat
  BY ConversationsAssumption
<1>4. pc \in Requesting => k \in Numbers
  BY <1>1, <1>2, <1>3 DEF Places, k
<1>5. Limit \in Nat
  BY <1>2, LimitTypes
<1>6. client.pipelines \in BOOLEAN /\ client.temp_store \in BOOLEAN
  BY <1>2 DEF Clients
<1>7. loop.remaining \in Int /\ loop.at \in Nat
  BY <1>2
<1> QED
  BY <1>1, <1>2, <1>3, <1>4, <1>5, <1>6, <1>7

(* Where requests lie depends on the client only. *)
LEMMA SameRequests ==
    ASSUME client' = client
    PROVE  /\ Numbers' = Numbers /\ Complete' = Complete /\ ProxyStarts' = ProxyStarts
           /\ \A n : Base(n)' = Base(n)
           /\ \A n : EndOf(n)' = EndOf(n)
           /\ \A n : Total(n)' = Total(n)
           /\ answered' = answered => Limit' = Limit
<1>1. Numbers' = Numbers
  BY DEF Numbers
<1>2. ProxyStarts' = ProxyStarts
  BY DEF ProxyStarts, Numbers, Base, Request
<1>3. Complete' = Complete
  BY DEF Complete, Numbers, Body, Bytes, EndOf, Total, Base, Request
<1>4. /\ \A n : Base(n)' = Base(n)
      /\ \A n : EndOf(n)' = EndOf(n)
      /\ \A n : Total(n)' = Total(n)
  BY DEF EndOf, Total, Base, Request
<1>5. answered' = answered => Limit' = Limit
  BY DEF Limit, StreamEnd, EndOf, Total, Base, Request
<1> QED
  BY <1>1, <1>2, <1>3, <1>4, <1>5

(* The same request at the same task. *)
LEMMA SameRequest ==
    ASSUME client' = client, parse' = parse
    PROVE  /\ Base(k)' = Base(k) /\ EndOf(k)' = EndOf(k) /\ Total(k)' = Total(k) /\ Request(k)' = Request(k) /\ k' = k
  BY DEF EndOf, Total, Base, Request, k

(* A request that was answered leads back to an empty buffer. *)
LEMMA Delivered ==
    ASSUME RequestInv, client' = client, NEW n \in Nat, Progress(n), IsBuffer(buf'), answered' = answered + 1,
           connection_parse(0), early' \in Int, upstream' \in Seq(Nat), upstream # <<>> => upstream' # <<>>,
           ~Disturbed => payloads' \in Seq(Complete),
           ~oversize' /\ ~client.pipelines =>
                answered < Len(client.requests) /\ Base(answered + 1) < pos /\ Whole(upstream')
    PROVE  RequestInv'
<1>1. /\ client \in Clients /\ pos \in Nat /\ nread \in Nat /\ answered \in Nat /\ BUFFER_SIZE \in Nat \ {0}
      /\ HEADER \in Nat \ {0} /\ oversize \in BOOLEAN /\ client.pipelines \in BOOLEAN
  BY RequestInvFacts
<1>2. /\ pc' = "header" /\ nread' = 0 /\ nparsed' = 0 /\ parse' = Fresh
      /\ loop' = [remaining |-> BUFFER_SIZE - 1, at |-> 0]
  BY DEF connection_parse, StartHeader
<1>3. /\ pos' \in Nat /\ ssl_buff' \in Stashes /\ oversize' \in BOOLEAN /\ (oversize => oversize')
      /\ InOrder' /\ (~oversize' => pos' = pos + n) /\ (pos <= Limit => pos' <= Limit)
  BY DEF Progress
<1>4. /\ Numbers' = Numbers /\ Complete' = Complete /\ ProxyStarts' = ProxyStarts
      /\ \A j : Base(j)' = Base(j)
      /\ \A j : EndOf(j)' = EndOf(j)
  BY SameRequests
<1>5. /\ parse' \in RequestParsers /\ parse'.seen = 0 /\ parse'.error = FALSE
      /\ loop' \in [remaining : Int, at : Nat] /\ loop'.at = 0 /\ loop'.remaining = BUFFER_SIZE - 1
  BY <1>1, <1>2 DEF Fresh, RequestParsers
<1>6. RequestTypes'
  <2>1. client' \in Clients'
    BY <1>1 DEF Clients
  <2>2. parse' \in RequestParsers' /\ ~(parse'.seen > 0) /\ ssl_buff' \in Stashes'
    BY <1>3, <1>5 DEF RequestParsers, Stashes
  <2>3. answered' \in Nat /\ nread' \in Nat /\ nparsed' \in Nat
    BY <1>1, <1>2
  <2>4. IsBuffer(buf)'
    BY DEF IsBuffer
  <2> QED
    BY <2>1, <2>2, <2>3, <2>4, <1>2, <1>3, <1>5 DEF RequestTypes
<1>7. Places'
  <2>1. loop'.at + loop'.remaining = BUFFER_SIZE - 1
    BY <1>1, <1>5
  <2> QED
    BY <2>1, <1>2 DEF Places, Requesting
<1>8. ASSUME ~Disturbed'
      PROVE  Undisturbed'
  <2>1. ~Disturbed
    BY <1>8, <1>3 DEF Disturbed
  <2>2. payloads' \in Seq(Complete')
    BY <2>1, <1>4
  <2>3. Held(nread)'
    BY <1>2, <1>3 DEF Held, Holds
  <2> QED
    BY <2>2, <2>3, <1>2, <1>5 DEF Undisturbed
<1>9. ASSUME ~oversize' /\ ~client'.pipelines
      PROVE  Waiting'
  <2>1. /\ ~oversize /\ ~client.pipelines /\ answered < Len(client.requests) /\ Base(answered + 1) < pos
        /\ Whole(upstream') /\ pos <= Limit /\ pos' = pos + n
    BY <1>9, <1>3 DEF RequestInv, Waiting
  <2>2. Limit \in Nat /\ Limit' \in Nat /\ Limit <= Limit' /\ Limit = EndOf(answered + 1)
    BY <2>1, <1>1, LimitGrows
  <2>3. pos' <= Limit
    BY <2>1, <1>3
  <2>4. pos' <= Limit'
    BY <2>2, <2>3, <1>3
  <2>5. PICK a \in Nat : a = answered + 1
    BY <1>1
  <2>6. a <= Len(client.requests) /\ a \in Numbers /\ a # 0
    BY <2>1, <2>5, <1>1, RequestFacts
  <2>7. Base(a) \in Nat /\ Base(a) < pos' /\ pos' <= EndOf(a)
    <3>1. Base(a) \in Nat
      BY <2>6, <1>1, RequestFacts
    <3> QED
      BY <3>1, <2>1, <2>2, <2>3, <2>5, <1>1
  <2>8. pos' - nread' = pos'
    <3>1. PICK p \in Nat : p = pos'
      BY <1>3
    <3>2. p - 0 = p
      OBVIOUS
    <3> QED
      BY <3>1, <3>2, <1>2
  <2>9. answered' = a
    BY <2>5
  <2>10. Behind(pos - nread)'
    <3>1. answered' <= Len(client.requests)' /\ answered' # 0
      BY <2>6, <2>9
    <3>2. Base(answered)' = Base(a) /\ EndOf(answered)' = EndOf(a)
      BY <2>9 DEF Base, EndOf, Total, Request
    <3> QED
      BY <3>1, <3>2, <2>7, <2>8 DEF Behind
  <2>11. Whole(upstream)'
    BY <2>1, <1>4 DEF Whole
  <2> QED
    BY <2>4, <2>10, <2>11, <1>2 DEF Waiting, Requesting
<1> QED
  BY <1>3, <1>6, <1>7, <1>8, <1>9 DEF RequestInv

(* A connection that is closed did nothing else. *)
LEMMA Closed ==
    ASSUME RequestInv, NEW n \in Nat, Progress(n), Close
    PROVE  RequestInv'
<1>1. /\ client \in Clients /\ pos \in Nat /\ RequestTypes /\ Limit \in Nat
  BY RequestInvFacts
<1>2. /\ pc' = "closed" /\ client' = client /\ buf' = buf /\ nread' = nread /\ nparsed' = nparsed /\ parse' = parse
      /\ loop' = loop /\ early' = early /\ answered' = answered /\ payloads' = payloads /\ upstream' = upstream
      /\ file' = file
  BY DEF Close
<1>3. /\ pos' \in Nat /\ ssl_buff' \in Stashes /\ oversize' \in BOOLEAN /\ (oversize => oversize')
      /\ InOrder' /\ (~oversize' => pos' = pos + n) /\ (pos <= Limit => pos' <= Limit)
  BY DEF Progress
<1>4. Numbers' = Numbers /\ Complete' = Complete /\ ProxyStarts' = ProxyStarts /\ Limit' = Limit
  BY <1>2, SameRequests
<1>5. RequestTypes'
  BY <1>1, <1>2, <1>3, <1>4 DEF RequestTypes, IsBuffer, Clients, Stashes, RequestParsers
<1>6. Places'
  BY <1>2 DEF Places, Requesting
<1>7. ASSUME ~Disturbed'
      PROVE  Undisturbed'
  <2>1. ~Disturbed
    BY <1>7, <1>2, <1>3 DEF Disturbed
  <2> QED
    BY <2>1, <1>2, <1>4 DEF Undisturbed, RequestInv
<1>8. ASSUME ~oversize' /\ ~client'.pipelines
      PROVE  Waiting'
  <2>1. pos <= Limit /\ Whole(upstream)
    BY <1>8, <1>2, <1>3 DEF RequestInv, Waiting
  <2>2. pos' <= Limit'
    BY <2>1, <1>3, <1>4
  <2>3. Whole(upstream)'
    BY <2>1, <1>2, <1>4 DEF Whole
  <2> QED
    BY <2>2, <2>3, <1>2 DEF Waiting, Requesting
<1> QED
  BY <1>3, <1>5, <1>6, <1>7, <1>8 DEF RequestInv

(* A request whose content is at hand. *)
LEMMA ContentAtHand ==
    ASSUME client \in Clients, k \in Numbers, pos \in Nat, NEW a \in Nat, Holds(buf, pos, a), Base(k) + a = pos,
           Total(k) <= a
    PROVE  Content = Body(k)
<1>1. /\ Base(k) \in Nat /\ Request(k).content \in Nat /\ HEADER \in Nat
      /\ Total(k) = HEADER + Request(k).content /\ EndOf(k) = Base(k) + HEADER + Request(k).content
  BY RequestFacts
<1>2. PICK b \in Nat, z \in Nat, h \in Nat : b = Base(k) /\ z = Request(k).content /\ h = HEADER
  BY <1>1
<1>3. h + z <= a /\ b + a = pos
  BY <1>1, <1>2
<1>4. Body(k) = [i \in 1 .. z |-> (b + h) + i]
  <2>1. EndOf(k) = (b + h) + z
    BY <1>1, <1>2
  <2>2. Body(k) = Bytes((b + h) + 1, (b + h) + z)
    BY <2>1, <1>2 DEF Body
  <2>3. b + h \in Nat
    OBVIOUS
  <2> QED
    BY <2>2, <2>3, BytesAre
<1>5. ASSUME NEW i \in 1 .. z
      PROVE  Memory(h + i - 1) = (b + h) + i
  <2>1. h + i - 1 \in 0 .. a - 1
    BY <1>3
  <2>2. h + i - 1 \in DOMAIN buf /\ buf[h + i - 1] = pos - a + 1 + (h + i - 1)
    BY <2>1 DEF Holds
  <2>3. pos - a + 1 + (h + i - 1) = (b + h) + i
    BY <1>3
  <2> QED
    BY <2>2, <2>3 DEF Memory
<1>6. Content = [i \in 1 .. z |-> Memory(h + i - 1)]
  BY <1>2 DEF Content
<1> QED
  BY <1>4, <1>5, <1>6

(* A handler that gets the body of this request gets nothing else. *)
LEMMA PayloadAdded ==
    ASSUME payloads \in Seq(Complete), k \in Numbers, NEW b, b = Body(k)
    PROVE  Append(payloads, [request |-> k, content |-> b]) \in Seq(Complete)
<1>1. [request |-> k, content |-> b] \in Complete
  BY DEF Complete
<1> QED
  BY <1>1, AppendProperties

(* What a proxy's backend was sent grows. *)
LEMMA WholeGrows ==
    ASSUME upstream \in Seq(Nat), Whole(upstream), NEW a \in Nat, NEW m \in Nat, NEW bytes,
           bytes = [i \in 1 .. m |-> a + i],
           m > 0 => a + 1 \in ProxyStarts \/ (upstream # <<>> /\ upstream[Len(upstream)] = a)
    PROVE  /\ upstream \o bytes \in Seq(Nat) /\ Whole(upstream \o bytes)
           /\ m > 0 => /\ upstream \o bytes # <<>>
                       /\ (upstream \o bytes)[Len(upstream \o bytes)] = a + m
<1> DEFINE s == upstream \o bytes
<1> DEFINE N == Len(upstream)
<1>1. bytes \in Seq(Nat) /\ Len(bytes) = m /\ \A i \in 1 .. m : bytes[i] = a + i
  OBVIOUS
<1>2. N \in Nat /\ (upstream # <<>> => N > 0)
  BY EmptySeq
<1>3. /\ s \in Seq(Nat) /\ Len(s) = N + m
      /\ \A i \in 1 .. N + m : s[i] = IF i <= N THEN upstream[i] ELSE bytes[i - N]
  BY <1>1, ConcatProperties
<1>4. DOMAIN s = 1 .. N + m /\ DOMAIN upstream = 1 .. N
  BY <1>3
<1> HIDE DEF s, N
<1>5. \A i \in 1 .. N : s[i] = upstream[i]
  BY <1>2, <1>3
<1>6. \A i \in 1 .. m : s[N + i] = a + i
  <2> SUFFICES ASSUME NEW i \in 1 .. m PROVE s[N + i] = a + i
    OBVIOUS
  <2>1. N + i \in 1 .. N + m /\ ~(N + i <= N) /\ (N + i) - N = i
    BY <1>2
  <2> QED
    BY <2>1, <1>1, <1>3
<1>7. ASSUME NEW i \in 1 .. N + m
      PROVE  s[i] \in ProxyStarts \/ (i > 1 /\ s[i] = s[i - 1] + 1)
  <2>1. CASE i <= N
    <3>1. i \in 1 .. N /\ (i > 1 => i - 1 \in 1 .. N)
      BY <2>1, <1>2
    <3>2. upstream[i] \in ProxyStarts \/ (i > 1 /\ upstream[i] = upstream[i - 1] + 1)
      BY <3>1, <1>4 DEF Whole
    <3> QED
      BY <3>1, <3>2, <1>5
  <2>2. CASE i = N + 1
    <3>1. m > 0 /\ 1 \in 1 .. m
      BY <2>2, <1>2
    <3>2. s[i] = a + 1
      BY <3>1, <2>2, <1>6
    <3>3. CASE a + 1 \in ProxyStarts
      BY <3>2, <3>3
    <3>4. CASE upstream # <<>> /\ upstream[N] = a
      <4>1. N \in 1 .. N /\ i > 1 /\ i - 1 = N
        BY <3>4, <2>2, <1>2
      <4> QED
        BY <4>1, <3>2, <3>4, <1>5
    <3> QED
      BY <3>1, <3>3, <3>4 DEF N
  <2>3. CASE i > N + 1
    <3>1. i - N \in 1 .. m /\ i - N - 1 \in 1 .. m /\ N + (i - N) = i /\ N + (i - N - 1) = i - 1 /\ i > 1
      BY <2>3, <1>2
    <3>2. s[i] = a + (i - N) /\ s[i - 1] = a + (i - N - 1)
      BY <3>1, <1>6
    <3> QED
      BY <3>1, <3>2, <1>2
  <2> QED
    BY <2>1, <2>2, <2>3, <1>2
<1>8. m > 0 => s # <<>> /\ s[Len(s)] = a + m
  <2>1. m > 0 => m \in 1 .. m /\ Len(s) # 0
    BY <1>2, <1>3
  <2> QED
    BY <2>1, <1>3, <1>6, EmptySeq
<1>9. Whole(s)
  BY <1>4, <1>7 DEF Whole
<1> QED
  BY <1>3, <1>8, <1>9 DEF s

-----------------------------------------------------------------------------
(* The request that starts behind what was answered is the next one. *)
LEMMA NextRequest ==
    ASSUME client \in Clients, answered \in Nat, NEW from \in Int, Behind(from), NEW j \in Numbers, Base(j) = from
    PROVE  answered < Len(client.requests) /\ j = answered + 1
<1> DEFINE N == Len(client.requests)
<1>1. /\ Numbers = 1 .. N /\ N \in Nat \ {0} /\ Base(1) = 0
      /\ \A n \in Numbers : Base(n) \in Nat /\ EndOf(n) \in Nat
      /\ \A n \in 1 .. N - 1 : Base(n + 1) = EndOf(n)
  BY RequestFacts
<1>2. \A i, l \in Numbers : i < l => EndOf(i) <= Base(l) /\ Base(i) < Base(l)
  BY RequestsInOrder
<1>3. answered <= N /\ IF answered = 0 THEN from = 0 ELSE Base(answered) < from /\ from <= EndOf(answered)
  BY DEF Behind
<1> HIDE DEF N
<1>4. CASE answered = 0
  <2>1. 1 \in Numbers /\ Base(j) = 0
    BY <1>1, <1>3, <1>4
  <2>2. ~(1 < j)
    BY <2>1, <1>1, <1>2
  <2> QED
    BY <2>2, <1>1, <1>4 DEF N
<1>5. CASE answered # 0
  <2>1. answered \in Numbers /\ Base(answered) < Base(j) /\ Base(j) <= EndOf(answered)
    BY <1>1, <1>3, <1>5
  <2>2. ~(j <= answered)
    <3>1. j < answered => Base(j) < Base(answered)
      BY <2>1, <1>2
    <3> QED
      BY <3>1, <2>1, <1>1
  <2>3. answered < N
    BY <2>2, <1>1, <1>3
  <2>4. answered + 1 \in Numbers /\ Base(answered + 1) = EndOf(answered)
    BY <2>1, <2>3, <1>1
  <2>5. ~(answered + 1 < j)
    <3>1. answered + 1 < j => Base(answered + 1) < Base(j)
      BY <2>4, <1>2
    <3> QED
      BY <3>1, <2>1, <2>4, <1>1
  <2> QED
    BY <2>2, <2>3, <2>5, <1>1 DEF N
<1> QED
  BY <1>4, <1>5

(* Connection_read_header finds the request that starts in the buffer. *)
LEMMA ReadHeaderStep ==
    ASSUME RequestInv, Connection_read_header
    PROVE  RequestInv'
<1>1. /\ RequestTypes /\ InOrder /\ Places
      /\ client \in Clients /\ pos \in Nat /\ nread \in Nat /\ nparsed \in Nat /\ IsBuffer(buf)
      /\ client.pipelines \in BOOLEAN
      /\ parse \in RequestParsers /\ (parse.seen > 0 => parse.request \in Numbers)
      /\ oversize \in BOOLEAN /\ answered \in Nat /\ upstream \in Seq(Nat)
      /\ loop.remaining \in Int /\ loop.at \in Nat
      /\ BUFFER_SIZE \in Nat \ {0} /\ HEADER \in Nat \ {0}
  BY RequestInvFacts
<1>2. pc = "header"
  BY DEF Connection_read_header
<1>3. PICK o \in recv(loop.at, loop.remaining) :
        /\ Taken(o)
        /\ LET memory == Write(loop.at, o.bytes)
               filled == nread + Len(o.bytes)
               parsed == Request_parse(parse, memory, nparsed, filled)
           IN  IF o.bytes = <<>> THEN Close /\ UNCHANGED fd0
               ELSE /\ buf' = memory
                    /\ nread' = filled
                    /\ parse' = parsed
                    /\ nparsed' = filled
                    /\ loop' = [remaining |-> BUFFER_SIZE - 1 - filled, at |-> filled]
                    /\ pc' = IF Finished(parsed) THEN "route"
                             ELSE IF BUFFER_SIZE - 1 - filled < 0 THEN "closed" ELSE "header"
                    /\ early' = IF Finished(parsed) THEN filled - HEADER ELSE 0
                    /\ UNCHANGED <<client, answered, payloads, upstream, file, fd0>>
  BY DEF Connection_read_header
<1> DEFINE n == Len(o.bytes)
<1>4. Progress(n) /\ Piece(o.bytes, loop.remaining)
  BY <1>1, <1>3, Taking
<1>5. /\ o.bytes \in Seq(Nat) /\ n \in Nat /\ (o.bytes = <<>> <=> n = 0)
      /\ n <= (IF loop.remaining > 0 THEN loop.remaining ELSE 0)
      /\ ~oversize' => o.bytes = [i \in 1 .. n |-> pos + i]
  BY <1>4 DEF Piece
<1>6. CASE o.bytes = <<>>
  BY <1>3, <1>4, <1>5, <1>6, Closed
<1>7. CASE o.bytes # <<>>
  <2> DEFINE memory == Write(loop.at, o.bytes)
  <2> DEFINE all == nread + n
  <2> DEFINE parsed == Request_parse(parse, memory, nparsed, all)
  <2>1. /\ buf' = memory /\ nread' = all /\ parse' = parsed /\ nparsed' = all
        /\ loop' = [remaining |-> BUFFER_SIZE - 1 - all, at |-> all]
        /\ pc' = IF Finished(parsed) THEN "route" ELSE IF BUFFER_SIZE - 1 - all < 0 THEN "closed" ELSE "header"
        /\ early' = IF Finished(parsed) THEN all - HEADER ELSE 0
        /\ client' = client /\ answered' = answered /\ payloads' = payloads /\ upstream' = upstream
    BY <1>3, <1>7
  <2>2. all \in Nat /\ n > 0
    BY <1>1, <1>5, <1>7
  <2>3. IsBuffer(memory)
    BY <1>1, <1>5, WriteTypes
  <2>31. parsed = Request_parse(parse, memory, nparsed, all)
    OBVIOUS
  <2> HIDE DEF n, memory, all, parsed
  <2>4. /\ parsed \in RequestParsers /\ (parsed.seen > 0 => parsed.request \in Numbers)
        /\ Understood(parse, memory, nparsed, all, parsed)
    BY <2>2, <2>31, <1>1, ParseFacts
  <2>5. /\ pos' \in Nat /\ ssl_buff' \in Stashes /\ oversize' \in BOOLEAN /\ (oversize => oversize')
        /\ InOrder' /\ (~oversize' => pos' = pos + n) /\ (pos <= Limit => pos' <= Limit)
    BY <1>4 DEF Progress, n
  <2>6. /\ Numbers' = Numbers /\ Complete' = Complete /\ ProxyStarts' = ProxyStarts /\ Limit' = Limit
        /\ \A j : Base(j)' = Base(j)
    BY <2>1, SameRequests
  <2>7. /\ loop'.at = all /\ loop'.remaining = BUFFER_SIZE - 1 - all /\ loop' \in [remaining : Int, at : Nat]
        /\ early' \in Int /\ pc' \in {"route", "closed", "header"}
        /\ pc' = "route" <=> Finished(parsed)
        /\ Finished(parsed) => early' = all - HEADER
    <3>1. BUFFER_SIZE - 1 - all \in Int /\ all - HEADER \in Int
      BY <2>2, <1>1
    <3>2. Finished(parsed) \in BOOLEAN
      BY DEF Finished
    <3> QED
      BY <3>1, <3>2, <2>1, <2>2
  <2>8. RequestTypes'
    <3>1. client' \in Clients' /\ parse' \in RequestParsers' /\ ssl_buff' \in Stashes' /\ IsBuffer(buf)'
      BY <2>1, <2>3, <2>4, <2>5, <1>1 DEF Clients, RequestParsers, Stashes, IsBuffer
    <3>2. parse'.seen > 0 => parse'.request \in Numbers'
      BY <2>1, <2>4, <2>6
    <3>3. answered' \in Nat /\ nread' \in Nat /\ nparsed' \in Nat /\ upstream' \in Seq(Nat)
      BY <2>1, <2>2, <1>1
    <3> QED
      BY <3>1, <3>2, <3>3, <2>5, <2>7 DEF RequestTypes, Requesting
  <2>9. Places'
    <3>1. loop'.at + loop'.remaining = BUFFER_SIZE - 1
      <4>1. all + (BUFFER_SIZE - 1 - all) = BUFFER_SIZE - 1
        BY <2>2, <1>1
      <4> QED
        BY <4>1, <2>7
    <3>2. Finished(parsed) => parse'.seen = HEADER /\ early' = nread' - HEADER
      BY <2>1, <2>7 DEF Finished
    <3> QED
      BY <3>1, <3>2, <2>7 DEF Places, Requesting
  <2>10. ASSUME ~Disturbed'
         PROVE  /\ Undisturbed'
                /\ pc' = "route" => Base(parsed.request) = pos - nread /\ parsed.request \in Numbers
    <3>1. ~Disturbed /\ ~oversize'
      BY <2>1, <2>5, <2>10 DEF Disturbed
    <3>2. /\ payloads \in Seq(Complete) /\ nparsed = nread /\ loop.at = nread /\ Holds(buf, pos, nread)
          /\ parse.seen > 0 /\ ~parse.error => Base(parse.request) = pos - nread
          /\ ~parse.error => parse.seen = nread
      BY <3>1, <1>2 DEF RequestInv, Undisturbed, Held, k
    <3>3. nread + n - 1 \in DOMAIN buf
      <4>1. loop.remaining > 0 /\ n <= loop.remaining /\ nread + loop.remaining = BUFFER_SIZE - 1
        BY <3>2, <2>2, <1>1, <1>2, <1>5 DEF Places, n
      <4>2. PICK top \in DOMAIN buf : BUFFER_SIZE <= top /\ DOMAIN buf = 0 .. top
        BY <1>1 DEF IsBuffer
      <4>3. n \in Nat
        BY <1>5 DEF n
      <4> QED
        BY <4>1, <4>2, <4>3, <2>2, <1>1
    <3>4. Holds(memory, pos + n, all)
      <4>1. n \in Nat /\ Len(o.bytes) = n /\ o.bytes = [i \in 1 .. n |-> pos + i]
        BY <3>1, <1>5 DEF n
      <4> QED
        BY <4>1, <3>2, <3>3, <1>1, WriteHolds DEF memory, all
    <3>5. pos + n \in Nat /\ (pos + n) - all = pos - nread /\ nread < all /\ pos' = pos + n
      BY <3>1, <2>2, <2>5, <1>1, <1>5 DEF all, n
    <3>6. ~parsed.error => /\ parsed.seen > 0 /\ Base(parsed.request) = pos - nread
                           /\ parsed.seen = all \/ (parsed.seen = HEADER /\ HEADER <= all)
      BY <3>2, <3>4, <3>5, <2>4 DEF Understood
    <3>7. Held(nread)'
      BY <3>4, <3>5, <2>1 DEF Held, Holds
    <3>8. Base(k)' = Base(parsed.request)
      <4>1. k' = parsed.request
        BY <2>1 DEF k
      <4> QED
        BY <4>1, <2>1 DEF Base, Request
    <3>9. pos' - nread' = pos - nread
      BY <3>5, <2>1
    <3>10. pc' = "route" => ~parsed.error /\ parsed.seen = HEADER
      BY <2>7 DEF Finished
    <3>11. ~parsed.error /\ pc' = "header" => parsed.seen = all
      BY <3>6, <2>7 DEF Finished
    <3>12. pc' = "route" => nread' >= HEADER
      <4> SUFFICES ASSUME pc' = "route" PROVE nread' >= HEADER
        OBVIOUS
      <4>1. parsed.seen = HEADER /\ (parsed.seen = all \/ HEADER <= all)
        BY <3>6, <3>10
      <4> QED
        BY <4>1, <2>1, <2>2, <1>1
    <3>13. pc' = "header" => /\ nparsed' = nread' /\ loop'.at = nread'
                             /\ parse'.seen > 0 /\ ~parse'.error => Base(k)' = pos' - nread'
                             /\ ~parse'.error => parse'.seen = nread'
      BY <3>6, <3>8, <3>9, <3>11, <2>1, <2>7
    <3>14. pc' = "route" => Base(k)' = pos' - nread'
      BY <3>6, <3>8, <3>9, <3>10
    <3>15. payloads' \in Seq(Complete')
      BY <3>2, <2>1, <2>6
    <3>16. Undisturbed'
      BY <3>7, <3>12, <3>13, <3>14, <3>15, <2>7 DEF Undisturbed
    <3> QED
      BY <3>6, <3>10, <3>16, <2>4
  <2>11. ASSUME ~oversize' /\ ~client'.pipelines
         PROVE  Waiting'
    <3>1. ~oversize /\ ~client.pipelines /\ ~Disturbed'
      BY <2>1, <2>5, <2>11 DEF Disturbed
    <3>2. pos <= Limit /\ Behind(pos - nread) /\ Whole(upstream)
      BY <3>1, <1>2 DEF RequestInv, Waiting
    <3>3. pos' - nread' = pos - nread /\ pos - nread \in Int
      <4>1. pos' = pos + n /\ nread' = nread + n /\ n \in Nat
        BY <2>1, <2>5, <2>11, <1>5 DEF all, n
      <4> QED
        BY <4>1, <1>1
    <3>4. Behind(pos - nread)'
      BY <3>2, <3>3, <2>1 DEF Behind, Base, EndOf, Total, Request
    <3>5. pc' = "route" => answered < Len(client.requests) /\ parsed.request = answered + 1
      BY <3>1, <3>2, <3>3, <2>10, <1>1, NextRequest
    <3>6. pc' = "route" => answered' < Len(client.requests)' /\ k' = answered' + 1
      BY <3>5, <2>1 DEF k
    <3>7. pos' <= Limit' /\ Whole(upstream)'
      BY <3>2, <2>1, <2>5, <2>6 DEF Whole
    <3> QED
      BY <3>4, <3>6, <3>7, <2>7 DEF Waiting, Requesting
  <2> QED
    BY <2>5, <2>8, <2>9, <2>10, <2>11 DEF RequestInv
<1> QED
  BY <1>6, <1>7

-----------------------------------------------------------------------------
(* A task that is busy with a request. *)
LEMMA AtRequest ==
    ASSUME RequestInv, pc \in Requesting
    PROVE  /\ k \in Numbers /\ Base(k) \in Nat /\ Request(k).content \in Nat /\ Total(k) \in Nat
           /\ Total(k) = HEADER + Request(k).content /\ EndOf(k) = Base(k) + Total(k) /\ EndOf(k) \in Nat
           /\ EndOf(k) = Base(k) + HEADER + Request(k).content
           /\ ~oversize /\ ~client.pipelines =>
                /\ ~Disturbed
                /\ answered < Len(client.requests) /\ k = answered + 1 /\ pos <= EndOf(k) /\ Whole(upstream)
<1>1. k \in Numbers /\ client \in Clients /\ answered \in Nat
  BY RequestInvFacts
<1>2. /\ Base(k) \in Nat /\ Request(k).content \in Nat /\ Total(k) \in Nat
      /\ Total(k) = HEADER + Request(k).content /\ EndOf(k) = Base(k) + Total(k) /\ EndOf(k) \in Nat
      /\ EndOf(k) = Base(k) + HEADER + Request(k).content
  BY <1>1, RequestFacts
<1>3. ASSUME ~oversize, ~client.pipelines
      PROVE  /\ ~Disturbed
             /\ answered < Len(client.requests) /\ k = answered + 1 /\ pos <= EndOf(k) /\ Whole(upstream)
  <2>1. answered < Len(client.requests) /\ k = answered + 1 /\ pos <= Limit /\ Whole(upstream)
    BY <1>3 DEF RequestInv, Waiting
  <2>2. Len(client.requests) \in Nat
    BY <1>1, RequestFacts
  <2>3. Limit = EndOf(answered + 1)
    BY <2>1, <2>2, <1>1, <1>3 DEF Limit
  <2> QED
    BY <2>1, <2>3, <1>3 DEF Disturbed
<1> QED
  BY <1>1, <1>2, <1>3

(* What is known of the buffer when the request is routed. *)
LEMMA AtRoute ==
    ASSUME RequestInv, pc = "route"
    PROVE  /\ pc \in Requesting /\ early = nread - HEADER
           /\ ~Disturbed => /\ Holds(buf, pos, nread) /\ Base(k) = pos - nread /\ nread >= HEADER
                            /\ Base(k) + nread = pos /\ Base(k) < pos /\ payloads \in Seq(Complete)
<1>1. pc \in Requesting
  BY DEF Requesting
<1>2. pos \in Nat /\ nread \in Nat /\ Places /\ HEADER \in Nat \ {0}
  BY RequestInvFacts
<1>3. ASSUME ~Disturbed
      PROVE  /\ Holds(buf, pos, nread) /\ Base(k) = pos - nread /\ nread >= HEADER
             /\ Base(k) + nread = pos /\ Base(k) < pos /\ payloads \in Seq(Complete)
  <2>1. Holds(buf, pos, nread) /\ Base(k) = pos - nread /\ nread >= HEADER /\ payloads \in Seq(Complete)
    BY <1>3 DEF RequestInv, Undisturbed, Held
  <2>2. PICK b \in Nat : b = Base(k)
    BY <1>1, AtRequest
  <2>3. b = pos - nread
    BY <2>1, <2>2
  <2>4. b + nread = pos /\ b < pos
    BY <2>1, <2>3, <1>2
  <2> QED
    BY <2>1, <2>2, <2>4
<1> QED
  BY <1>1, <1>2, <1>3 DEF Places

(* An answer without another read. *)
LEMMA Answered ==
    ASSUME RequestInv, pc \in Requesting, NothingTaken, client' = client, buf' = buf, early' = early,
           answered' = answered + 1, connection_parse(0), upstream' \in Seq(Nat), upstream # <<>> => upstream' # <<>>,
           ~Disturbed => payloads' \in Seq(Complete) /\ Base(k) < pos,
           ~oversize /\ ~client.pipelines => Whole(upstream')
    PROVE  RequestInv'
<1>1. RequestTypes /\ InOrder /\ early \in Int /\ IsBuffer(buf)
  BY RequestInvFacts
<1>2. Progress(0) /\ oversize' = oversize
  BY <1>1, TakingNothing
<1>3. IsBuffer(buf') /\ early' \in Int
  BY <1>1
<1>4. ~oversize' /\ ~client.pipelines =>
                answered < Len(client.requests) /\ Base(answered + 1) < pos /\ Whole(upstream')
  BY <1>2, AtRequest
<1>5. ~Disturbed => payloads' \in Seq(Complete)
  OBVIOUS
<1>6. 0 \in Nat
  OBVIOUS
<1> QED
  BY <1>2, <1>3, <1>4, <1>5, <1>6, Delivered

(* A body that is at hand in full and delivered keeps the invariant. *)
LEMMA DeliveredAtOnce ==
    ASSUME RequestInv, pc \in Requesting, NothingTaken, client' = client, buf' = buf, early' = early,
           upstream' = upstream, NEW b, Deliver(b),
           ~Disturbed => payloads \in Seq(Complete) /\ Base(k) < pos /\ b = Body(k)
    PROVE  RequestInv'
<1>1. payloads' = Append(payloads, [request |-> k, content |-> b]) /\ answered' = answered + 1 /\ connection_parse(0)
  BY DEF Deliver
<1>2. k \in Numbers /\ (~oversize /\ ~client.pipelines => Whole(upstream))
  BY AtRequest
<1>3. upstream \in Seq(Nat)
  BY RequestInvFacts
<1>4. ~Disturbed => payloads' \in Seq(Complete)
  BY <1>1, <1>2, PayloadAdded
<1> QED
  BY <1>1, <1>2, <1>3, <1>4, Answered

(* Requests without content go to the handler without another read. *)
LEMMA EmptyBodyStep ==
    ASSUME RequestInv, EmptyBody
    PROVE  RequestInv'
<1>1. /\ pc = "route" /\ Request(k).content = 0 /\ Deliver(<<>>) /\ NothingTaken
      /\ client' = client /\ buf' = buf /\ early' = early /\ upstream' = upstream
  BY DEF EmptyBody, ToHandler
<1>2. pc \in Requesting /\ (~Disturbed => Base(k) < pos /\ payloads \in Seq(Complete))
  BY <1>1, AtRoute
<1>3. Body(k) = <<>>
  <2>1. Base(k) \in Nat /\ HEADER \in Nat /\ EndOf(k) = Base(k) + HEADER + Request(k).content
    BY <1>2, AtRequest, RequestInvFacts
  <2>2. PICK a \in Nat : a = Base(k) + HEADER
    BY <2>1
  <2>3. EndOf(k) = a + 0 /\ a + 0 = a
    BY <2>1, <2>2, <1>1
  <2>4. Body(k) = Bytes(a + 1, a + 0)
    BY <2>2, <2>3 DEF Body
  <2>5. Bytes(a + 1, a + 0) \in Seq(Nat) /\ Len(Bytes(a + 1, a + 0)) = 0
    BY BytesAre
  <2> QED
    BY <2>4, <2>5, EmptySeq
<1> QED
  BY <1>1, <1>2, <1>3, DeliveredAtOnce

(* The whole body came with the head. *)
LEMMA BodyInBufferStep ==
    ASSUME RequestInv, BodyInBuffer
    PROVE  RequestInv'
<1>1. /\ pc = "route" /\ nread >= Total(k) /\ Deliver(Content) /\ NothingTaken
      /\ client' = client /\ buf' = buf /\ early' = early /\ upstream' = upstream
  BY DEF BodyInBuffer, ToHandler
<1>2. /\ pc \in Requesting
      /\ ~Disturbed => /\ Base(k) < pos /\ payloads \in Seq(Complete) /\ Holds(buf, pos, nread)
                       /\ Base(k) + nread = pos
  BY <1>1, AtRoute
<1>3. k \in Numbers /\ client \in Clients /\ pos \in Nat /\ nread \in Nat /\ Total(k) \in Nat
  BY <1>2, AtRequest, RequestInvFacts
<1>4. Total(k) <= nread
  BY <1>1, <1>3
<1>5. ~Disturbed => Content = Body(k)
  BY <1>2, <1>3, <1>4, ContentAtHand
<1> QED
  BY <1>1, <1>2, <1>5, DeliveredAtOnce

(* The last part of the body has come, and the handler gets it. *)
LEMMA BodyReadStep ==
    ASSUME RequestInv, BodyRead
    PROVE  RequestInv'
<1>1. /\ pc = "body" /\ loop.remaining = 0 /\ Deliver(Content) /\ NothingTaken
      /\ client' = client /\ buf' = buf /\ early' = early /\ upstream' = upstream
  BY DEF BodyRead
<1>2. pc \in Requesting
  BY <1>1 DEF Requesting
<1>3. /\ k \in Numbers /\ client \in Clients /\ pos \in Nat /\ nread \in Nat /\ loop.at \in Nat /\ Places
      /\ HEADER \in Nat \ {0}
  BY <1>2, RequestInvFacts
<1>4. Base(k) \in Nat /\ Request(k).content \in Nat /\ Total(k) = HEADER + Request(k).content
  BY <1>2, AtRequest
<1>5. ASSUME ~Disturbed
      PROVE  payloads \in Seq(Complete) /\ Base(k) < pos /\ Content = Body(k)
  <2>1. /\ payloads \in Seq(Complete) /\ pos = Base(k) + loop.at /\ loop.at >= nread /\ nread >= HEADER
        /\ Holds(buf, pos, loop.at)
    BY <1>1, <1>5 DEF RequestInv, Undisturbed, Held
  <2>2. loop.at + loop.remaining = nread + Request(k).content
    BY <1>1, <1>3 DEF Places
  <2>3. PICK a \in Nat, b \in Nat, z \in Nat, h \in Nat : /\ a = loop.at /\ b = Base(k) /\ z = Request(k).content
                                                          /\ h = HEADER
    BY <1>3, <1>4
  <2>4. a + 0 = nread + z /\ nread >= h /\ h # 0 /\ pos = b + a /\ Total(k) = h + z
    BY <2>1, <2>2, <2>3, <1>1, <1>3, <1>4
  <2>5. h + z <= a /\ b < pos /\ b + a = pos
    BY <2>4, <1>3
  <2>6. Total(k) <= a /\ Base(k) < pos /\ Base(k) + a = pos
    BY <2>3, <2>4, <2>5
  <2>7. Content = Body(k)
    BY <2>1, <2>3, <2>6, <1>3, ContentAtHand
  <2> QED
    BY <2>1, <2>6, <2>7
<1> QED
  BY <1>1, <1>2, <1>5, DeliveredAtOnce

(* The last part of an upload was written to its file. *)
LEMMA UploadDoneStep ==
    ASSUME RequestInv, UploadDone
    PROVE  RequestInv'
<1>1. pc = "upload" /\ NothingTaken
  BY DEF UploadDone
<1>2. pc \in Requesting
  BY <1>1 DEF Requesting
<1>3. Progress(0) /\ 0 \in Nat
  BY <1>1, RequestInvFacts, TakingNothing
<1>4. CASE loop.remaining = 0
  <2>1. Deliver(file) /\ client' = client /\ buf' = buf /\ early' = early /\ upstream' = upstream
    BY <1>4 DEF UploadDone
  <2>2. ASSUME ~Disturbed
        PROVE  payloads \in Seq(Complete) /\ Base(k) < pos /\ file = Body(k)
    <3>1. /\ payloads \in Seq(Complete) /\ Base(k) + HEADER <= pos /\ file = Bytes(Base(k) + HEADER + 1, pos)
          /\ loop.remaining = EndOf(k) - pos
      BY <1>1, <2>2 DEF RequestInv, Undisturbed
    <3>2. Base(k) \in Nat /\ EndOf(k) \in Nat /\ HEADER \in Nat \ {0} /\ pos \in Nat
      BY <1>2, AtRequest, RequestInvFacts
    <3>3. PICK b \in Nat, e \in Nat, h \in Nat \ {0} : b = Base(k) /\ e = EndOf(k) /\ h = HEADER
      BY <3>2
    <3>4. e = pos /\ b < pos
      BY <3>1, <3>2, <3>3, <1>4
    <3>5. file = Body(k)
      BY <3>1, <3>3, <3>4 DEF Body
    <3> QED
      BY <3>1, <3>3, <3>4, <3>5
  <2> QED
    BY <2>1, <2>2, <1>1, <1>2, DeliveredAtOnce
<1>5. CASE loop.remaining # 0
  <2>1. Close
    BY <1>5 DEF UploadDone
  <2> QED
    BY <2>1, <1>3, Closed
<1> QED
  BY <1>4, <1>5

(* A directory answers without reading the body. *)
LEMMA DirectoryStep ==
    ASSUME RequestInv, connection_http_to_directory
    PROVE  RequestInv'
<1>1. /\ pc = "route" /\ answered' = answered + 1 /\ connection_parse(0) /\ NothingTaken
      /\ client' = client /\ buf' = buf /\ early' = early /\ payloads' = payloads /\ upstream' = upstream
  BY DEF connection_http_to_directory
<1>2. pc \in Requesting /\ (~Disturbed => Base(k) < pos /\ payloads \in Seq(Complete))
  BY <1>1, AtRoute
<1>3. upstream \in Seq(Nat) /\ (~oversize /\ ~client.pipelines => Whole(upstream))
  BY <1>2, AtRequest, RequestInvFacts
<1> QED
  BY <1>1, <1>2, <1>3, Answered

(* A body that is too large and has no file to go to closes the connection. *)
LEMMA NoTempStoreStep ==
    ASSUME RequestInv, NoTempStore
    PROVE  RequestInv'
<1>1. NothingTaken /\ Close
  BY DEF NoTempStore
<1>2. Progress(0) /\ 0 \in Nat
  BY <1>1, RequestInvFacts, TakingNothing
<1> QED
  BY <1>1, <1>2, Closed

(* What is sent to a proxy's backend from the buffer. *)
LEMMA SentTypes ==
    ASSUME IsBuffer(buf), upstream \in Seq(Nat), NEW n \in Nat
    PROVE  Sent(n) \in Seq(Nat) /\ (upstream # <<>> \/ n > 0 => Sent(n) # <<>>)
<1> DEFINE t == [i \in 1 .. n |-> Memory(i - 1)]
<1>1. t \in Seq(Nat) /\ Len(t) = n
  <2>1. \A i : Memory(i) \in Nat
    BY MemoryTypes DEF Memory
  <2> QED
    BY <2>1
<1>2. Sent(n) = upstream \o t
  BY DEF Sent
<1> HIDE DEF t
<1>3. Sent(n) \in Seq(Nat) /\ Len(Sent(n)) = Len(upstream) + n
  BY <1>1, <1>2, ConcatProperties
<1>4. Len(upstream) \in Nat /\ (upstream # <<>> => Len(upstream) > 0)
  BY EmptySeq
<1>5. upstream # <<>> \/ n > 0 => Len(Sent(n)) # 0
  BY <1>3, <1>4
<1> QED
  BY <1>3, <1>5, EmptySeq

(* What the proxy sends out of the buffer continues a whole request. *)
LEMMA SentWhole ==
    ASSUME IsBuffer(buf), upstream \in Seq(Nat), Whole(upstream), pos \in Nat, NEW a \in Nat, Holds(buf, pos, a),
           k \in Numbers, Request(k).path = "proxy", Base(k) \in Nat, Base(k) + a = pos,
           NEW n \in Nat, n <= a, n > 0
    PROVE  Whole(Sent(n)) /\ Sent(n)[Len(Sent(n))] = Base(k) + n
<1>1. PICK b \in Nat : b = Base(k)
  OBVIOUS
<1>2. [i \in 1 .. n |-> Memory(i - 1)] = [i \in 1 .. n |-> b + i]
  <2> SUFFICES ASSUME NEW i \in 1 .. n PROVE Memory(i - 1) = b + i
    OBVIOUS
  <2>1. i - 1 \in 0 .. a - 1 /\ b + a = pos
    BY <1>1
  <2>2. i - 1 \in DOMAIN buf /\ buf[i - 1] = pos - a + 1 + (i - 1)
    BY <2>1 DEF Holds
  <2>3. pos - a + 1 + (i - 1) = b + i
    BY <2>1
  <2> QED
    BY <2>2, <2>3 DEF Memory
<1>3. Sent(n) = upstream \o [i \in 1 .. n |-> b + i]
  BY <1>2 DEF Sent
<1>4. b + 1 \in ProxyStarts
  BY <1>1 DEF ProxyStarts
<1> DEFINE t == [i \in 1 .. n |-> b + i]
<1>5. t = [i \in 1 .. n |-> b + i]
  OBVIOUS
<1> HIDE DEF t
<1>6. Whole(upstream \o t) /\ (upstream \o t)[Len(upstream \o t)] = b + n
  BY <1>4, <1>5, WholeGrows
<1> QED
  BY <1>1, <1>3, <1>5, <1>6

(* proxy_deliver with the whole request in the buffer. *)
LEMMA ProxyAllStep ==
    ASSUME RequestInv, proxy_deliver_all
    PROVE  RequestInv'
<1>1. /\ pc = "route" /\ Request(k).path = "proxy" /\ Total(k) = nread /\ upstream' = Sent(Total(k))
      /\ answered' = answered + 1 /\ connection_parse(0) /\ NothingTaken
      /\ client' = client /\ buf' = buf /\ early' = early /\ payloads' = payloads
  BY DEF proxy_deliver_all, ToProxy
<1>2. /\ pc \in Requesting
      /\ ~Disturbed => /\ Base(k) < pos /\ payloads \in Seq(Complete) /\ Holds(buf, pos, nread)
                       /\ Base(k) + nread = pos
  BY <1>1, AtRoute
<1>3. /\ k \in Numbers /\ pos \in Nat /\ nread \in Nat /\ Total(k) \in Nat /\ Total(k) = HEADER + Request(k).content
      /\ HEADER \in Nat \ {0} /\ Request(k).content \in Nat /\ IsBuffer(buf) /\ upstream \in Seq(Nat) /\ Base(k) \in Nat
      /\ ~oversize /\ ~client.pipelines => ~Disturbed /\ Whole(upstream)
  BY <1>2, AtRequest, RequestInvFacts
<1>4. nread > 0 /\ nread <= nread /\ upstream' = Sent(nread)
  BY <1>1, <1>3
<1>5. upstream' \in Seq(Nat) /\ (upstream # <<>> => upstream' # <<>>)
  BY <1>3, <1>4, SentTypes
<1>6. ~oversize /\ ~client.pipelines => Whole(upstream')
  BY <1>1, <1>2, <1>3, <1>4, SentWhole
<1> QED
  BY <1>1, <1>2, <1>5, <1>6, Answered

(* Bytes that a pipelining client sent too early are moved, but not taken as read. *)
LEMMA ProxyMoreStep ==
    ASSUME RequestInv, proxy_deliver_more
    PROVE  RequestInv'
<1>1. /\ pc = "route" /\ Request(k).path = "proxy" /\ Total(k) < nread /\ upstream' = Sent(Total(k))
      /\ buf' = [i \in DOMAIN buf |-> IF i < nread - Total(k) THEN Memory(Total(k) + i) ELSE buf[i]]
      /\ answered' = answered + 1 /\ connection_parse(nread - Total(k)) /\ NothingTaken
      /\ client' = client /\ early' = early /\ payloads' = payloads
  BY DEF proxy_deliver_more, ToProxy
<1>2. /\ pc \in Requesting
      /\ ~Disturbed => Base(k) + nread = pos
  BY <1>1, AtRoute
<1>3. /\ k \in Numbers /\ client \in Clients /\ pos \in Nat /\ nread \in Nat /\ Total(k) \in Nat
      /\ Total(k) = HEADER + Request(k).content /\ early \in Int /\ answered \in Nat
      /\ HEADER \in Nat \ {0} /\ Request(k).content \in Nat /\ IsBuffer(buf) /\ upstream \in Seq(Nat) /\ Base(k) \in Nat
      /\ EndOf(k) = Base(k) + Total(k) /\ EndOf(k) \in Nat /\ BUFFER_SIZE \in Nat \ {0}
      /\ ~oversize /\ ~client.pipelines => ~Disturbed /\ pos <= EndOf(k)
      /\ RequestTypes /\ InOrder
  BY <1>2, AtRequest, RequestInvFacts
<1>4. Progress(0) /\ oversize' = oversize
  BY <1>1, <1>3, TakingNothing
<1>5. /\ pos' \in Nat /\ ssl_buff' \in Stashes /\ oversize' \in BOOLEAN /\ InOrder'
  BY <1>4 DEF Progress
<1>6. oversize \/ client.pipelines
  <2> SUFFICES ASSUME ~oversize, ~client.pipelines PROVE FALSE
    OBVIOUS
  <2>1. Base(k) + nread = pos /\ pos <= EndOf(k)
    BY <1>2, <1>3
  <2>2. PICK b \in Nat, t \in Nat : b = Base(k) /\ t = Total(k)
    BY <1>3
  <2>3. b + nread = pos /\ pos <= b + t /\ t < nread
    BY <2>1, <2>2, <1>1, <1>3
  <2> QED
    BY <2>3, <1>3
<1>7. Total(k) > 0
  BY <1>3
<1>8. upstream' \in Seq(Nat) /\ upstream' # <<>>
  BY <1>1, <1>3, <1>7, SentTypes
<1>9. Disturbed' /\ (oversize' \/ client'.pipelines)
  BY <1>1, <1>4, <1>6, <1>8 DEF Disturbed
<1>10. /\ pc' = "header" /\ nread' = nread - Total(k) /\ nparsed' = 0 /\ parse' = Fresh
       /\ loop' = [remaining |-> BUFFER_SIZE - 1, at |-> 0]
  BY <1>1 DEF connection_parse, StartHeader
<1>11. nread' \in Nat
  BY <1>1, <1>3, <1>10
<1>12. /\ parse' \in RequestParsers /\ parse'.seen = 0
       /\ loop' \in [remaining : Int, at : Nat] /\ loop'.at = 0 /\ loop'.remaining = BUFFER_SIZE - 1
  BY <1>3, <1>10 DEF Fresh, RequestParsers
<1>13. IsBuffer(buf')
  <2>1. DOMAIN buf' = DOMAIN buf
    BY <1>1
  <2>2. ASSUME NEW i \in DOMAIN buf PROVE buf'[i] \in Nat
    <3>1. Memory(Total(k) + i) \in Nat /\ buf[i] \in Nat
      BY <1>3, MemoryTypes DEF Memory, IsBuffer
    <3> QED
      BY <3>1, <1>1
  <2>3. PICK top \in DOMAIN buf : BUFFER_SIZE <= top /\ DOMAIN buf = 0 .. top
    BY <1>3 DEF IsBuffer
  <2> QED
    BY <2>1, <2>2, <2>3 DEF IsBuffer
<1>14. RequestTypes'
  <2>1. client' \in Clients' /\ parse' \in RequestParsers' /\ ssl_buff' \in Stashes' /\ IsBuffer(buf)'
    BY <1>1, <1>3, <1>5, <1>12, <1>13 DEF Clients, RequestParsers, Stashes, IsBuffer
  <2>2. ~(parse'.seen > 0) /\ answered' \in Nat /\ nparsed' \in Nat /\ early' \in Int
    BY <1>1, <1>3, <1>10, <1>12
  <2> QED
    BY <2>1, <2>2, <1>5, <1>8, <1>10, <1>11, <1>12 DEF RequestTypes, Requesting
<1>15. Places'
  <2>1. loop'.at + loop'.remaining = BUFFER_SIZE - 1
    BY <1>3, <1>12
  <2> QED
    BY <2>1, <1>10 DEF Places, Requesting
<1> QED
  BY <1>5, <1>9, <1>14, <1>15 DEF RequestInv

-----------------------------------------------------------------------------
(* A task that goes on with its request. *)
LEMMA GoesOn ==
    ASSUME RequestInv, pc \in Requesting, client' = client, parse' = parse, answered' = answered,
           payloads' = payloads, early' = early, NEW n \in Nat, Progress(n), IsBuffer(buf'),
           nread' \in Nat, nparsed' \in Nat, loop' \in [remaining : Int, at : Nat],
           pc' \in {"body", "upload", "stream", "overrun"},
           upstream' \in Seq(Nat), upstream # <<>> => upstream' # <<>>,
           pc' = "body" => /\ early = nread' - HEADER /\ loop'.remaining >= 0
                           /\ loop'.at + loop'.remaining = nread' + Request(k).content
                           /\ 0 .. Total(k) - 1 \subseteq DOMAIN buf',
           pc' = "overrun" => early > 0,
           ~Disturbed /\ ~oversize' =>
             /\ pc' = "body" => /\ pos' = Base(k) + loop'.at /\ loop'.at >= nread' /\ nread' >= HEADER
                                /\ Holds(buf', pos', loop'.at)
             /\ pc' = "upload" => /\ Base(k) + HEADER <= pos' /\ file' = Bytes(Base(k) + HEADER + 1, pos')
                                  /\ loop'.remaining = EndOf(k) - pos'
             /\ pc' = "stream" => loop'.remaining = EndOf(k) - pos' /\ Base(k) < pos',
           ~oversize' /\ ~client.pipelines =>
             /\ Whole(upstream')
             /\ pc' = "stream" => upstream' # <<>> /\ upstream'[Len(upstream')] = pos'
    PROVE  RequestInv'
<1>1. /\ client \in Clients /\ parse \in RequestParsers /\ (parse.seen > 0 => parse.request \in Numbers)
      /\ early \in Int /\ answered \in Nat /\ Places
  BY RequestInvFacts
<1>2. /\ pos' \in Nat /\ ssl_buff' \in Stashes /\ oversize' \in BOOLEAN /\ (oversize => oversize')
      /\ InOrder' /\ (pos <= Limit => pos' <= Limit)
  BY DEF Progress
<1>3. /\ Numbers' = Numbers /\ Complete' = Complete /\ ProxyStarts' = ProxyStarts /\ Limit' = Limit
  BY SameRequests
<1>4. Base(k)' = Base(k) /\ EndOf(k)' = EndOf(k) /\ Total(k)' = Total(k) /\ Request(k)' = Request(k) /\ k' = k
  BY SameRequest
<1>5. RequestTypes'
  <2>1. client' \in Clients' /\ parse' \in RequestParsers' /\ ssl_buff' \in Stashes' /\ IsBuffer(buf)'
    BY <1>1, <1>2 DEF Clients, RequestParsers, Stashes, IsBuffer
  <2> QED
    BY <2>1, <1>1, <1>2, <1>3 DEF RequestTypes, Requesting
<1>6. Places'
  <2>1. parse'.seen = HEADER
    BY <1>1 DEF Places
  <2> QED
    BY <2>1, <1>4 DEF Places, Requesting
<1>7. ASSUME ~Disturbed'
      PROVE  Undisturbed'
  <2>1. ~Disturbed /\ ~oversize'
    BY <1>7, <1>2 DEF Disturbed
  <2>2. payloads' \in Seq(Complete')
    BY <2>1, <1>3 DEF RequestInv, Undisturbed
  <2>3. pc' = "body" => Held(loop.at)'
    BY <2>1 DEF Held, Holds
  <2> QED
    BY <2>1, <2>2, <2>3, <1>4 DEF Undisturbed
<1>8. ASSUME ~oversize' /\ ~client'.pipelines
      PROVE  Waiting'
  <2>1. ~oversize /\ ~client.pipelines
    BY <1>8, <1>2
  <2>2. pos <= Limit /\ answered < Len(client.requests) /\ k = answered + 1
    BY <2>1 DEF RequestInv, Waiting
  <2>3. Whole(upstream)' /\ (pc' = "stream" => upstream' # <<>> /\ upstream'[Len(upstream')] = pos')
    BY <1>8, <2>1, <1>3 DEF Whole
  <2> QED
    BY <2>2, <2>3, <1>2, <1>3, <1>4 DEF Waiting
<1> QED
  BY <1>2, <1>5, <1>6, <1>7, <1>8 DEF RequestInv

(* The body is longer than what came with the head. *)
LEMMA StartBodyStep ==
    ASSUME RequestInv, StartBody
    PROVE  RequestInv'
<1>1. /\ pc = "route" /\ nread < Total(k)
      /\ buf' = IF Total(k) > BUFFER_SIZE THEN Grown ELSE buf
      /\ pc' = "body" /\ loop' = [remaining |-> Request(k).content, at |-> nread] /\ NothingTaken
      /\ client' = client /\ nread' = nread /\ nparsed' = nparsed /\ parse' = parse /\ early' = early
      /\ answered' = answered /\ payloads' = payloads /\ upstream' = upstream
  BY DEF StartBody, ToHandler, RemainingBody
<1>2. /\ pc \in Requesting /\ early = nread - HEADER
      /\ ~Disturbed => /\ Holds(buf, pos, nread) /\ Base(k) + nread = pos /\ nread >= HEADER
  BY <1>1, AtRoute
<1>3. /\ k \in Numbers /\ pos \in Nat /\ nread \in Nat /\ nparsed \in Nat /\ Total(k) \in Nat
      /\ Request(k).content \in Nat /\ IsBuffer(buf) /\ upstream \in Seq(Nat) /\ BUFFER_SIZE \in Nat \ {0}
      /\ RequestTypes /\ InOrder
      /\ ~oversize /\ ~client.pipelines => Whole(upstream)
  BY <1>2, AtRequest, RequestInvFacts
<1>4. Progress(0) /\ pos' = pos /\ oversize' = oversize /\ 0 \in Nat
  BY <1>1, <1>3, TakingNothing
<1>5. loop' \in [remaining : Int, at : Nat] /\ loop'.remaining = Request(k).content /\ loop'.at = nread
  BY <1>1, <1>3
<1>6. PICK top \in DOMAIN buf : BUFFER_SIZE <= top /\ DOMAIN buf = 0 .. top /\ top \in Nat
  <2>1. PICK top \in DOMAIN buf : BUFFER_SIZE <= top /\ DOMAIN buf = 0 .. top
    BY <1>3 DEF IsBuffer
  <2>2. top \in Nat
    BY <2>1
  <2> QED
    BY <2>1, <2>2
<1>7. /\ IsBuffer(buf') /\ 0 .. Total(k) - 1 \subseteq DOMAIN buf'
      /\ \A i \in 0 .. nread - 1 : i \in DOMAIN buf => i \in DOMAIN buf' /\ buf'[i] = buf[i]
  <2>1. CASE Total(k) > BUFFER_SIZE
    <3>1. buf' = [i \in 0 .. Total(k) - 1 |-> Memory(i)]
      BY <2>1, <1>1 DEF Grown
    <3>2. PICK t \in Nat : t = Total(k)
      BY <1>3
    <3>3. t - 1 \in 0 .. t - 1 /\ BUFFER_SIZE <= t - 1 /\ 0 .. nread - 1 \subseteq 0 .. t - 1
      BY <3>2, <2>1, <1>1, <1>3
    <3>4. DOMAIN buf' = 0 .. t - 1 /\ \A i \in 0 .. t - 1 : buf'[i] = Memory(i)
      BY <3>1, <3>2
    <3>5. \A i : Memory(i) \in Nat
      BY <1>3, MemoryTypes DEF Memory
    <3>6. IsBuffer(buf')
      BY <3>3, <3>4, <3>5 DEF IsBuffer
    <3>7. \A i \in 0 .. nread - 1 : i \in DOMAIN buf => i \in DOMAIN buf' /\ buf'[i] = buf[i]
      BY <3>3, <3>4 DEF Memory
    <3> QED
      BY <3>2, <3>4, <3>6, <3>7
  <2>2. CASE ~(Total(k) > BUFFER_SIZE)
    <3>1. buf' = buf
      BY <2>2, <1>1
    <3>2. 0 .. Total(k) - 1 \subseteq DOMAIN buf
      BY <2>2, <1>3, <1>6
    <3> QED
      BY <3>1, <3>2, <1>3
  <2> QED
    BY <2>1, <2>2
<1>8. ~Disturbed => /\ pos' = Base(k) + loop'.at /\ loop'.at >= nread' /\ nread' >= HEADER
                    /\ Holds(buf', pos', loop'.at)
  <2> SUFFICES ASSUME ~Disturbed
               PROVE  /\ pos' = Base(k) + loop'.at /\ loop'.at >= nread' /\ nread' >= HEADER
                      /\ Holds(buf', pos', loop'.at)
    OBVIOUS
  <2>1. Holds(buf', pos, nread)
    BY <1>2, <1>7 DEF Holds
  <2> QED
    BY <2>1, <1>1, <1>2, <1>3, <1>4, <1>5
<1>9. loop'.at + loop'.remaining = nread' + Request(k).content /\ loop'.remaining >= 0
  BY <1>1, <1>3, <1>5
<1>10. early = nread' - HEADER /\ nread' \in Nat /\ nparsed' \in Nat /\ upstream' \in Seq(Nat)
  BY <1>1, <1>2, <1>3
<1>11. ~oversize' /\ ~client.pipelines => Whole(upstream')
  BY <1>1, <1>3, <1>4
<1> QED
  BY <1>1, <1>2, <1>4, <1>5, <1>7, <1>8, <1>9, <1>10, <1>11, GoesOn

(* connection_http_to_handler reads the next part of a body. *)
LEMMA ReadBodyStep ==
    ASSUME RequestInv, ReadBody
    PROVE  RequestInv'
<1>1. pc = "body" /\ loop.remaining > 0
  BY DEF ReadBody
<1>2. pc \in Requesting
  BY <1>1 DEF Requesting
<1>3. /\ k \in Numbers /\ pos \in Nat /\ nread \in Nat /\ nparsed \in Nat /\ Total(k) \in Nat /\ early \in Int
      /\ Request(k).content \in Nat /\ IsBuffer(buf) /\ upstream \in Seq(Nat) /\ HEADER \in Nat \ {0}
      /\ Total(k) = HEADER + Request(k).content /\ Base(k) \in Nat
      /\ RequestTypes /\ InOrder /\ Places /\ loop.at \in Nat /\ loop.remaining \in Int /\ oversize \in BOOLEAN
      /\ ~oversize /\ ~client.pipelines => Whole(upstream)
  BY <1>2, AtRequest, RequestInvFacts
<1>4. PICK o \in recv(loop.at, loop.remaining) :
        /\ Taken(o)
        /\ IF o.bytes = <<>> THEN Close /\ UNCHANGED fd0
           ELSE /\ pc' = IF loop.at + Len(o.bytes) - 1 \in DOMAIN buf THEN "body" ELSE "overrun"
                /\ buf' = Write(loop.at, o.bytes)
                /\ loop' = [remaining |-> loop.remaining - Len(o.bytes), at |-> loop.at + Len(o.bytes)]
                /\ UNCHANGED <<client, nread, nparsed, parse, early, answered, payloads, upstream, file, fd0>>
  BY DEF ReadBody
<1> DEFINE n == Len(o.bytes)
<1>5. Progress(n) /\ Piece(o.bytes, loop.remaining)
  BY <1>3, <1>4, Taking
<1>6. /\ o.bytes \in Seq(Nat) /\ n \in Nat /\ (o.bytes = <<>> <=> n = 0)
      /\ n <= (IF loop.remaining > 0 THEN loop.remaining ELSE 0)
      /\ ~oversize' => o.bytes = [i \in 1 .. n |-> pos + i]
  BY <1>5 DEF Piece
<1>7. CASE o.bytes = <<>>
  BY <1>4, <1>5, <1>6, <1>7, Closed
<1>8. CASE o.bytes # <<>>
  <2>1. /\ pc' = IF loop.at + n - 1 \in DOMAIN buf THEN "body" ELSE "overrun"
        /\ buf' = Write(loop.at, o.bytes)
        /\ loop' = [remaining |-> loop.remaining - n, at |-> loop.at + n]
        /\ client' = client /\ nread' = nread /\ nparsed' = nparsed /\ parse' = parse /\ early' = early
        /\ answered' = answered /\ payloads' = payloads /\ upstream' = upstream
    BY <1>4, <1>8
  <2>2. IsBuffer(buf') /\ DOMAIN buf' = DOMAIN buf
    BY <2>1, <1>3, <1>6, WriteTypes
  <2> DEFINE a == loop.at
  <2> DEFINE r == loop.remaining
  <2>3. /\ early = nread - HEADER /\ a + r = nread + Request(k).content /\ 0 .. Total(k) - 1 \subseteq DOMAIN buf
        /\ a \in Nat /\ r \in Int /\ r > 0 /\ n <= r
    BY <1>1, <1>3, <1>6 DEF Places
  <2>4. (~oversize' => pos' = pos + n) /\ (oversize => oversize') /\ oversize' \in BOOLEAN
    BY <1>5 DEF Progress
  <2>5. Len(o.bytes) = n
    OBVIOUS
  <2> HIDE DEF n, a, r
  <2>6. /\ loop' \in [remaining : Int, at : Nat] /\ loop'.remaining = r - n /\ loop'.at = a + n
        /\ r - n >= 0 /\ (a + n) + (r - n) = nread + Request(k).content
    <3>1. r - n \in Int /\ a + n \in Nat /\ r - n >= 0
      BY <2>3, <1>6
    <3>2. loop' = [remaining |-> r - n, at |-> a + n]
      BY <2>1 DEF a, r
    <3>3. (a + n) + (r - n) = a + r
      BY <2>3, <1>6
    <3> QED
      BY <3>1, <3>2, <3>3, <2>3
  <2>7. pc' = "overrun" => early > 0
    <3> SUFFICES ASSUME pc' = "overrun" PROVE early > 0
      OBVIOUS
    <3>1. a + n - 1 \notin DOMAIN buf
      BY <2>1 DEF a
    <3>2. PICK t \in Nat, z \in Nat, h \in Nat : t = Total(k) /\ z = Request(k).content /\ h = HEADER
      BY <1>3
    <3>3. a + n - 1 \notin 0 .. t - 1 /\ t = h + z /\ a + r = nread + z /\ early = nread - h
      BY <3>1, <3>2, <2>3, <1>3
    <3>4. n > 0 /\ a + n - 1 \in Nat
      BY <2>3, <1>6, <1>8
    <3>5. a + n - 1 > t - 1
      BY <3>3, <3>4
    <3> QED
      BY <3>3, <3>4, <3>5, <2>3, <1>3, <1>6
  <2>8. ASSUME ~Disturbed, ~oversize', pc' = "body"
        PROVE  pos' = Base(k) + (a + n) /\ a + n >= nread /\ nread >= HEADER /\ Holds(buf', pos', a + n)
    <3>1. pos = Base(k) + a /\ a >= nread /\ nread >= HEADER /\ Holds(buf, pos, a)
      BY <2>8, <1>1 DEF RequestInv, Undisturbed, Held, a
    <3>2. a + n - 1 \in DOMAIN buf
      BY <2>1, <2>8 DEF a
    <3>3. o.bytes = [i \in 1 .. n |-> pos + i] /\ pos' = pos + n
      BY <2>4, <2>8, <1>6 DEF n
    <3>4. n \in Nat
      BY <1>6 DEF n
    <3>5. Holds(Write(a, o.bytes), pos + n, a + n)
      BY <3>1, <3>2, <3>3, <3>4, <2>3, <2>5, <1>3, WriteHolds
    <3>6. Holds(buf', pos', a + n)
      BY <3>3, <3>5, <2>1 DEF a
    <3>7. PICK b \in Nat : b = Base(k)
      BY <1>3
    <3>8. pos + n = b + (a + n) /\ a + n >= nread
      BY <3>1, <3>4, <3>7, <2>3, <1>3
    <3> QED
      BY <3>1, <3>3, <3>6, <3>7, <3>8
  <2>9. pc' \in {"body", "upload", "stream", "overrun"} /\ pc' # "upload" /\ pc' # "stream"
    BY <2>1
  <2>10. ~oversize' /\ ~client.pipelines => Whole(upstream')
    BY <2>1, <2>4, <1>3
  <2>11. nread' \in Nat /\ nparsed' \in Nat /\ upstream' \in Seq(Nat) /\ n \in Nat /\ Progress(n)
    BY <2>1, <1>3, <1>5, <1>6 DEF n
  <2>12. pc' = "body" => /\ early = nread' - HEADER /\ loop'.remaining >= 0
                         /\ loop'.at + loop'.remaining = nread' + Request(k).content
                         /\ 0 .. Total(k) - 1 \subseteq DOMAIN buf'
    BY <2>1, <2>2, <2>3, <2>6
  <2>13. ~Disturbed /\ ~oversize' =>
             (pc' = "body" => /\ pos' = Base(k) + loop'.at /\ loop'.at >= nread' /\ nread' >= HEADER
                              /\ Holds(buf', pos', loop'.at))
    BY <2>1, <2>6, <2>8
  <2> QED
    BY <2>1, <2>2, <2>6, <2>7, <2>9, <2>10, <2>11, <2>12, <2>13, <1>2, GoesOn
<1> QED
  BY <1>7, <1>8

(* connection_upload_file writes what came with the head to its file. *)
LEMMA StartUploadStep ==
    ASSUME RequestInv, StartUpload
    PROVE  RequestInv'
<1>1. /\ pc = "route"
      /\ file' = [i \in 1 .. nread - HEADER |-> Memory(HEADER + i - 1)]
      /\ nread' = 0 /\ pc' = "upload" /\ loop' = [remaining |-> UploadCount(nread - HEADER), at |-> 0]
      /\ NothingTaken
      /\ client' = client /\ buf' = buf /\ nparsed' = nparsed /\ parse' = parse /\ early' = early
      /\ answered' = answered /\ payloads' = payloads /\ upstream' = upstream
  BY DEF StartUpload, ToHandler
<1>2. /\ pc \in Requesting
      /\ ~Disturbed => /\ Holds(buf, pos, nread) /\ Base(k) + nread = pos /\ nread >= HEADER
  BY <1>1, AtRoute
<1>3. /\ k \in Numbers /\ pos \in Nat /\ nread \in Nat /\ nparsed \in Nat
      /\ Request(k).content \in Nat /\ IsBuffer(buf) /\ upstream \in Seq(Nat) /\ HEADER \in Nat \ {0}
      /\ RequestTypes /\ InOrder /\ Base(k) \in Nat /\ EndOf(k) = Base(k) + HEADER + Request(k).content
      /\ ~oversize /\ ~client.pipelines => Whole(upstream)
  BY <1>2, AtRequest, RequestInvFacts
<1>4. Progress(0) /\ pos' = pos /\ oversize' = oversize /\ 0 \in Nat
  BY <1>1, <1>3, TakingNothing
<1>5. PICK b \in Nat, z \in Nat, h \in Nat : b = Base(k) /\ z = Request(k).content /\ h = HEADER
  BY <1>3
<1>6. /\ loop' \in [remaining : Int, at : Nat] /\ loop'.remaining = z - (nread - h)
  <2>1. z - (nread - h) \in Int
    BY <1>3
  <2>2. loop' = [remaining |-> z - (nread - h), at |-> 0]
    BY <1>1, <1>5 DEF UploadCount
  <2> QED
    BY <2>1, <2>2
<1>7. ASSUME ~Disturbed
      PROVE  /\ Base(k) + HEADER <= pos' /\ file' = Bytes(Base(k) + HEADER + 1, pos')
             /\ loop'.remaining = EndOf(k) - pos'
  <2>1. Holds(buf, pos, nread) /\ b + nread = pos /\ nread >= h
    BY <1>2, <1>5, <1>7
  <2>2. PICK m \in Nat : m = nread - h
    BY <2>1, <1>3
  <2>3. pos = (b + h) + m /\ b + h \in Nat /\ b + h <= pos
    BY <2>1, <2>2, <1>3
  <2>4. Bytes((b + h) + 1, (b + h) + m) = [i \in 1 .. m |-> (b + h) + i]
    BY <2>3, BytesAre
  <2>5. ASSUME NEW i \in 1 .. m
        PROVE  Memory(h + i - 1) = (b + h) + i
    <3>1. h + i - 1 \in 0 .. nread - 1
      BY <2>2, <1>3
    <3>2. h + i - 1 \in DOMAIN buf /\ buf[h + i - 1] = pos - nread + 1 + (h + i - 1)
      BY <3>1, <2>1 DEF Holds
    <3>3. pos - nread + 1 + (h + i - 1) = (b + h) + i
      BY <2>1, <1>3
    <3> QED
      BY <3>2, <3>3 DEF Memory
  <2>6. file' = [i \in 1 .. m |-> Memory(h + i - 1)]
    BY <2>2, <1>1, <1>5
  <2>7. file' = Bytes((b + h) + 1, pos)
    BY <2>3, <2>4, <2>5, <2>6
  <2>8. z - (nread - h) = (b + h + z) - pos
    BY <2>1, <1>3
  <2> QED
    BY <2>3, <2>7, <2>8, <1>3, <1>4, <1>5, <1>6
<1>8. ~oversize' /\ ~client.pipelines => Whole(upstream')
  BY <1>1, <1>3, <1>4
<1>9. nread' \in Nat /\ nparsed' \in Nat /\ upstream' \in Seq(Nat) /\ IsBuffer(buf')
  BY <1>1, <1>3
<1> QED
  BY <1>1, <1>2, <1>4, <1>6, <1>7, <1>8, <1>9, GoesOn

(* connection_upload_file reads and writes the next part. *)
LEMMA ReadUploadStep ==
    ASSUME RequestInv, ReadUpload
    PROVE  RequestInv'
<1>1. pc = "upload"
  BY DEF ReadUpload
<1>2. pc \in Requesting
  BY <1>1 DEF Requesting
<1>3. /\ k \in Numbers /\ pos \in Nat /\ nread \in Nat /\ nparsed \in Nat /\ BUFFER_SIZE \in Nat
      /\ Request(k).content \in Nat /\ IsBuffer(buf) /\ upstream \in Seq(Nat) /\ HEADER \in Nat \ {0}
      /\ RequestTypes /\ InOrder /\ Base(k) \in Nat /\ EndOf(k) \in Nat /\ loop \in [remaining : Int, at : Nat]
      /\ loop.remaining \in Int /\ oversize \in BOOLEAN
      /\ ~oversize /\ ~client.pipelines => Whole(upstream)
  BY <1>2, AtRequest, RequestInvFacts
<1> DEFINE len == Smaller(loop.remaining, BUFFER_SIZE)
<1>4. PICK o \in recv(0, len) :
        /\ Taken(o)
        /\ IF o.bytes = <<>> THEN Close /\ UNCHANGED fd0
           ELSE /\ buf' = Write(0, o.bytes)
                /\ file' = file \o o.bytes
                /\ loop' = [loop EXCEPT !.remaining = @ - Len(o.bytes)]
                /\ UNCHANGED <<client, pc, nread, nparsed, parse, early, answered, payloads, upstream, fd0>>
  BY DEF ReadUpload
<1>5. len \in Int
  BY <1>3 DEF Smaller
<1> HIDE DEF len
<1> DEFINE n == Len(o.bytes)
<1>6. Progress(n) /\ Piece(o.bytes, len)
  BY <1>3, <1>4, <1>5, Taking
<1>7. /\ o.bytes \in Seq(Nat) /\ n \in Nat /\ (o.bytes = <<>> <=> n = 0)
      /\ ~oversize' => o.bytes = [i \in 1 .. n |-> pos + i]
  BY <1>6 DEF Piece
<1>8. CASE o.bytes = <<>>
  BY <1>4, <1>6, <1>7, <1>8, Closed
<1>9. CASE o.bytes # <<>>
  <2>1. /\ buf' = Write(0, o.bytes) /\ file' = file \o o.bytes
        /\ loop' = [loop EXCEPT !.remaining = @ - n] /\ pc' = pc
        /\ client' = client /\ nread' = nread /\ nparsed' = nparsed /\ parse' = parse /\ early' = early
        /\ answered' = answered /\ payloads' = payloads /\ upstream' = upstream
    BY <1>4, <1>9
  <2>2. IsBuffer(buf')
    BY <2>1, <1>3, <1>7, WriteTypes
  <2>3. (~oversize' => pos' = pos + n) /\ (oversize => oversize') /\ oversize' \in BOOLEAN
    BY <1>6 DEF Progress
  <2> HIDE DEF n
  <2>4. loop' \in [remaining : Int, at : Nat] /\ loop'.remaining = loop.remaining - n
    <3>1. loop.remaining - n \in Int
      BY <1>3, <1>7 DEF n
    <3>2. loop' = [loop EXCEPT !.remaining = loop.remaining - n] /\ loop \in [remaining : Int, at : Nat]
      BY <2>1, <1>3
    <3> QED
      BY <3>1, <3>2
  <2>5. ASSUME ~Disturbed, ~oversize'
        PROVE  /\ Base(k) + HEADER <= pos' /\ file' = Bytes(Base(k) + HEADER + 1, pos')
               /\ loop'.remaining = EndOf(k) - pos'
    <3>1. /\ Base(k) + HEADER <= pos /\ file = Bytes(Base(k) + HEADER + 1, pos)
          /\ loop.remaining = EndOf(k) - pos
      BY <2>5, <1>1 DEF RequestInv, Undisturbed
    <3>2. PICK a \in Nat, e \in Nat : a = Base(k) + HEADER /\ e = EndOf(k)
      BY <1>3
    <3>3. PICK m \in Nat : m = pos - a
      BY <3>1, <3>2, <1>3
    <3>4. pos = a + m /\ n \in Nat
      BY <3>3, <1>3, <1>7 DEF n
    <3>5. o.bytes = [i \in 1 .. n |-> (a + m) + i]
      BY <3>4, <2>5, <1>7 DEF n
    <3>6. Bytes(a + 1, a + m) \o [i \in 1 .. n |-> (a + m) + i] = Bytes(a + 1, a + m + n)
      BY <3>4, BytesGrow
    <3>7. file' = Bytes(a + 1, pos + n)
      BY <3>1, <3>2, <3>4, <3>5, <3>6, <2>1
    <3>8. pos' = pos + n /\ a <= pos + n /\ (e - pos) - n = e - (pos + n)
      BY <3>4, <2>3, <2>5, <1>3
    <3> QED
      BY <3>1, <3>2, <3>7, <3>8, <2>4
  <2>6. ~oversize' /\ ~client.pipelines => Whole(upstream')
    BY <2>1, <2>3, <1>3
  <2>7. nread' \in Nat /\ nparsed' \in Nat /\ upstream' \in Seq(Nat) /\ n \in Nat /\ Progress(n)
    BY <2>1, <1>3, <1>6, <1>7 DEF n
  <2>8. pc' = "upload"
    BY <2>1, <1>1
  <2> QED
    BY <2>1, <2>2, <2>4, <2>5, <2>6, <2>7, <2>8, <1>2, GoesOn
<1> QED
  BY <1>8, <1>9

-----------------------------------------------------------------------------
(* proxy_deliver with a part of the request in the buffer. *)
LEMMA ProxyLessStep ==
    ASSUME RequestInv, proxy_deliver_less
    PROVE  RequestInv'
<1>1. /\ pc = "route" /\ Request(k).path = "proxy" /\ Total(k) > nread /\ upstream' = Sent(nread)
      /\ pc' = "stream" /\ loop' = [remaining |-> Total(k) - nread, at |-> 0] /\ NothingTaken
      /\ client' = client /\ buf' = buf /\ nread' = nread /\ nparsed' = nparsed /\ parse' = parse /\ early' = early
      /\ answered' = answered /\ payloads' = payloads
  BY DEF proxy_deliver_less, ToProxy
<1>2. /\ pc \in Requesting
      /\ ~Disturbed => /\ Holds(buf, pos, nread) /\ Base(k) + nread = pos /\ nread >= HEADER /\ Base(k) < pos
  BY <1>1, AtRoute
<1>3. /\ k \in Numbers /\ pos \in Nat /\ nread \in Nat /\ nparsed \in Nat /\ Total(k) \in Nat
      /\ IsBuffer(buf) /\ upstream \in Seq(Nat) /\ HEADER \in Nat \ {0}
      /\ RequestTypes /\ InOrder /\ Base(k) \in Nat /\ EndOf(k) = Base(k) + Total(k)
      /\ ~oversize /\ ~client.pipelines => ~Disturbed /\ Whole(upstream)
  BY <1>2, AtRequest, RequestInvFacts
<1>4. Progress(0) /\ pos' = pos /\ oversize' = oversize /\ 0 \in Nat
  BY <1>1, <1>3, TakingNothing
<1>5. loop' \in [remaining : Int, at : Nat] /\ loop'.remaining = Total(k) - nread
  <2>1. Total(k) - nread \in Int
    BY <1>3
  <2> QED
    BY <2>1, <1>1
<1>6. ~Disturbed => loop'.remaining = EndOf(k) - pos' /\ Base(k) < pos'
  <2> SUFFICES ASSUME ~Disturbed PROVE loop'.remaining = EndOf(k) - pos' /\ Base(k) < pos'
    OBVIOUS
  <2>1. PICK b \in Nat, t \in Nat : b = Base(k) /\ t = Total(k)
    BY <1>3
  <2>2. b + nread = pos /\ b < pos
    BY <2>1, <1>2
  <2>3. t - nread = (b + t) - pos
    BY <2>2, <1>3
  <2> QED
    BY <2>1, <2>2, <2>3, <1>3, <1>4, <1>5
<1>7. upstream' \in Seq(Nat) /\ (upstream # <<>> => upstream' # <<>>) /\ (nread > 0 => upstream' # <<>>)
  BY <1>1, <1>3, SentTypes
<1>8. ~oversize' /\ ~client.pipelines => /\ Whole(upstream')
                                         /\ upstream' # <<>> /\ upstream'[Len(upstream')] = pos'
  <2> SUFFICES ASSUME ~oversize, ~client.pipelines
               PROVE  Whole(upstream') /\ upstream' # <<>> /\ upstream'[Len(upstream')] = pos'
    BY <1>4
  <2>1. /\ Holds(buf, pos, nread) /\ Base(k) + nread = pos /\ nread >= HEADER /\ Whole(upstream)
    BY <1>2, <1>3
  <2>2. nread > 0 /\ nread <= nread
    BY <2>1, <1>3
  <2>3. Whole(Sent(nread)) /\ Sent(nread)[Len(Sent(nread))] = Base(k) + nread
    BY <2>1, <2>2, <1>1, <1>3, SentWhole
  <2> QED
    BY <2>1, <2>2, <2>3, <1>1, <1>4, <1>7
<1>9. nread' \in Nat /\ nparsed' \in Nat /\ IsBuffer(buf')
  BY <1>1, <1>3
<1> QED
  BY <1>1, <1>2, <1>4, <1>5, <1>6, <1>7, <1>8, <1>9, GoesOn

(* The loop in which the proxy reads and sends the rest of a request. *)
LEMMA ProxyStreamStep ==
    ASSUME RequestInv, proxy_deliver_stream
    PROVE  RequestInv'
<1>1. pc = "stream"
  BY DEF proxy_deliver_stream
<1>2. pc \in Requesting
  BY <1>1 DEF Requesting
<1>3. /\ k \in Numbers /\ pos \in Nat /\ nread \in Nat /\ nparsed \in Nat /\ BUFFER_SIZE \in Nat /\ BUFFER_SIZE \in Int
      /\ IsBuffer(buf) /\ upstream \in Seq(Nat) /\ early \in Int
      /\ RequestTypes /\ InOrder /\ Base(k) \in Nat /\ EndOf(k) \in Nat /\ loop \in [remaining : Int, at : Nat]
      /\ loop.remaining \in Int /\ oversize \in BOOLEAN
      /\ ~oversize /\ ~client.pipelines => ~Disturbed /\ Whole(upstream) /\ answered < Len(client.requests) /\ k = answered + 1
  BY <1>2, AtRequest, RequestInvFacts
<1>4. PICK o \in recv(0, BUFFER_SIZE) :
        /\ Taken(o)
        /\ IF o.bytes = <<>> THEN Close /\ UNCHANGED fd0
           ELSE /\ buf' = Write(0, o.bytes)
                /\ upstream' = upstream \o o.bytes
                /\ IF loop.remaining > Len(o.bytes)
                   THEN /\ loop' = [loop EXCEPT !.remaining = @ - Len(o.bytes)]
                        /\ nread' = Len(o.bytes)
                        /\ UNCHANGED <<pc, nparsed, parse, answered>>
                   ELSE answered' = answered + 1 /\ connection_parse(0)
                /\ UNCHANGED <<client, early, payloads, file, fd0>>
  BY DEF proxy_deliver_stream
<1> DEFINE n == Len(o.bytes)
<1>5. Progress(n) /\ Piece(o.bytes, BUFFER_SIZE)
  BY <1>3, <1>4, Taking
<1>6. /\ o.bytes \in Seq(Nat) /\ n \in Nat /\ (o.bytes = <<>> <=> n = 0)
      /\ ~oversize' => o.bytes = [i \in 1 .. n |-> pos + i]
  BY <1>5 DEF Piece
<1>7. CASE o.bytes = <<>>
  BY <1>4, <1>5, <1>6, <1>7, Closed
<1>8. CASE o.bytes # <<>>
  <2>1. /\ buf' = Write(0, o.bytes) /\ upstream' = upstream \o o.bytes
        /\ client' = client /\ early' = early /\ payloads' = payloads
    BY <1>4, <1>8
  <2>2. IsBuffer(buf')
    BY <2>1, <1>3, <1>6, WriteTypes
  <2>3. upstream' \in Seq(Nat) /\ (upstream # <<>> => upstream' # <<>>)
    <3>1. upstream' \in Seq(Nat) /\ Len(upstream') = Len(upstream) + n
      BY <2>1, <1>3, <1>6, ConcatProperties
    <3>2. Len(upstream) \in Nat /\ (upstream # <<>> => Len(upstream) > 0)
      BY <1>3, EmptySeq
    <3>3. upstream # <<>> => Len(upstream') # 0
      BY <3>1, <3>2, <1>6
    <3> QED
      BY <3>1, <3>3, EmptySeq
  <2>4. (~oversize' => pos' = pos + n) /\ (oversize => oversize') /\ oversize' \in BOOLEAN
    BY <1>5 DEF Progress
  <2>5. n \in Nat /\ n > 0 /\ (~oversize' => o.bytes = [i \in 1 .. n |-> pos + i])
    BY <1>6, <1>8
  <2>0. Progress(n)
    BY <1>5
  <2> HIDE DEF n
  <2>6. ~Disturbed => loop.remaining = EndOf(k) - pos /\ Base(k) < pos /\ payloads \in Seq(Complete)
    BY <1>1 DEF RequestInv, Undisturbed
  <2>7. ~oversize' /\ ~client.pipelines =>
           Whole(upstream') /\ upstream' # <<>> /\ upstream'[Len(upstream')] = pos'
    <3> SUFFICES ASSUME ~oversize', ~client.pipelines
                 PROVE  Whole(upstream') /\ upstream' # <<>> /\ upstream'[Len(upstream')] = pos'
      OBVIOUS
    <3>1. Whole(upstream) /\ upstream # <<>> /\ upstream[Len(upstream)] = pos
      BY <2>4, <1>1, <1>3 DEF RequestInv, Waiting
    <3>2. /\ Whole(upstream \o o.bytes) /\ upstream \o o.bytes # <<>>
          /\ (upstream \o o.bytes)[Len(upstream \o o.bytes)] = pos + n
      <4>1. o.bytes = [i \in 1 .. n |-> pos + i] /\ n \in Nat /\ n > 0
        BY <2>5
      <4>2. pos \in Nat /\ upstream \in Seq(Nat)
        BY <1>3
      <4>3. PICK bytes : bytes = o.bytes
        OBVIOUS
      <4>4. bytes = [i \in 1 .. n |-> pos + i]
        BY <4>1, <4>3
      <4>5. /\ Whole(upstream \o bytes)
            /\ n > 0 => /\ upstream \o bytes # <<>>
                        /\ (upstream \o bytes)[Len(upstream \o bytes)] = pos + n
        BY <4>1, <4>2, <4>4, <3>1, WholeGrows
      <4> QED
        BY <4>1, <4>3, <4>5
    <3> QED
      BY <3>2, <2>1, <2>4
  <2>8. CASE loop.remaining > n
    <3>1. /\ loop' = [loop EXCEPT !.remaining = @ - n] /\ nread' = n
          /\ pc' = pc /\ nparsed' = nparsed /\ parse' = parse /\ answered' = answered
      BY <2>8, <1>4, <1>8 DEF n
    <3>2. loop' \in [remaining : Int, at : Nat] /\ loop'.remaining = loop.remaining - n
      <4>1. loop.remaining - n \in Int
        BY <2>5, <1>3
      <4>2. loop' = [loop EXCEPT !.remaining = loop.remaining - n] /\ loop \in [remaining : Int, at : Nat]
        BY <3>1, <1>3
      <4> QED
        BY <4>1, <4>2
    <3>3. ASSUME ~Disturbed, ~oversize'
          PROVE  loop'.remaining = EndOf(k) - pos' /\ Base(k) < pos'
      <4>1. PICK b \in Nat, e \in Nat : b = Base(k) /\ e = EndOf(k)
        BY <1>3
      <4>2. loop.remaining = e - pos /\ b < pos /\ pos' = pos + n
        BY <3>3, <4>1, <2>4, <2>6
      <4>3. (e - pos) - n = e - (pos + n) /\ b < pos + n
        BY <4>2, <2>5, <1>3
      <4> QED
        BY <4>1, <4>2, <4>3, <3>2
    <3>4. nread' \in Nat /\ nparsed' \in Nat /\ pc' = "stream"
      BY <3>1, <2>5, <1>1, <1>3
    <3> QED
      BY <3>1, <3>2, <3>3, <3>4, <2>1, <2>2, <2>3, <2>5, <2>0, <2>7, <1>2, GoesOn
  <2>9. CASE ~(loop.remaining > n)
    <3>1. answered' = answered + 1 /\ connection_parse(0)
      BY <2>9, <1>4, <1>8 DEF n
    <3>2. ~oversize' /\ ~client.pipelines =>
             answered < Len(client.requests) /\ Base(answered + 1) < pos /\ Whole(upstream')
      BY <2>4, <2>6, <2>7, <1>3
    <3>3. ~Disturbed => payloads' \in Seq(Complete)
      BY <2>1, <2>6
    <3>4. early' \in Int
      BY <2>1, <1>3
    <3> QED
      BY <3>1, <3>2, <3>3, <3>4, <2>1, <2>2, <2>3, <2>5, <2>0, Delivered
  <2> QED
    BY <2>8, <2>9
<1> QED
  BY <1>7, <1>8

(* Every step of a request keeps the invariant. *)
LEMMA RequestSteps ==
    ASSUME RequestInv, RequestNext
    PROVE  RequestInv'
  BY ReadHeaderStep, EmptyBodyStep, BodyInBufferStep, StartBodyStep, ReadBodyStep, BodyReadStep, NoTempStoreStep,
     StartUploadStep, ReadUploadStep, UploadDoneStep, DirectoryStep, ProxyMoreStep, ProxyAllStep, ProxyLessStep,
     ProxyStreamStep DEF RequestNext

(* The invariant of the requests mentions the requests' variables only. *)
LEMMA RequestStutters ==
    ASSUME RequestInv, UNCHANGED requestVars
    PROVE  RequestInv'
<1>1. UNCHANGED <<client, pc, pos, buf, nread, nparsed, parse, ssl_buff, loop, got, oversize, early,
                  answered, payloads, upstream, file, fd0>>
  BY DEF requestVars
<1>2. /\ Numbers' = Numbers /\ Complete' = Complete /\ ProxyStarts' = ProxyStarts /\ Limit' = Limit
      /\ \A n : Base(n)' = Base(n)
      /\ \A n : EndOf(n)' = EndOf(n)
  BY <1>1, SameRequests
<1>3. Base(k)' = Base(k) /\ EndOf(k)' = EndOf(k) /\ Total(k)' = Total(k) /\ Request(k)' = Request(k) /\ k' = k
  BY <1>1, SameRequest
<1>4. RequestTypes' = RequestTypes
  BY <1>1, <1>2 DEF RequestTypes, IsBuffer, Clients, Stashes, RequestParsers, Requesting
<1>5. InOrder' = InOrder
  BY <1>1 DEF InOrder, NoStash, Bytes
<1>6. Places' = Places
  BY <1>1, <1>3 DEF Places, Requesting
<1>7. Held(nread)' = Held(nread) /\ Held(loop.at)' = Held(loop.at)
  BY <1>1 DEF Held, Holds
<1>8. Undisturbed' = Undisturbed
  BY <1>1, <1>2, <1>3, <1>7 DEF Undisturbed, Bytes
<1>9. Behind(pos - nread)' = Behind(pos - nread)
  BY <1>1 DEF Behind, Base, EndOf, Total, Request
<1>10. Whole(upstream)' = Whole(upstream)
  BY <1>1, <1>2 DEF Whole
<1>11. Waiting' = Waiting
  BY <1>1, <1>2, <1>3, <1>9, <1>10 DEF Waiting, Requesting
<1>12. Disturbed' = Disturbed
  BY <1>1 DEF Disturbed
<1> QED
  BY <1>1, <1>4, <1>5, <1>6, <1>8, <1>11, <1>12 DEF RequestInv

(* A connection starts with nothing read. *)
LEMMA RequestStarts ==
    ASSUME RequestInit
    PROVE  RequestInv
<1>1. /\ client \in Clients /\ pc = "header" /\ pos = 0 /\ buf = [i \in 0 .. BUFFER_SIZE |-> 0]
      /\ nread = 0 /\ nparsed = 0 /\ parse = Fresh /\ ssl_buff = NoStash
      /\ loop = [remaining |-> BUFFER_SIZE - 1, at |-> 0]
      /\ got = <<>> /\ oversize = FALSE /\ early = 0 /\ answered = 0
      /\ payloads = <<>> /\ upstream = <<>> /\ file = <<>>
  BY DEF RequestInit, Clients
<1>2. BUFFER_SIZE \in Nat \ {0} /\ HEADER \in Nat \ {0} /\ Len(client.requests) \in Nat /\ Limit \in Nat
  BY <1>1, ConversationsAssumption, RequestFacts, LimitTypes
<1>3. IsBuffer(buf)
  BY <1>1, <1>2 DEF IsBuffer
<1>4. /\ parse \in RequestParsers /\ parse.seen = 0 /\ ssl_buff \in Stashes
      /\ loop \in [remaining : Int, at : Nat] /\ loop.at = 0 /\ loop.remaining = BUFFER_SIZE - 1
  BY <1>1, <1>2 DEF Fresh, RequestParsers, NoStash, Stashes
<1>5. RequestTypes
  <2>1. 0 \in Nat /\ 0 \in Int /\ ~(0 > 0) /\ FALSE \in BOOLEAN /\ <<>> \in Seq(Nat)
    OBVIOUS
  <2>2. parse.seen > 0 => parse.request \in Numbers
    BY <2>1, <1>4
  <2> QED
    BY <2>1, <2>2, <1>1, <1>3, <1>4 DEF RequestTypes
<1>6. InOrder
  <2>1. Bytes(0 + 1, 0 + 0) \in Seq(Nat) /\ Len(Bytes(0 + 1, 0 + 0)) = 0
    BY BytesAre
  <2>2. 0 + 1 = 1 /\ 0 + 0 = 0
    OBVIOUS
  <2>3. Bytes(1, 0) = <<>>
    BY <2>1, <2>2, EmptySeq
  <2> QED
    BY <2>3, <1>1 DEF InOrder
<1>7. Places
  <2>1. loop.at + loop.remaining = BUFFER_SIZE - 1
    BY <1>2, <1>4
  <2> QED
    BY <2>1, <1>1 DEF Places, Requesting
<1>8. Undisturbed
  <2>1. payloads \in Seq(Complete)
    BY <1>1
  <2>2. Held(0)
    BY <1>1 DEF Held, Holds
  <2> QED
    BY <2>1, <2>2, <1>1, <1>4 DEF Undisturbed
<1>9. Waiting
  <2>1. Behind(0) /\ pos - nread = 0
    BY <1>1, <1>2 DEF Behind
  <2>2. Whole(upstream)
    BY <1>1 DEF Whole
  <2> QED
    BY <2>1, <2>2, <1>1, <1>2 DEF Waiting, Requesting
<1> QED
  BY <1>5, <1>6, <1>7, <1>8, <1>9 DEF RequestInv

(* The claims about requests follow. *)
LEMMA RequestsPass ==
    ASSUME RequestInv
    PROVE  /\ BytesInOrder /\ HandlersGetTheContent /\ UpstreamGetsRequests
           /\ WaitsOnlyForMore /\ OverrunsOnlyThere
<1>1. /\ pos \in Nat /\ oversize \in BOOLEAN /\ nread \in Nat /\ early \in Int /\ InOrder /\ Places
      /\ loop.remaining \in Int /\ loop.at \in Nat /\ HEADER \in Nat \ {0}
  BY RequestInvFacts
<1>2. BytesInOrder
  <2>1. got = Bytes(0 + 1, 0 + pos) => Len(got) = pos
    BY <1>1, BytesAre
  <2>2. 0 + 1 = 1 /\ 0 + pos = pos
    BY <1>1
  <2> QED
    BY <2>1, <2>2, <1>1 DEF BytesInOrder, InOrder
<1>3. HandlersGetTheContent
  <2> SUFFICES ASSUME ~Disturbed, NEW i \in DOMAIN payloads
               PROVE  payloads[i].content = Body(payloads[i].request)
    BY DEF HandlersGetTheContent
  <2>1. payloads \in Seq(Complete)
    BY DEF RequestInv, Undisturbed
  <2>2. payloads[i] \in Complete
    BY <2>1, ElementOfSeq
  <2> QED
    BY <2>2 DEF Complete
<1>4. UpstreamGetsRequests
  BY DEF UpstreamGetsRequests, RequestInv, Waiting, Whole, ProxyStarts
<1>5. WaitsOnlyForMore
  <2> SUFFICES ASSUME pc \in {"body", "upload", "stream"}, ~client.pipelines, loop.remaining > 0, ~oversize
               PROVE  pos < EndOf(k) \/ (pc = "body" /\ early > 0)
    BY DEF WaitsOnlyForMore
  <2>1. pc \in Requesting /\ Undisturbed
    BY DEF Requesting, RequestInv, Disturbed
  <2>2. Base(k) \in Nat /\ Request(k).content \in Nat /\ EndOf(k) \in Nat /\ EndOf(k) = Base(k) + HEADER + Request(k).content
    BY <2>1, AtRequest
  <2>3. PICK b \in Nat, z \in Nat, h \in Nat : b = Base(k) /\ z = Request(k).content /\ h = HEADER
    BY <2>2, <1>1
  <2>4. CASE pc = "body"
    <3>1. pos = b + loop.at /\ loop.at + loop.remaining = nread + z /\ early = nread - h
      BY <2>1, <2>3, <2>4, <1>1 DEF Undisturbed, Places
    <3>2. PICK a \in Nat, r \in Int : a = loop.at /\ r = loop.remaining
      BY <1>1
    <3>3. pos = b + a /\ a + r = nread + z /\ early = nread - h /\ r > 0
      BY <3>1, <3>2
    <3>4. pos < b + h + z \/ early > 0
      BY <3>3, <1>1
    <3> QED
      BY <3>4, <2>2, <2>3, <2>4
  <2>5. CASE pc \in {"upload", "stream"}
    <3>1. loop.remaining = EndOf(k) - pos
      BY <2>1, <2>5 DEF Undisturbed
    <3> QED
      BY <3>1, <2>2, <1>1
  <2> QED
    BY <2>4, <2>5
<1>6. OverrunsOnlyThere
  BY <1>1 DEF OverrunsOnlyThere, Places
<1> QED
  BY <1>2, <1>3, <1>4, <1>5, <1>6

(* The bytes of requests and replies pass as claimed, for every size of    *)
(* buffers, heads and records, all conversations and all replies.          *)
THEOREM StreamsAreFaithful == StreamsSpec => []StreamsFaithful
<1>1. StreamsInit => StreamsInv
  <2> SUFFICES ASSUME StreamsInit PROVE StreamsInv
    OBVIOUS
  <2>1. RequestInit /\ ReplyInit
    BY DEF StreamsInit
  <2> QED
    BY <2>1, RequestStarts, ReplyStarts DEF StreamsInv
<1>2. StreamsInv /\ [StreamsNext]_streamsvars => StreamsInv'
  <2> SUFFICES ASSUME StreamsInv, [StreamsNext]_streamsvars PROVE StreamsInv'
    OBVIOUS
  <2>1. RequestInv /\ ReplyInv
    BY DEF StreamsInv
  <2>2. CASE RequestNext /\ UNCHANGED <<replyVars, side>>
    <3>1. RequestInv' /\ ReplyInv'
      BY <2>1, <2>2, RequestSteps, ReplyStutters
    <3> QED
      BY <3>1 DEF StreamsInv
  <2>3. CASE ReplyNext /\ UNCHANGED <<requestVars, side>>
    <3>1. RequestInv' /\ ReplyInv'
      BY <2>1, <2>3, RequestStutters, ReplySteps
    <3> QED
      BY <3>1 DEF StreamsInv
  <2>4. CASE UNCHANGED streamsvars
    <3>1. UNCHANGED requestVars /\ UNCHANGED replyVars
      BY <2>4 DEF streamsvars
    <3>2. RequestInv' /\ ReplyInv'
      BY <2>1, <3>1, RequestStutters, ReplyStutters
    <3> QED
      BY <3>2 DEF StreamsInv
  <2> QED
    BY <2>2, <2>3, <2>4 DEF StreamsNext
<1>3. StreamsInv => StreamsFaithful
  BY RequestsPass, RepliesPass DEF StreamsInv, StreamsFaithful
<1> QED
  BY <1>1, <1>2, <1>3, PTL DEF StreamsSpec

=============================================================================
