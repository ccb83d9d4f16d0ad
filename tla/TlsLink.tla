------------------------------ MODULE TlsLink -------------------------------
(***************************************************************************)
(* Connections of a client to the server over TLS (src/ssl/tls1.c and      *)
(* src/connection.c): each end is one task that reads with ssl_read until  *)
(* there is data, writes with ssl_write and closes with ssl_free.  All     *)
(* connections of one end share its context, that is its session cache.    *)
(* Replies of handlers do not go through ssl_write: Connection_deliver_raw *)
(* puts them on the socket as they are, also while ssl_write is in the     *)
(* middle of a record.                                                     *)
(***************************************************************************)
EXTENDS Tls

CONSTANTS
    Conns,       \* the connections, 1..n in the order in which they are opened
    Plans        \* the configurations, each with the bounds of its behaviours: conns, how many
                 \* connections are opened; data, records of data that an end writes on one; time,
                 \* the last value of the clock; short, reads that return less than they asked
                 \* for; raw, replies of handlers on one connection; loses, the connections
                 \* that the network may drop

ASSUME TlsLinkAssumption ==
    /\ Conns = 1..Cardinality(Conns)
    /\ \A p \in Plans : p.conns \in Conns /\ p.loses \subseteq Conns /\ {p.data, p.time, p.short, p.raw} \subseteq Nat

Sides == {"client", "server"}
Other(s) == IF s = "client" THEN "server" ELSE "client"

VARIABLES
    plan,     \* the configuration, which no step changes
    ssl,      \* [Conns -> [Sides -> the SSL object]]
    task,     \* [Conns -> [Sides -> "none", "recv", "idle", "send", "closed"]]
    stream,   \* [Conns -> [Sides -> the units on their way to this side]]
    tab,      \* [Sides -> ssl_sessions]
    heap,     \* [Sides -> [Conns -> the session object that this connection allocated]]
    pend,     \* [Conns -> [Sides -> what is left of the record that ssl_write is sending]]
    now,      \* the clock
    lost,     \* connections that the network has dropped
    short,    \* number of short reads
    sent,     \* [Conns -> [Sides -> number of data records written]]
    rcvd,     \* [Conns -> [Sides -> the data records read]]
    raw,      \* [Conns -> replies of handlers on the wire]
    cut,      \* connections whose hybrid hello was not read completely
    taken,    \* <<side, object>>: session objects that two handshakes had at a time
    fail      \* [Conns -> [Sides -> the error with which ssl_read ended, "none"]]

tlsvars == <<plan, ssl, task, stream, tab, heap, pend, now, lost, short, sent, rcvd, raw, cut,
             taken, fail>>

PerSide(x) == [c \in Conns |-> [s \in Sides |-> x]]

TlsInit ==
    /\ plan \in Plans
    /\ ssl = [c \in Conns |-> [s \in Sides |-> ssl_new(s = "client")]]
    /\ task = PerSide("none")
    /\ stream = PerSide(<<>>)
    /\ tab = [s \in Sides |-> [i \in 1..plan.slots[s] |-> 0]]
    /\ heap = [s \in Sides |-> [c \in Conns |-> [id |-> 0, master |-> 0, time |-> 0]]]
    /\ pend = PerSide(<<>>)
    /\ now = 0
    /\ lost = {}
    /\ short = 0
    /\ sent = PerSide(0)
    /\ rcvd = PerSide(<<>>)
    /\ raw = [c \in Conns |-> 0]
    /\ cut = {}
    /\ taken = {}
    /\ fail = PerSide("none")

World(c, s) == [e |-> ssl[c][s], tab |-> tab[s], heap |-> heap[s], out |-> <<>>, ret |-> "ok",
                wild |-> 0, data |-> 0]

Units(rec) == [i \in 1..(HeaderUnits + BodyUnits) |-> [rec |-> rec, part |-> i - 1, ok |-> TRUE]]
UnitsOf(out) == FlattenSeq([i \in DOMAIN out |-> Units(out[i])])
Up(c) == c \notin lost

(* The objects that an unfinished handshake of another connection still points to. *)
TakenBy(c, s, w) ==
    {<<s, ssl[d][s].sess>> : d \in {d \in Conns \ {c} :
        /\ task[d][s] \notin {"none", "closed"} /\ ssl[d][s].status # "ok"
        /\ ~ssl[d][s].resume
        /\ ssl[d][s].sess # 0
        /\ \/ ssl[d][s].sess = w.e.sess /\ ssl[c][s].sess # w.e.sess
           \/ ssl[d][s].sess \in ToSet(tab[s]) \ ToSet(w.tab)}}

(* The effects of a call on the shared state.  A secret that is written to an object that   *)
(* was freed is lost, or it changes an object that has got its memory.                      *)
Commit(c, s, w) ==
    /\ ssl' = [ssl EXCEPT ![c][s] = w.e]
    /\ tab' = [tab EXCEPT ![s] = w.tab]
    /\ \/ heap' = [heap EXCEPT ![s] = w.heap]
       \/ \E d \in ToSet(w.tab) \ {0} :
            w.wild # 0 /\ heap' = [heap EXCEPT ![s] = [w.heap EXCEPT ![d].master = w.wild]]
    /\ taken' = taken \cup TakenBy(c, s, w)
                      \cup (IF w.wild # 0 THEN {<<s, d>> : d \in ToSet(w.tab) \ {0}} ELSE {})

Put(c, s, units) ==
    stream' = [stream EXCEPT ![c][Other(s)] = IF Up(c) THEN @ \o units ELSE @]

(* A client may offer the session of a handshake that has ended well (ssl_get_session_id).  *)
(* ssl_client_new at one end, the accept and ssl_server_new at the other. *)
Connect(c) ==
    /\ task[c]["client"] = "none" /\ c <= plan.conns
    /\ \A d \in Conns : d < c => task[d]["client"] # "none"
    /\ \E id \in {0} \cup {ssl[d]["client"].id : d \in {d \in Conns :
                                d < c /\ ssl[d]["client"].status = "ok"}},
          offer \in plan.offers, hybrid \in plan.hybrid :
          LET w == ssl_client_new(World(c, "client"), id, offer)
              out == IF hybrid THEN [w.out EXCEPT ![1].type = "v23"] ELSE w.out
          IN /\ ssl' = [ssl EXCEPT ![c] = [client |-> w.e, server |-> ssl_server_new]]
             /\ Put(c, "client", UnitsOf(out))
    /\ task' = [task EXCEPT ![c] = [s \in Sides |-> "recv"]]
    /\ UNCHANGED <<plan, tab, heap, pend, now, lost, short, sent, rcvd, raw, cut, taken, fail>>

(* How much one SOCKET_READ returns. *)
NeededUnits(c, s) == IF ssl[c][s].rtype = "v23" THEN BodyUnits ELSE ssl[c][s].need - Len(ssl[c][s].buf)
Sendable(c, s) == Len(stream[c][s])

Ended(c, s) == Sendable(c, s) = 0 /\ (c \in lost \/ task[c][Other(s)] = "closed")

(* One call of ssl_read that has something to read, or that finds the end. *)
Read(c, s) ==
    /\ task[c][s] = "recv"
    /\ Sendable(c, s) > 0 \/ Ended(c, s)
    /\ \E k \in 0..Min({NeededUnits(c, s), Sendable(c, s)}), junk \in 0..BodyUnits :
          LET units == SubSeq(stream[c][s], 1, k)
              full == k = Min({NeededUnits(c, s), Sendable(c, s)})
              hybrid == ssl[c][s].rtype = "v23"
          IN /\ k > 0 \/ Ended(c, s)
             /\ full \/ short < plan.short
             /\ short' = IF full THEN short ELSE short + 1
             /\ \* junk matters only where no header is
                junk > 0 => \/ hybrid /\ k < BodyUnits
                            \/ ssl[c][s].needrec /\ ~hybrid /\ k > 0
                               /\ (units[1].part # 0 \/ ~units[1].ok)
             /\ \E w \in {ssl_read(v) : v \in {basic_read(World(c, s), c, now, plan, units, junk)}} :
                  /\ Commit(c, s, w)
                  /\ stream' = [stream EXCEPT ![c][s] = SubSeq(@, k + 1, Len(@)),
                                              ![c][Other(s)] = IF Up(c) THEN @ \o UnitsOf(w.out) ELSE @]
                  /\ cut' = IF hybrid /\ k < BodyUnits THEN cut \cup {c} ELSE cut
                  /\ rcvd' = IF w.ret = "data" THEN [rcvd EXCEPT ![c][s] = Append(@, w.data)] ELSE rcvd
                  /\ fail' = IF w.ret \in {"ok", "data"} THEN fail ELSE [fail EXCEPT ![c][s] = w.ret]
                  /\ task' = [task EXCEPT ![c][s] =
                       CASE w.ret \notin {"ok", "data"} -> "idle"
                         [] w.ret = "data" -> "idle"
                         [] s = "client" /\ w.e.status = "ok" /\ ssl[c][s].status # "ok" -> "idle"
                         [] OTHER -> "recv"]
    /\ UNCHANGED <<plan, pend, now, lost, sent, raw>>

(* The caller asks for more. *)
Recv(c, s) ==
    /\ task[c][s] = "idle" /\ fail[c][s] = "none"
    /\ task' = [task EXCEPT ![c][s] = "recv"]
    /\ UNCHANGED <<plan, ssl, stream, tab, heap, pend, now, lost, short, sent, rcvd, raw, cut,
                   taken, fail>>

(* ssl_write of one fragment: all of it goes out, or fdsend has to wait after some of it. *)
ssl_write(c, s) ==
    /\ task[c][s] = "idle" /\ fail[c][s] = "none" /\ sent[c][s] < plan.data
    /\ LET data == Message("data", sent[c][s] + 1, <<>>, <<>>)
           w == send_packet(World(c, s), "data", data)
           units == UnitsOf(w.out)
       IN /\ Commit(c, s, w)
          /\ \E k \in {1, 2, Len(units)} :
                /\ Put(c, s, SubSeq(units, 1, k))
                /\ pend' = [pend EXCEPT ![c][s] = SubSeq(units, k + 1, Len(units))]
                /\ task' = [task EXCEPT ![c][s] = IF k = Len(units) THEN "idle" ELSE "send"]
    /\ sent' = [sent EXCEPT ![c][s] = @ + 1]
    /\ UNCHANGED <<plan, now, lost, short, rcvd, raw, cut, fail>>

(* The rest of a record. *)
Flush(c, s) ==
    /\ task[c][s] = "send"
    /\ Put(c, s, pend[c][s])
    /\ pend' = [pend EXCEPT ![c][s] = <<>>]
    /\ task' = [task EXCEPT ![c][s] = "idle"]
    /\ UNCHANGED <<plan, ssl, tab, heap, now, lost, short, sent, rcvd, raw, cut, taken, fail>>

(* The reply of a handler, to a request that this connection has brought. *)
Connection_deliver_raw(c) ==
    /\ rcvd[c]["server"] # <<>> /\ task[c]["server"] # "closed" /\ raw[c] < plan.raw
    /\ Put(c, "server", <<[rec |-> [type |-> "raw", msg |-> Plain("raw"), key |-> <<>>,
                                    seq |-> ZeroSeq],
                           part |-> 0, ok |-> FALSE]>>)
    /\ raw' = [raw EXCEPT ![c] = @ + 1]
    /\ UNCHANGED <<plan, ssl, task, tab, heap, pend, now, lost, short, sent, rcvd, cut, taken, fail>>

(* The task is done with the connection: ssl_free sends close_notify unless it is dead. *)
ssl_free(c, s) ==
    /\ task[c][s] = "idle"
    /\ LET w == send_alert(World(c, s), "close_notify")
       IN /\ Put(c, s, UnitsOf(w.out))
          /\ Commit(c, s, [w EXCEPT !.e.dc = disposable_free])
    /\ task' = [task EXCEPT ![c][s] = "closed"]
    /\ UNCHANGED <<plan, pend, now, lost, short, sent, rcvd, raw, cut, fail>>

(* The network drops a connection: what was on its way is gone. *)
Lose(c) ==
    /\ c \in plan.loses /\ Up(c) /\ \E s \in Sides : task[c][s] \notin {"none", "closed"}
    /\ lost' = lost \cup {c}
    /\ stream' = [stream EXCEPT ![c] = [s \in Sides |-> <<>>]]
    /\ UNCHANGED <<plan, ssl, task, tab, heap, pend, now, short, sent, rcvd, raw, cut, taken, fail>>

Tick ==
    /\ now < plan.time
    /\ now' = now + 1
    /\ UNCHANGED <<plan, ssl, task, stream, tab, heap, pend, lost, short, sent, rcvd, raw, cut,
                   taken, fail>>

Step(c, s) ==
    \/ Read(c, s)
    \/ Recv(c, s)
    \/ ssl_write(c, s)
    \/ Flush(c, s)
    \/ ssl_free(c, s)

TlsNext ==
    \/ \E c \in Conns : Connect(c) \/ Connection_deliver_raw(c) \/ Lose(c)
    \/ \E c \in Conns, s \in Sides : Step(c, s)
    \/ Tick

-----------------------------------------------------------------------------
(* Properties. *)

(* Whatever handlers put on the wire between or inside records, and however reads are      *)
(* split: the data that ssl_read returns is what the other end gave to ssl_write, in order *)
(* and without a gap.                                                                      *)
TlsDataInOrder ==
    \A c \in Conns, s \in Sides :
        /\ Len(rcvd[c][s]) <= sent[c][Other(s)]
        /\ \A i \in DOMAIN rcvd[c][s] : rcvd[c][s][i] = i

ClientForgot(c) ==
    \* the client offered a session that the server resumed, and has lost its own half of it
    ssl[c]["server"].resume /\ ~ssl[c]["client"].resume

SharedSession(c) ==
    \E s \in Sides : \E o \in Conns : <<s, o>> \in taken

(* ssl_read fails only for a reason that lies outside of it: the other end has failed or is *)
(* gone, a configuration that does not match, a client that has forgotten a session, a      *)
(* session object that two connections had, bytes on the wire that ssl_write has not sent,  *)
(* or a hybrid hello that came in two pieces.                                               *)
TlsFailsForAReason ==
    \A c \in Conns, s \in Sides :
        LET why == fail[c][s]
            offers == plan.offers
        IN why # "none" =>
            \/ why = "conn_lost" /\ (c \in lost \/ task[c][Other(s)] = "closed")
            \/ why = "peer_alert" /\ fail[c][Other(s)] # "none"
            \/ why = "invalid_version" /\ \E o \in offers : o[1] = "ssl3"
            \/ why = "no_cipher" /\ (c \in cut \/ \E o \in offers : NoSharedCipher(Tail(o)))
            \/ why = "bad_certificate" /\ "bad" \in ToSet(plan.scert) \cup ToSet(plan.ccert)
            \/ why = "invalid_handshake" /\ plan.auth /\ plan.ccert = <<>>
            \/ why = "invalid_handshake" /\ ClientForgot(c)
            \/ SharedSession(c)
            \/ s = "client" /\ raw[c] > 0
            \/ c \in cut

(* The two ends of a handshake that has ended well derive their keys from one secret with   *)
(* the cipher that the server likes best of those that both know.                           *)
BothEndsAgree ==
    \A c \in Conns :
        LET cl == ssl[c]["client"]
            sv == ssl[c]["server"]
        IN cl.status = "ok" /\ sv.status = "ok" =>
            /\ cl.tx = sv.rx /\ cl.rx = sv.tx /\ cl.id = sv.id /\ cl.resume = sv.resume
            /\ \A i \in DOMAIN ssl_prot_prefs :
                  (\A o \in plan.offers : ssl_prot_prefs[i] \in ToSet(o))
                    => \E j \in 1..i : ssl_prot_prefs[j] = cl.cipher

(* A session in the cache that has an id and a secret has the secret that was negotiated   *)
(* under that id, unless two handshakes had the object at a time.                          *)
SessionsMatch ==
    \A s \in Sides : \A i \in DOMAIN tab[s] :
        LET o == tab[s][i]
        IN o # 0 /\ heap[s][o].master \notin {0, Torn} /\ <<s, o>> \notin taken
            => heap[s][o].id = heap[s][o].master

(* No handshake stalls: the two ends never wait for each other while one of them has not    *)
(* finished it, unless the hybrid hello came in two pieces.                                 *)
HandshakeNeverStalls ==
    \A c \in Conns \ cut :
        (\A s \in Sides : task[c][s] = "recv" /\ stream[c][s] = <<>>) /\ Up(c)
            => \A s \in Sides : ssl[c][s].status = "ok"

(***************************************************************************)
(* ssl/tls1.c, tls1_svr.c, tls1_clnt.c: the data comes out as it went in,  *)
(* a connection fails only for a reason outside of it, both ends agree on  *)
(* secret and cipher, a cached session is the one negotiated, and no       *)
(* handshake stalls.                                                       *)
(***************************************************************************)
TlsFaithful ==
    /\ TlsDataInOrder /\ TlsFailsForAReason
    /\ BothEndsAgree /\ SessionsMatch /\ HandshakeNeverStalls
=============================================================================
