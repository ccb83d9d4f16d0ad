--------------------------------- MODULE Tls ----------------------------------
(***************************************************************************)
(* The part of src/ssl/tls1.c that both ends of a connection share: the    *)
(* session cache, the record layer, alerts and the messages that both ends *)
(* send.  An operator maps a world to a world.  A world w is               *)
(*   w.e     the SSL object of the end that runs,                          *)
(*   w.tab   ssl_ctx->ssl_sessions of its context, object names or 0,      *)
(*   w.heap  the session objects by the connection that allocated them,    *)
(*   w.out   the records sent so far by this call,                         *)
(*   w.ret   the value returned ("ok" is SSL_OK),                          *)
(*   w.wild  the secret written to a session object that is no longer      *)
(*           there, 0 if there was none.                                   *)
(* Cryptography is perfect: a master secret is the number of the           *)
(* connection that negotiated it, a key names all that it is derived from, *)
(* a digest is what was digested, an encrypted record opens only with the  *)
(* key and the sequence number it was sealed with.                         *)
(***************************************************************************)
EXTENDS Naturals, Sequences, FiniteSets, FiniteSetsExt, SequencesExt

\* Three units per record: the header, and the two halves of its body.
HeaderUnits == 1
BodyUnits == 2

ssl_prot_prefs == <<"aes128", "aes256", "rc4sha", "rc4md5">>

\* Bounds on the sequence numbers: digits of the number, and values of a digit.
SeqDigits == 2
SeqRadix == 3
ZeroSeq == [i \in 1..SeqDigits |-> 0]

\* Time for which a session may be resumed.
SSL_EXPIRY_TIME == 1
\* What is left of an id or a secret whose first four bytes were cleared.
Torn == 99

Message(hs, id, list, mac) == [hs |-> hs, id |-> id, list |-> list, mac |-> mac]
Plain(hs) == Message(hs, 0, <<>>, <<>>)

disposable_new == [on |-> TRUE, log |-> <<>>, master |-> 0, mac |-> <<>>, block |-> <<>>]

disposable_free == [disposable_new EXCEPT !.on = FALSE]

ssl_new(is_client) ==
    [client |-> is_client, next |-> "none", status |-> "not_ok",
     needrec |-> TRUE, need |-> HeaderUnits, buf |-> <<>>, rtype |-> "none",
     tx |-> <<>>, rx |-> <<>>, wseq |-> ZeroSeq, rseq |-> ZeroSeq,
     resume |-> FALSE, certreq |-> FALSE, id |-> 0, cipher |-> "none",
     slot |-> 1, sess |-> 0, dc |-> disposable_new]

Return(w, ret) == [w EXCEPT !.ret = ret]

(* The digit after the last one that is not at its limit starts again, and so do all behind it. *)
increment_sequence(seq) ==
    LET below == {i \in 1..SeqDigits : seq[i] # SeqRadix - 1}
        at == IF below = {} THEN 0 ELSE Max(below)
    IN [i \in 1..SeqDigits |->
            CASE i < at -> seq[i] [] i = at -> seq[i] + 1 [] OTHER -> 0]

increment_read_sequence(e) == [e EXCEPT !.rseq = increment_sequence(@)]

increment_write_sequence(e) == [e EXCEPT !.wseq = increment_sequence(@)]

add_packet(e, msg) == [e EXCEPT !.dc.log = Append(@, msg)]

finished_digest(e, label) == <<label, e.dc.master, e.dc.log>>

(* The record in e's buffer, if all of it is the record that was sealed for this place. *)
SameRecord(buf) ==
    /\ Len(buf) = BodyUnits
    /\ \A i \in 1..BodyUnits : buf[i].part = i /\ buf[i].ok /\ buf[i].rec = buf[1].rec

verify_digest(e) ==
    /\ SameRecord(e.buf)
    /\ e.buf[1].rec.type = e.rtype
    /\ e.buf[1].rec.key = e.rx
    /\ e.buf[1].rec.seq = e.rseq

(* The keys come from the master secret and the two random values, which are this       *)
(* connection's own; the digest that the other end's finished message must have is      *)
(* worked out here, each time.                                                          *)
generate_key_block(e, c) == <<e.dc.master, c, e.cipher>>

set_key_block(e, c, is_write) ==
    LET block == IF e.dc.block = <<>> THEN generate_key_block(e, c) ELSE e.dc.block
        key(owner) == Append(block, owner)
        own == IF e.client THEN "client" ELSE "server"
        peer == IF e.client THEN "server" ELSE "client"
        d == [e EXCEPT !.dc.block = block, !.dc.mac = finished_digest(e, peer)]
    IN IF is_write THEN [d EXCEPT !.tx = key(own)] ELSE [d EXCEPT !.rx = key(peer)]

(* send_raw_packet ends with SET_SSL_FLAG(SSL_NEED_RECORD), whatever is being read. *)
send_raw_packet(w, type, msg, key, seq) ==
    [w EXCEPT !.out = Append(@, [type |-> type, msg |-> msg, key |-> key, seq |-> seq]),
              !.e.needrec = TRUE,
              !.ret = "ok"]

send_packet(w, type, msg) ==
    IF w.e.status = "dead" THEN Return(w, "conn_lost")
    ELSE LET logged == IF type = "handshake" /\ msg.hs # "HelloRequest"
                       THEN add_packet(w.e, msg) ELSE w.e
             sealed == IF w.e.tx # <<>> THEN increment_write_sequence(logged) ELSE logged
         IN send_raw_packet([w EXCEPT !.e = sealed], type, msg, w.e.tx, w.e.wseq)

send_alert(w, error) ==
    send_packet(w, "alert", Plain(IF error = "close_notify" THEN "close_notify" ELSE "fatal"))

send_certificate(w, certs) == send_packet(w, "handshake", Message("Certificate", 0, certs, <<>>))

send_change_cipher_spec(w, c) ==
    LET v == send_packet(w, "change_cipher_spec", Plain("ccs"))
    IN IF v.ret # "ok" THEN v
       ELSE [v EXCEPT !.e = [set_key_block(v.e, c, TRUE) EXCEPT !.wseq = ZeroSeq]]

(* The secret goes to ssl->session, which another connection may have freed by now. *)
send_finished(w) ==
    LET e == w.e
        store == ~e.resume /\ Len(w.tab) > 0
        there == \E i \in DOMAIN w.tab : w.tab[i] # 0 /\ w.tab[i] = e.sess
        label == IF e.client THEN "client" ELSE "server"
        v == IF store /\ there THEN [w EXCEPT !.heap[e.sess].master = e.dc.master]
             ELSE IF store THEN [w EXCEPT !.wild = e.dc.master] ELSE w
    IN send_packet(v, "handshake", Message("Finished", 0, <<>>, finished_digest(e, label)))

(* The end of the handshake, for the end that has to answer and for the other one. *)
process_finished(w, c, msg) ==
    LET e == w.e
        answer == send_change_cipher_spec(w, c)
        v == IF e.client = e.resume
             THEN IF answer.ret = "ok" THEN send_finished(answer) ELSE answer
             ELSE Return(w, "ok")
    IN IF e.dc.mac # msg.mac THEN Return(w, "finished_invalid")
       ELSE [v EXCEPT !.e.next = IF e.client THEN "HelloRequest" ELSE "ClientHello",
                      !.e.status = IF v.ret = "ok" THEN "ok" ELSE "error"]

(* A chain is a sequence of certificates, each "good" or "bad"; an empty one fails a check *)
(* on its length.  Only the client verifies here.                                          *)
process_certificate(w, certs) ==
    IF certs = <<>> THEN Return(w, "invalid_handshake")
    ELSE [w EXCEPT !.ret = IF w.e.client /\ "bad" \in {certs[i] : i \in DOMAIN certs}
                           THEN "bad_certificate" ELSE "ok",
                   !.e.next = IF w.e.client THEN "ServerHelloDone" ELSE "ClientKeyXchg"]

-----------------------------------------------------------------------------
(* The session cache. *)

session_free(tab, i) == [tab EXCEPT ![i] = 0]

Expired(w, i, now) == now > w.heap[w.tab[i]].time + SSL_EXPIRY_TIME

(* The oldest session, the last one of them in the table. *)
OldestSlot(w) ==
    CHOOSE i \in DOMAIN w.tab : \A j \in DOMAIN w.tab :
        \/ w.heap[w.tab[i]].time < w.heap[w.tab[j]].time
        \/ w.heap[w.tab[i]].time = w.heap[w.tab[j]].time /\ j <= i

(* A session for connection c: the one with this id, a new object in a free slot, or the   *)
(* object of the oldest session, of which only a few bytes are cleared.                    *)
ssl_session_update(w, c, now, id) ==
    LET n == Len(w.tab)
        same == {i \in 1..n : id # 0 /\ w.tab[i] # 0 /\ ~Expired(w, i, now)
                              /\ w.heap[w.tab[i]].id = id}
        found == IF same = {} THEN n + 1 ELSE Min(same)
        swept == [w EXCEPT !.tab = [i \in 1..n |->
                    IF id # 0 /\ i < found /\ w.tab[i] # 0 /\ Expired(w, i, now)
                    THEN 0 ELSE w.tab[i]]]
        free == {i \in 1..n : swept.tab[i] = 0}
        slot == IF free # {} THEN Min(free) ELSE OldestSlot(swept)
        object == swept.tab[slot]
    IN CASE n = 0 -> w
         [] n > 0 /\ same # {} ->
              [swept EXCEPT !.e.slot = found, !.e.sess = w.tab[found], !.e.resume = TRUE,
                            !.e.dc.master = w.heap[w.tab[found]].master]
         [] n > 0 /\ same = {} /\ free # {} ->
              [swept EXCEPT !.e.slot = slot, !.e.sess = c, !.tab[slot] = c,
                            !.heap[c] = [id |-> 0, master |-> 0, time |-> now]]
         [] OTHER ->
              [swept EXCEPT !.e.slot = slot, !.e.sess = object,
                            !.heap[object] = [id |-> Torn, master |-> Torn, time |-> now]]

(* The slot is 0, the first one, as long as the connection has not got a session. *)
kill_ssl_session(w) ==
    IF Len(w.tab) = 0 THEN w
    ELSE [w EXCEPT !.tab = session_free(@, w.e.slot), !.e.sess = 0]

(***************************************************************************)
(* The handshake of src/ssl/tls1_svr.c and src/ssl/tls1_clnt.c, and the    *)
(* reader of src/ssl/tls1.c that runs it.  opt holds the configuration of  *)
(* the two contexts: opt.auth (SSL_CLIENT_AUTHENTICATION), opt.scert and   *)
(* opt.ccert (the certificate chains).  The first element of the list of a *)
(* ClientHello is the version of the protocol, the others are the ciphers. *)
(***************************************************************************)

Send(w, msg) == send_packet(w, "handshake", msg)

\* Goes on only after SSL_OK.
Then(w, F(_)) == CHOOSE v \in {IF u.ret = "ok" THEN F(u) ELSE u : u \in {w}} : TRUE

-----------------------------------------------------------------------------
(* The server. *)

ssl_server_new == [ssl_new(FALSE) EXCEPT !.next = "ClientHello"]

ChooseCipher(e, offered) ==
    LET shared == {i \in DOMAIN ssl_prot_prefs : ssl_prot_prefs[i] \in ToSet(offered)}
    IN [e EXCEPT !.cipher = ssl_prot_prefs[Min(shared)]]

NoSharedCipher(offered) == ToSet(ssl_prot_prefs) \cap ToSet(offered) = {}

process_client_hello(w, c, now, msg) ==
    LET v == ssl_session_update(w, c, now, msg.id)
        offered == Tail(msg.list)
    IN CASE Head(msg.list) = "ssl3" -> Return(w, "invalid_version")
         [] Head(msg.list) # "ssl3" /\ NoSharedCipher(offered) -> Return(v, "no_cipher")
         [] OTHER -> Return([v EXCEPT !.e = ChooseCipher(@, offered)], "ok")

(* mutant: the id is told to the client and not stored in the cache *)
send_server_hello_NoStore(w, c) ==
    LET id == IF w.e.resume THEN w.heap[w.e.sess].id ELSE c
    IN Send([w EXCEPT !.e.id = id], Message("ServerHello", id, <<w.e.cipher>>, <<>>))

send_server_hello(w, c) ==
    LET id == IF w.e.resume THEN w.heap[w.e.sess].id ELSE c
        v == IF ~w.e.resume /\ Len(w.tab) > 0 THEN [w EXCEPT !.heap[w.e.sess].id = c] ELSE w
    IN Send([v EXCEPT !.e.id = id], Message("ServerHello", id, <<w.e.cipher>>, <<>>))

send_certificate_request(w) == Send(w, Plain("CertReq"))

send_server_hello_done(w) == Send(w, Plain("ServerHelloDone"))

Expect(w, next) == [w EXCEPT !.e.next = next]

send_server_hello_sequence(w, c, opt) ==
    LET hello == send_server_hello(w, c)
        finish(v) == Then(send_change_cipher_spec(v, c),
                          LAMBDA u : Expect(send_finished(u), "Finished"))
        request(v) == Then(send_certificate_request(v),
                           LAMBDA u : Expect(send_server_hello_done(u), "Certificate"))
        done(v) == Expect(send_server_hello_done(v), "ClientKeyXchg")
        offer(v) == Then(send_certificate(v, opt.scert),
                         LAMBDA u : IF opt.auth THEN request(u) ELSE done(u))
    IN Then(hello, LAMBDA v : IF v.e.resume THEN finish(v) ELSE offer(v))

(* The hybrid hello: one read takes what is there of it, and what is missing is missing in *)
(* the transcript as well; misread: the ciphers were in the missing part.                  *)
process_sslv23_client_hello(w, c, now, opt, msg, whole, misread) ==
    LET logged == [w EXCEPT !.e = add_packet(@, IF whole THEN msg ELSE Plain("cut"))]
        offered == Tail(msg.list)
        v == ssl_session_update([logged EXCEPT !.e = ChooseCipher(@, offered)], c, now, msg.id)
    IN CASE Head(msg.list) = "ssl3" -> Return(w, "invalid_version")
         [] Head(msg.list) # "ssl3" /\ (misread \/ NoSharedCipher(offered)) ->
              Return(logged, "no_cipher")
         [] OTHER -> send_server_hello_sequence(Return(v, "ok"), c, opt)

(* RSA gives back what the client has sealed for this connection. *)
process_client_key_xchg(w, c, opt) ==
    [w EXCEPT !.e.dc.master = c,
              !.e.next = IF opt.auth THEN "CertVerify" ELSE "Finished",
              !.ret = "ok"]

process_cert_verify(w, msg) ==
    [w EXCEPT !.e.next = "Finished",
              !.ret = IF msg.list # <<>> /\ msg.mac = <<w.e.dc.log>> THEN "ok" ELSE "invalid_key"]

do_svr_handshake(w0, c, now, opt, msg) ==
    LET w == [w0 EXCEPT !.e.status = "not_ok"]
    IN CASE msg.hs = "ClientHello" ->
              Then(process_client_hello(w, c, now, msg),
                   LAMBDA v : send_server_hello_sequence(v, c, opt))
         [] msg.hs = "Certificate" ->
              Then(process_certificate(w, msg.list),
                   LAMBDA v : Return(v, IF "bad" \in ToSet(msg.list)
                                        THEN "bad_certificate" ELSE "ok"))
         [] msg.hs = "CertVerify" ->
              LET v == process_cert_verify(w, msg) IN [v EXCEPT !.e = add_packet(@, msg)]
         [] msg.hs = "ClientKeyXchg" -> process_client_key_xchg(w, c, opt)
         [] msg.hs = "Finished" ->
              [process_finished(w, c, msg) EXCEPT !.e.dc = disposable_free]
         [] OTHER -> Return(w, "ok")

-----------------------------------------------------------------------------
(* The client. *)

send_client_hello(w, offer) ==
    LET hello == Message("ClientHello", IF w.e.resume THEN w.e.id ELSE 0, offer, <<>>)
    IN Send([w EXCEPT !.e.resume = FALSE], hello)

(* ssl_client_new up to the first read of do_client_connect. *)
ssl_client_new(w, id, offer) ==
    LET e == IF id # 0 /\ Len(w.tab) > 0
             THEN [ssl_new(TRUE) EXCEPT !.id = id, !.resume = TRUE]
             ELSE ssl_new(TRUE)
    IN Expect(send_client_hello([w EXCEPT !.e = e], offer), "ServerHello")

process_server_hello(w, c, now, msg) ==
    LET v == ssl_session_update(w, c, now, msg.id)
        kept == IF Len(w.tab) > 0 THEN [v EXCEPT !.heap[v.e.sess].id = msg.id] ELSE v
    IN [kept EXCEPT !.e.id = msg.id, !.e.cipher = msg.list[1],
                    !.e.next = IF v.e.resume THEN "Finished" ELSE "Certificate",
                    !.ret = "ok"]

process_server_hello_done(w) == Return(Expect(w, "Finished"), "ok")

process_cert_req(w) == Return([Expect(w, "ServerHelloDone") EXCEPT !.e.certreq = TRUE], "ok")

send_client_key_xchg(w, c) == Send([w EXCEPT !.e.dc.master = c], Plain("ClientKeyXchg"))

send_cert_verify(w, opt) == Send(w, Message("CertVerify", 0, opt.ccert, <<w.e.dc.log>>))

do_clnt_handshake(w, c, now, opt, msg) ==
    LET done == process_server_hello_done(w)
        prove(v) == Return(send_cert_verify(v, opt), "ok")
        keys == IF ~w.e.certreq THEN send_client_key_xchg(done, c)
                ELSE Then(Then(send_certificate(done, opt.ccert),
                               LAMBDA v : send_client_key_xchg(v, c)),
                          prove)
    IN CASE msg.hs = "ServerHello" -> process_server_hello(w, c, now, msg)
         [] msg.hs = "Certificate" -> process_certificate(w, msg.list)
         [] msg.hs = "CertReq" -> process_cert_req(w)
         [] msg.hs = "ServerHelloDone" ->
              Then(Then(keys, LAMBDA v : send_change_cipher_spec(v, c)), send_finished)
         [] msg.hs = "Finished" ->
              [process_finished(w, c, msg) EXCEPT !.e.dc = disposable_free]
         [] OTHER -> Return(w, "ok")

-----------------------------------------------------------------------------
(* The reader. *)

do_handshake(w, c, now, opt, msg) ==
    LET e == w.e
        special == e.client /\ msg.hs = "CertReq" /\ e.next = "ServerHelloDone"
        v == IF msg.hs \in {"CertVerify", "HelloRequest"} THEN w
             ELSE [w EXCEPT !.e = add_packet(@, msg)]
    IN CASE msg.hs # e.next /\ ~special -> Return(w, "invalid_handshake")
         [] (msg.hs = e.next \/ special) /\ e.client -> do_clnt_handshake(v, c, now, opt, msg)
         [] OTHER -> do_svr_handshake(v, c, now, opt, msg)

\* The data in the buffer; 0: none that anybody has written.
Payload(buf) == IF SameRecord(buf) THEN buf[1].rec.msg.id ELSE 0

(* What a record means, once it is complete and its digest is right. *)
Dispatch(w, c, now, opt, rec) ==
    CASE rec.type = "handshake" /\ ~w.e.dc.on -> Return(w, "no_client_renog")
      [] rec.type = "handshake" /\ w.e.dc.on -> do_handshake(w, c, now, opt, rec.msg)
      [] rec.type = "change_cipher_spec" /\ w.e.next # "Finished" ->
           Return(w, "invalid_handshake")
      [] rec.type = "change_cipher_spec" /\ w.e.next = "Finished" ->
           Return([w EXCEPT !.e = [set_key_block(@, c, FALSE) EXCEPT !.rseq = ZeroSeq]], "ok")
      [] rec.type = "data" -> Return([w EXCEPT !.data = Payload(w.e.buf)], "data")
      [] OTHER -> Return(w, IF rec.msg.hs = "close_notify" THEN "ok" ELSE "peer_alert")

(* A header that is none: its length is too long, or it is the number junk. *)
ReadHeader(w, junk) ==
    LET u == w.e.buf[1]
        real == Len(w.e.buf) = HeaderUnits /\ u.part = 0 /\ u.ok
    IN CASE real /\ u.rec.type = "v23" -> Return([w EXCEPT !.e.rtype = "v23"], "ok")
         [] real /\ u.rec.type # "v23" ->
              Return([w EXCEPT !.e.needrec = FALSE, !.e.need = BodyUnits,
                               !.e.rtype = u.rec.type], "ok")
         [] ~real /\ junk = 0 -> Return(w, "invalid_prot_msg")
         [] OTHER ->
              Return([w EXCEPT !.e.needrec = FALSE, !.e.need = junk, !.e.rtype = "junk"], "ok")

NextRecord(e) == [e EXCEPT !.needrec = TRUE, !.need = HeaderUnits]

ReadRecordBody(w0, c, now, opt) ==
    LET w == [w0 EXCEPT !.e = NextRecord(@)]
        rec == w.e.buf[1].rec
    IN CASE w.e.rx # <<>> /\ ~verify_digest(w.e) -> Return(w, "invalid_hmac")
         [] w.e.rx # <<>> /\ verify_digest(w.e) ->
              Dispatch([w EXCEPT !.e = increment_read_sequence(@)], c, now, opt, rec)
         [] w.e.rx = <<>> /\ SameRecord(w.e.buf) /\ rec.key = <<>> ->
              Dispatch(w, c, now, opt, rec)
         [] OTHER -> Return(w, "invalid_prot_msg")

(* The units of one SOCKET_READ; none of them: the connection has gone. *)
basic_read(w0, c, now, opt, units, junk) ==
    LET w == [w0 EXCEPT !.e.buf = @ \o units]
        v == IF w.e.needrec THEN ReadHeader(w, junk) ELSE ReadRecordBody(w, c, now, opt)
        hello == w.e.rtype = "v23"
        whole == Len(units) = BodyUnits
        first == process_sslv23_client_hello([w EXCEPT !.e.rtype = "none"], c, now, opt,
                                             w.e.buf[1].rec.msg, whole, ~whole /\ junk = 0)
    IN CASE units = <<>> -> Return([w EXCEPT !.e.status = "dead", !.e.buf = <<>>], "conn_lost")
         [] units # <<>> /\ hello -> [first EXCEPT !.e.buf = <<>>]
         [] units # <<>> /\ ~hello /\ Len(w.e.buf) < w.e.need -> Return(w, "ok")
         [] OTHER -> [v EXCEPT !.e.buf = <<>>]

(* What ssl_read and do_client_connect do when basic_read has failed. *)
ssl_read(v) ==
    IF v.ret \in {"ok", "data", "conn_lost"} THEN v
    ELSE Return(kill_ssl_session(send_alert(v, v.ret)), v.ret)
=============================================================================
