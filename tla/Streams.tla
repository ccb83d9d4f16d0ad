------------------------------- MODULE Streams --------------------------------
(***************************************************************************)
(* Both directions of a connection's byte streams: requests of a client    *)
(* and the reply of a proxy's backend.  A behaviour is about one of them.  *)
(***************************************************************************)
EXTENDS Integers, Sequences

(***************************************************************************)
(* How the bytes of a client's requests pass through the buffer of a       *)
(* connection: Connection_read_header, the body loops of                   *)
(* connection_http_to_handler and connection_upload_file, the streaming of *)
(* connection_proxy_deliver, and recv in plain text or through SSL.        *)
(*                                                                         *)
(* A byte is its place in everything the client sends; a byte of memory    *)
(* that was never written is 0.  Each request is HEADER bytes and its      *)
(* content.  What recv returns depends on the network and on the client,   *)
(* which may pipeline its requests or wait for each answer.                *)
(***************************************************************************)

CONSTANTS
    BUFFER_SIZE,
    MAX_CONTENT_LENGTH,
    HEADER,             (* the length of a request's head *)
    Conversations,      (* the sequences of requests a client may send, each with the place
                           behind which it starts *)
    RECORD              (* the most bytes of one SSL record *)

(* A client sends its requests one behind the other. *)
ASSUME ConversationsAssumption ==
    /\ BUFFER_SIZE \in Nat \ {0} /\ HEADER \in Nat \ {0} /\ MAX_CONTENT_LENGTH \in Nat /\ RECORD \in Nat
    /\ Conversations # {}
    /\ \A c \in Conversations :
        /\ c \in Seq([path : {"handler", "proxy", "dir"}, content : Nat, base : Nat])
        /\ c # <<>> /\ c[1].base = 0
        /\ \A i \in 1 .. Len(c) - 1 : c[i + 1].base = c[i].base + HEADER + c[i].content

VARIABLES
    client,     (* requests, whether it pipelines, uses SSL, has a temp_store *)
    pc,         (* where the connection's task is *)
    pos,        (* how many bytes recv has taken from the network *)
    buf,        (* conn->buf *)
    nread, nparsed,
    parse,      (* the request parser: the request, its bytes seen, an error *)
    ssl_buff,   (* where in buf the rest of a record is thought to be, and its length *)
    loop,       (* remaining and the place of the next byte, of the loop at pc *)
    got,        (* every byte recv returned *)
    oversize,   (* some SSL record was longer than recv was asked for *)
    early,      (* the content that was read together with the head *)
    answered,   (* the number of requests that were answered *)
    payloads,   (* what handlers were sent: request and content *)
    upstream,   (* what the proxy's backend was sent *)
    file,       (* the upload file *)
    fd0         (* descriptor 0 is open *)

requestVars == <<client, pc, pos, buf, nread, nparsed, parse, ssl_buff, loop, got, oversize, early,
                 answered, payloads, upstream, file, fd0>>

-----------------------------------------------------------------------------
(* The stream. *)
Request(k) == client.requests[k]
Total(k) == HEADER + Request(k).content
Base(k) == Request(k).base
EndOf(k) == Base(k) + Total(k)
Numbers == 1 .. Len(client.requests)
StreamEnd == EndOf(Len(client.requests))
Bytes(from, to) == [i \in 1 .. to - from + 1 |-> from + i - 1]
Body(k) == Bytes(Base(k) + HEADER + 1, EndOf(k))

(* How far the client has sent. *)
Limit == IF client.pipelines \/ answered >= Len(client.requests) THEN StreamEnd
         ELSE EndOf(answered + 1)

Smaller(a, b) == IF a < b THEN a ELSE b
Memory(at) == IF at \in DOMAIN buf THEN buf[at] ELSE 0
Write(at, bytes) == [i \in DOMAIN buf |-> IF i \in at .. at + Len(bytes) - 1 THEN bytes[i - at + 1] ELSE buf[i]]

-----------------------------------------------------------------------------
(* conn->recv.  An outcome has the bytes copied to at; none when the peer  *)
(* has closed or nothing was asked for.                                    *)
Outcome(bytes, taken, stash, over) == [bytes |-> bytes, pos |-> taken, stash |-> stash, over |-> over]
Nothing == Outcome(<<>>, pos, ssl_buff, FALSE)
NoStash == [at |-> 0, len |-> -1]

plaintext_recv(len) ==
    {Outcome(Bytes(pos + 1, pos + n), pos + n, NoStash, FALSE) : n \in 1 .. Smaller(len, Limit - pos)}

(* The rest of a record is looked for behind the caller's buffer.  A stash *)
(* that was used up exactly stays, and the next call returns 0.            *)
ssl_recv(to, len) ==
    IF ssl_buff.len >= 0
    THEN LET n == Smaller(ssl_buff.len, len)
         IN  {Outcome([i \in 1 .. n |-> Memory(ssl_buff.at + i - 1)], pos,
                      IF ssl_buff.len < len THEN NoStash
                      ELSE [at |-> ssl_buff.at + n, len |-> ssl_buff.len - n], FALSE)}
    ELSE {Outcome(Bytes(pos + 1, pos + Smaller(n, len)), pos + n,
                  IF n > len THEN [at |-> to + len, len |-> n - len] ELSE NoStash, n > len) :
            n \in 1 .. Smaller(RECORD, Limit - pos)}

recv(to, len) == {Nothing} \cup
    (IF len <= 0 THEN {} ELSE IF client.ssl THEN ssl_recv(to, len) ELSE plaintext_recv(len))

(* The effect of an outcome apart from where the bytes go. *)
Taken(o) ==
    /\ pos' = o.pos
    /\ ssl_buff' = o.stash
    /\ got' = got \o o.bytes
    /\ oversize' = (oversize \/ o.over)

NothingTaken == UNCHANGED <<pos, ssl_buff, got, oversize>>

(* The connection is closed. *)
Close ==
    /\ pc' = "closed"
    /\ UNCHANGED <<client, buf, nread, nparsed, parse, loop, early, answered, payloads, upstream, file>>

-----------------------------------------------------------------------------
(* Connection_read_header. *)
Fresh == [request |-> 0, seen |-> 0, error |-> FALSE]

(* http_parser_execute, as far as heads follow one another: a head is its  *)
(* bytes in order, anything else is an error.                              *)
Request_parse(p, memory, from, to) ==
    LET n == Smaller(HEADER - p.seen, to - from)
        InMemory(i) == IF i \in DOMAIN memory THEN memory[i] ELSE 0
        heads == {h \in IF p.seen = 0 THEN Numbers ELSE {p.request} :
                    \A i \in 0 .. n - 1 : InMemory(from + i) = Base(h) + p.seen + i + 1}
    IN  IF p.error \/ n <= 0 THEN p
        ELSE IF heads = {} THEN [p EXCEPT !.error = TRUE]
        ELSE [p EXCEPT !.request = CHOOSE h \in heads : TRUE, !.seen = @ + n]

(* The first read goes to the start of the buffer, whatever nread is. *)
StartHeader(kept) ==
    /\ pc' = "header"
    /\ nread' = kept
    /\ nparsed' = 0
    /\ parse' = Fresh
    /\ loop' = [remaining |-> BUFFER_SIZE - 1, at |-> 0]

(* connection_parse, and connection_proxy_req_parse, which keeps nread. *)
connection_parse(kept) == StartHeader(kept)

Finished(p) == ~p.error /\ p.seen = HEADER

(* One turn of the loop.  After an error the loop goes on until recv       *)
(* fails, since only remaining is tested.  (nparsed matters only while the *)
(* parser is neither finished nor in error, and then it is nread.)         *)
Connection_read_header ==
    /\ pc = "header"
    /\ \E o \in recv(loop.at, loop.remaining) :
        /\ Taken(o)
        /\ LET memory == Write(loop.at, o.bytes)
               total == nread + Len(o.bytes)
               parsed == Request_parse(parse, memory, nparsed, total)
           IN  IF o.bytes = <<>> THEN Close /\ UNCHANGED fd0
               ELSE /\ buf' = memory
                    /\ nread' = total
                    /\ parse' = parsed
                    /\ nparsed' = total
                    /\ loop' = [remaining |-> BUFFER_SIZE - 1 - total, at |-> total]
                    /\ pc' = IF Finished(parsed) THEN "route"
                             ELSE IF BUFFER_SIZE - 1 - total < 0 THEN "closed" ELSE "header"
                    /\ early' = IF Finished(parsed) THEN total - HEADER ELSE 0
                    /\ UNCHANGED <<client, answered, payloads, upstream, file, fd0>>

-----------------------------------------------------------------------------
(* connection_http_to_handler. *)
k == parse.request
ToHandler == pc = "route" /\ Request(k).path = "handler"

(* The payload is taken from behind the head. *)
Content == [i \in 1 .. Request(k).content |-> Memory(HEADER + i - 1)]

Deliver(payload) ==
    /\ payloads' = Append(payloads, [request |-> k, content |-> payload])
    /\ answered' = answered + 1
    /\ connection_parse(0)

EmptyBody ==
    /\ ToHandler /\ Request(k).content = 0
    /\ Deliver(<<>>)
    /\ NothingTaken
    /\ UNCHANGED <<client, buf, early, upstream, file, fd0>>

BodyInBuffer ==
    /\ ToHandler /\ Request(k).content \in 1 .. MAX_CONTENT_LENGTH /\ nread >= Total(k)
    /\ Deliver(Content)
    /\ NothingTaken
    /\ UNCHANGED <<client, buf, early, upstream, file, fd0>>

(* The buffer grows to the request; what is left to read is counted from   *)
(* the whole content.                                                      *)
Grown == [i \in 0 .. Total(k) - 1 |-> Memory(i)]
RemainingBody == Request(k).content
StartBody ==
    /\ ToHandler /\ Request(k).content \in 1 .. MAX_CONTENT_LENGTH /\ nread < Total(k)
    /\ buf' = IF Total(k) > BUFFER_SIZE THEN Grown ELSE buf
    /\ pc' = "body"
    /\ loop' = [remaining |-> RemainingBody, at |-> nread]
    /\ NothingTaken
    /\ UNCHANGED <<client, nread, nparsed, parse, early, answered, payloads, upstream, file, fd0>>

(* A write behind the buffer is undefined: the run ends there. *)
ReadBody ==
    /\ pc = "body" /\ loop.remaining > 0
    /\ \E o \in recv(loop.at, loop.remaining) :
        /\ Taken(o)
        /\ IF o.bytes = <<>> THEN Close /\ UNCHANGED fd0
           ELSE /\ pc' = IF loop.at + Len(o.bytes) - 1 \in DOMAIN buf THEN "body" ELSE "overrun"
                /\ buf' = Write(loop.at, o.bytes)
                /\ loop' = [remaining |-> loop.remaining - Len(o.bytes), at |-> loop.at + Len(o.bytes)]
                /\ UNCHANGED <<client, nread, nparsed, parse, early, answered, payloads, upstream, file, fd0>>

BodyRead ==
    /\ pc = "body" /\ loop.remaining = 0
    /\ Deliver(Content)
    /\ NothingTaken
    /\ UNCHANGED <<client, buf, early, upstream, file, fd0>>

(* connection_upload_file.  Its error path closes tmpfd, which is 0 until  *)
(* the file is made.                                                       *)
NoTempStore ==
    /\ ToHandler /\ Request(k).content > MAX_CONTENT_LENGTH /\ ~client.temp_store
    /\ fd0' = FALSE
    /\ Close
    /\ NothingTaken

UploadCount(written) == Request(k).content - written

StartUpload ==
    /\ ToHandler /\ Request(k).content > MAX_CONTENT_LENGTH /\ client.temp_store
    /\ file' = [i \in 1 .. nread - HEADER |-> Memory(HEADER + i - 1)]
    /\ nread' = 0
    /\ pc' = "upload"
    /\ loop' = [remaining |-> UploadCount(nread - HEADER), at |-> 0]
    /\ NothingTaken
    /\ UNCHANGED <<client, buf, nparsed, parse, early, answered, payloads, upstream, fd0>>

ReadUpload ==
    /\ pc = "upload" /\ loop.remaining > 0
    /\ \E o \in recv(0, Smaller(loop.remaining, BUFFER_SIZE)) :
        /\ Taken(o)
        /\ IF o.bytes = <<>> THEN Close /\ UNCHANGED fd0
           ELSE /\ buf' = Write(0, o.bytes)
                /\ file' = file \o o.bytes
                /\ loop' = [loop EXCEPT !.remaining = @ - Len(o.bytes)]
                /\ UNCHANGED <<client, pc, nread, nparsed, parse, early, answered, payloads, upstream, fd0>>

(* The handler is sent the name of the file; more than the content is an   *)
(* error.                                                                  *)
UploadDone ==
    /\ pc = "upload" /\ loop.remaining <= 0
    /\ NothingTaken
    /\ IF loop.remaining = 0
       THEN Deliver(file) /\ UNCHANGED <<client, buf, early, upstream, file, fd0>>
       ELSE Close /\ UNCHANGED fd0

-----------------------------------------------------------------------------
(* connection_http_to_directory does not read the content. *)
connection_http_to_directory ==
    /\ pc = "route" /\ Request(k).path = "dir"
    /\ answered' = answered + 1
    /\ connection_parse(0)
    /\ NothingTaken
    /\ UNCHANGED <<client, buf, early, payloads, upstream, file, fd0>>

(* connection_proxy_deliver: the request in the buffer, more than it, or   *)
(* less; the answer follows and connection_proxy_req_parse goes on.        *)
ToProxy == pc = "route" /\ Request(k).path = "proxy"
Sent(n) == upstream \o [i \in 1 .. n |-> Memory(i - 1)]

proxy_deliver_more ==
    /\ ToProxy /\ Total(k) < nread
    /\ upstream' = Sent(Total(k))
    /\ buf' = [i \in DOMAIN buf |-> IF i < nread - Total(k) THEN Memory(Total(k) + i) ELSE buf[i]]
    /\ answered' = answered + 1
    /\ connection_parse(nread - Total(k))
    /\ NothingTaken
    /\ UNCHANGED <<client, early, payloads, file, fd0>>

proxy_deliver_all ==
    /\ ToProxy /\ Total(k) = nread
    /\ upstream' = Sent(Total(k))
    /\ answered' = answered + 1
    /\ connection_parse(0)
    /\ NothingTaken
    /\ UNCHANGED <<client, buf, early, payloads, file, fd0>>

(* The loop sends what the buffer holds and reads as much as it can take. *)
proxy_deliver_less ==
    /\ ToProxy /\ Total(k) > nread
    /\ upstream' = Sent(nread)
    /\ pc' = "stream"
    /\ loop' = [remaining |-> Total(k) - nread, at |-> 0]
    /\ NothingTaken
    /\ UNCHANGED <<client, buf, nread, nparsed, parse, early, answered, payloads, file, fd0>>

proxy_deliver_stream ==
    /\ pc = "stream"
    /\ \E o \in recv(0, BUFFER_SIZE) :
        /\ Taken(o)
        /\ IF o.bytes = <<>> THEN Close /\ UNCHANGED fd0
           ELSE /\ buf' = Write(0, o.bytes)
                /\ upstream' = upstream \o o.bytes
                /\ IF loop.remaining > Len(o.bytes)
                   THEN /\ loop' = [loop EXCEPT !.remaining = @ - Len(o.bytes)]
                        /\ nread' = Len(o.bytes)
                        /\ UNCHANGED <<pc, nparsed, parse, answered>>
                   ELSE answered' = answered + 1 /\ connection_parse(0)
                /\ UNCHANGED <<client, early, payloads, file, fd0>>

-----------------------------------------------------------------------------
RequestInit ==
    /\ client \in [requests : Conversations, pipelines : BOOLEAN, ssl : BOOLEAN, temp_store : BOOLEAN]
    /\ pc = "header"
    /\ pos = 0
    /\ buf = [i \in 0 .. BUFFER_SIZE |-> 0]
    /\ nread = 0 /\ nparsed = 0
    /\ parse = Fresh
    /\ ssl_buff = NoStash
    /\ loop = [remaining |-> BUFFER_SIZE - 1, at |-> 0]
    /\ got = <<>> /\ oversize = FALSE /\ early = 0 /\ answered = 0
    /\ payloads = <<>> /\ upstream = <<>> /\ file = <<>>
    /\ fd0 = TRUE

RequestNext ==
    \/ Connection_read_header
    \/ EmptyBody \/ BodyInBuffer \/ StartBody \/ ReadBody \/ BodyRead
    \/ NoTempStore \/ StartUpload \/ ReadUpload \/ UploadDone
    \/ connection_http_to_directory
    \/ proxy_deliver_more \/ proxy_deliver_all \/ proxy_deliver_less \/ proxy_deliver_stream

-----------------------------------------------------------------------------
(* Only an SSL record longer than the caller asked for disturbs the order  *)
(* in which recv hands out the client's bytes.                             *)
BytesInOrder == oversize \/ got = Bytes(1, Len(got))

(* A handler is sent exactly the content of the request it is sent,        *)
(* however the bytes arrived and whatever was read too early or too much;  *)
(* but not after a pipelined request left bytes behind for the proxy.      *)
Disturbed == oversize \/ (client.pipelines /\ upstream # <<>>)
HandlersGetTheContent ==
    \/ Disturbed
    \/ \A i \in DOMAIN payloads : payloads[i].content = Body(payloads[i].request)

(* The backend of a proxy is sent whole requests in the order of the       *)
(* client, as long as the client waits for its answers.                    *)
UpstreamGetsRequests ==
    (~oversize /\ ~client.pipelines /\ upstream # <<>>) =>
        LET starts == {Base(n) + 1 : n \in {m \in Numbers : Request(m).path = "proxy"}}
        IN  \A i \in DOMAIN upstream :
              upstream[i] \in starts \/ (i > 1 /\ upstream[i] = upstream[i - 1] + 1)

(* The task never waits for more of a request that has arrived completely, *)
(* which a client that waits for the answer would never send: except in    *)
(* the body loop when a part of the content came with the head, since the  *)
(* loop counts from the whole content.                                     *)
WaitsOnlyForMore ==
    pc \in {"body", "upload", "stream"} /\ ~client.pipelines /\ loop.remaining > 0 =>
        oversize \/ pos < EndOf(k) \/ (pc = "body" /\ early > 0)

(* Nor does it write behind its buffer otherwise. *)
OverrunsOnlyThere == pc = "overrun" => early > 0

(***************************************************************************)
(* How the bytes of an upstream's reply pass through proxy_buf to the      *)
(* client: proxy.c and connection_proxy_reply_parse.                       *)
(*                                                                         *)
(* A byte is its place in the reply; memory that was never written and the *)
(* terminator are 0.  A reply is a head and its content: of a given        *)
(* length, in chunks, or up to the close.  A chunk is its size in two      *)
(* digits, CR and LF, its data, CR and LF.  fdrecv returns what the        *)
(* network brings.                                                         *)
(***************************************************************************)

CONSTANTS
    PROXY_BUFFER,   (* BUFFER_SIZE *)
    REPLY_HEAD,     (* the length of a reply's head *)
    ReplyKinds      (* the replies: kind, chunks or content, surplus, and whether they break off *)

(* Chunks follow the head and one another, and only the last is empty.  A  *)
(* reply up to the close cannot break off.                                 *)
ASSUME RepliesAssumption ==
    /\ PROXY_BUFFER \in Nat \ {0} /\ REPLY_HEAD \in Nat \ {0}
    /\ ReplyKinds # {}
    /\ \A r \in ReplyKinds :
        /\ r.kind \in {"length", "close", "chunks"} /\ r.content \in Nat /\ r.surplus \in Nat /\ r.cut \in BOOLEAN
        /\ r.kind = "close" => ~r.cut
        /\ r.chunks \in Seq([start : Nat, size : Nat])
        /\ r.kind = "chunks" <=> r.chunks # <<>>
        /\ r.chunks # <<>> => r.chunks[1].start = REPLY_HEAD
        /\ \A i \in 1 .. Len(r.chunks) - 1 : r.chunks[i + 1].start = r.chunks[i].start + r.chunks[i].size + 6
        /\ \A i \in 1 .. Len(r.chunks) : r.chunks[i].size = 0 <=> i = Len(r.chunks)

VARIABLES
    reply,          (* what the upstream sends *)
    at,             (* where the task is *)
    rpos,           (* how much of the reply was received *)
    proxy_buf,
    rnread,         (* nread of the function the task is in *)
    chunk,          (* the httpclient_parser: body_start, content_len, chunked, chunks_done *)
    total,      (* of Proxy_stream_response; before it, end of scan_chunks *)
    remaining,  (* of Proxy_stream_response *)
    relayed,        (* what the client was sent *)
    aligned         (* no read has ended inside a chunk's head or one byte behind a chunk *)

replyVars == <<reply, at, rpos, proxy_buf, rnread, chunk, total, remaining, relayed, aligned>>

-----------------------------------------------------------------------------
Range1(n) == [i \in 1 .. n |-> i]

(* What the bytes of a chunk are: digits of its size, CR, LF, data, CR and LF. *)
Chunks == DOMAIN reply.chunks
ChunkStart(i) == reply.chunks[i].start
ChunkSize(i) == reply.chunks[i].size
IsSize(b) == \E i \in Chunks : b - ChunkStart(i) \in {1, 2}
IsReturn(b) == \E i \in Chunks : b - ChunkStart(i) \in {3, ChunkSize(i) + 5}
IsFeed(b) == \E i \in Chunks : b - ChunkStart(i) \in {4, ChunkSize(i) + 6}
SizeAt(b) == ChunkSize(CHOOSE i \in Chunks : b - ChunkStart(i) \in {1, 2})

Length == IF reply.kind # "chunks" THEN REPLY_HEAD + reply.content
          ELSE ChunkStart(Len(reply.chunks)) + ChunkSize(Len(reply.chunks)) + 6
Available == IF reply.cut THEN Length - 1 ELSE Length + reply.surplus

Least(a, b) == IF a < b THEN a ELSE b
Store(from, bytes) == [i \in DOMAIN proxy_buf |->
                         IF i \in from .. from + Len(bytes) - 1 THEN bytes[i - from + 1] ELSE proxy_buf[i]]
Stored(from, n) == [i \in 1 .. n |-> proxy_buf[from + i - 1]]

(* fdrecv: 0 at the end of what the upstream sends. *)
fdrecv(len) == IF rpos = Available THEN {<<>>}
               ELSE {[i \in 1 .. n |-> rpos + i] : n \in 1 .. Least(len, Available - rpos)}

(* A read that ends in a chunk's head, which may be all it brings behind   *)
(* another chunk.                                                          *)
EndsBadly(end) == IsSize(end) \/ IsSize(end - 1)

-----------------------------------------------------------------------------
(* httpclient_parser_execute for memory from place off up to n: what it    *)
(* finds there, as far as proxy.c looks.  A chunk is known at the CR       *)
(* behind its size, its body_start only at the LF.  Anything but a size or *)
(* a head is an error.                                                     *)
Found(chunked, start, size, done) ==
    [chunked |-> chunked, body_start |-> start, content_len |-> size, chunks_done |-> done, error |-> FALSE]
NoChunk == Found(FALSE, 0, -1, FALSE)
Malformed == [chunked |-> FALSE, body_start |-> 0, content_len |-> -1, chunks_done |-> FALSE, error |-> TRUE]

ChunkHead(memory, n, off) ==
    LET size == SizeAt(memory[off])
        cr == IF off + 1 < n /\ IsSize(memory[off + 1]) THEN off + 2 ELSE off + 1
    IN  IF cr >= n THEN NoChunk
        ELSE IF ~IsReturn(memory[cr]) \/ (cr + 1 < n /\ ~IsFeed(memory[cr + 1])) THEN Malformed
        ELSE Found(TRUE, IF cr + 1 < n THEN cr + 2 ELSE 0, size, size = 0)

ReplyHead(memory, n, off) ==
    IF \E i \in 1 .. Least(REPLY_HEAD, n - off) : memory[off + i - 1] # i THEN Malformed
    ELSE IF n - off < REPLY_HEAD THEN NoChunk
    ELSE Found(reply.kind = "chunks", off + REPLY_HEAD,
               IF reply.kind = "length" THEN reply.content ELSE -1, FALSE)

ParseAt(memory, n, off) ==
    IF off >= n THEN NoChunk
    ELSE IF memory[off] = 1 THEN ReplyHead(memory, n, off)
    ELSE IF IsSize(memory[off]) THEN ChunkHead(memory, n, off)
    ELSE Malformed

-----------------------------------------------------------------------------
(* Proxy_read_and_parse: the head must come with the first read. *)
Proxy_read_and_parse ==
    /\ at = "read"
    /\ \E bytes \in fdrecv(PROXY_BUFFER) :
        LET memory == [Store(0, bytes) EXCEPT ![Len(bytes)] = 0]
            found == IF bytes = <<>> THEN Malformed
                     ELSE ParseAt(memory, Len(bytes), 0)
        IN  /\ proxy_buf' = memory
            /\ rpos' = rpos + Len(bytes)
            /\ rnread' = Len(bytes)
            /\ chunk' = found
            /\ aligned' = ~EndsBadly(rpos + Len(bytes))
            /\ at' = IF found.error \/ found.body_start = 0 THEN "failed"
                     ELSE IF found.chunked THEN "scan"
                     ELSE IF found.content_len >= 0 THEN "respond" ELSE "relay"
            /\ total' = found.body_start
            /\ UNCHANGED <<reply, remaining, relayed>>

(* Proxy_stream_response(total, n) sends the first n bytes of the buffer,  *)
(* then asserts that not more than total was sent.                         *)
BeginResponse(all, n) ==
    /\ relayed' = relayed \o Stored(0, n)
    /\ total' = all
    /\ remaining' = all - n
    /\ at' = CASE all - n < 0 -> "abort"
               [] all - n = 0 -> IF chunk'.chunked \/ at = "scan" THEN "streamed" ELSE "done"
               [] OTHER -> IF chunk'.chunked \/ at = "scan" THEN "chunk body" ELSE "body"

RespondTotal == chunk.body_start + chunk.content_len
RespondLength ==
    /\ at = "respond"
    /\ chunk' = chunk
    /\ BeginResponse(RespondTotal, rnread)
    /\ UNCHANGED <<reply, rpos, proxy_buf, rnread, aligned>>

(* The loop of Proxy_stream_response; a closed upstream makes it read and  *)
(* send nothing, for ever.                                                 *)
RemainingAfter(n) == remaining - n
Wanted == Least(remaining, PROXY_BUFFER)
Proxy_stream_response ==
    /\ at \in {"body", "chunk body"}
    /\ \E bytes \in fdrecv(Wanted) :
        /\ proxy_buf' = Store(0, bytes)
        /\ rpos' = rpos + Len(bytes)
        /\ relayed' = relayed \o bytes
        /\ remaining' = RemainingAfter(Len(bytes))
        /\ at' = CASE remaining' > 0 -> at
                   [] remaining' < 0 -> "abort"
                   [] OTHER -> IF at = "body" THEN "done" ELSE "streamed"
        /\ UNCHANGED <<reply, rnread, chunk, total, aligned>>

(* Proxy_stream_chunks sends what the buffer has up to the end of the last *)
(* chunk in it, and then streams the rest of that chunk.                   *)
SendChunks(end) == BeginResponse(end, Least(end, rnread))

(* One turn of scan_chunks, and what follows the last.  A size whose LF is *)
(* missing leads back into the buffer, perhaps for ever.                   *)
ChunkEnd_NoEnd(parsed) == parsed.body_start + parsed.content_len
ChunkEnd(parsed) == parsed.body_start + parsed.content_len + 2
scan_chunks ==
    /\ at = "scan"
    /\ LET found == ParseAt(proxy_buf, rnread, total)
           end == IF found.chunked THEN ChunkEnd(found) ELSE total
           more == found.chunked /\ ~found.chunks_done /\ found.content_len > 0 /\ end < rnread - 1
       IN  /\ chunk' = found
           /\ IF found.error \/ rnread = 0 THEN at' = "failed" /\ UNCHANGED <<total, remaining, relayed>>
              ELSE IF more THEN total' = end /\ UNCHANGED <<at, remaining, relayed>>
              ELSE SendChunks(end)
    /\ UNCHANGED <<reply, rpos, proxy_buf, rnread, aligned>>

(* memmove(proxy_buf + rc, proxy_buf, nread - rc), and the next read goes  *)
(* behind what is thought to be kept.  Its length alone is returned.       *)
Kept(n) == IF total < n - 1 THEN n - total ELSE 0
Moved(n) == [i \in DOMAIN proxy_buf |->
               IF Kept(n) > 0 /\ i \in total .. n - 1 THEN proxy_buf[i - total] ELSE proxy_buf[i]]

NextChunks ==
    /\ at = "streamed"
    /\ IF chunk.chunks_done
       THEN at' = "done" /\ UNCHANGED <<rpos, proxy_buf, rnread, chunk, total, aligned>>
       ELSE \E bytes \in fdrecv(PROXY_BUFFER - Kept(rnread)) :
              LET memory == Moved(rnread)
                  filled == [i \in DOMAIN memory |->
                               IF i \in Kept(rnread) .. Kept(rnread) + Len(bytes) - 1
                               THEN bytes[i - Kept(rnread) + 1] ELSE memory[i]]
              IN  /\ proxy_buf' = [filled EXCEPT ![Len(bytes)] = 0]
                  /\ rpos' = rpos + Len(bytes)
                  /\ rnread' = Len(bytes)
                  /\ chunk' = [chunk EXCEPT !.body_start = 0]
                  /\ total' = 0
                  /\ aligned' = (aligned /\ ~EndsBadly(rpos + Len(bytes)))
                  /\ at' = "scan"
    /\ UNCHANGED <<reply, remaining, relayed>>

(* Neither chunks nor a length: everything until the upstream closes. *)
RelayUntilClose ==
    /\ at = "relay"
    /\ relayed' = relayed \o Stored(0, rnread)
    /\ \E bytes \in fdrecv(PROXY_BUFFER) :
        /\ proxy_buf' = Store(0, bytes)
        /\ rpos' = rpos + Len(bytes)
        /\ rnread' = Len(bytes)
        /\ at' = IF bytes = <<>> THEN "done" ELSE "relay"
    /\ UNCHANGED <<reply, chunk, total, remaining, aligned>>

ReplyInit ==
    /\ reply \in ReplyKinds
    /\ at = "read" /\ rpos = 0
    /\ proxy_buf = [i \in 0 .. PROXY_BUFFER |-> 0]
    /\ rnread = 0 /\ chunk = NoChunk /\ total = 0 /\ remaining = 0
    /\ relayed = <<>> /\ aligned = TRUE

ReplyNext ==
    \/ Proxy_read_and_parse \/ RespondLength \/ Proxy_stream_response
    \/ scan_chunks \/ NextChunks \/ RelayUntilClose

-----------------------------------------------------------------------------
(* The client is sent the upstream's bytes in order and none twice, unless *)
(* a read ended in a chunk's head or one byte behind a chunk: then the     *)
(* rest of the buffer is moved the wrong way or dropped.                   *)
RelayedInOrder == aligned => relayed = Range1(Len(relayed))

(* A reply that ends has been relayed completely. *)
RelayedCompletely == aligned /\ at = "done" => Len(relayed) >= Length

(* The assertion of Proxy_stream_response fails only for an upstream that  *)
(* sends more than it announced, and a failure has a cause: a head or a    *)
(* chunk's head that did not come in one read, or an early end.            *)
FailsForAReason ==
    /\ at = "abort" => reply.surplus > 0 \/ ~aligned
    /\ at = "failed" => rpos < REPLY_HEAD \/ ~aligned \/ (reply.cut /\ rpos = Available)

VARIABLE side       (* "request" or "reply" *)

streamsvars == <<requestVars, replyVars, side>>

(* The direction that a behaviour is not about has one fixed partner. *)
NoRequest == client = CHOOSE c \in [requests : Conversations, pipelines : {FALSE},
                                     ssl : {FALSE}, temp_store : {FALSE}] : TRUE
NoReply == reply = CHOOSE r \in ReplyKinds : TRUE

StreamsInit ==
    \/ side = "request" /\ NoReply /\ RequestInit /\ ReplyInit
    \/ side = "reply" /\ NoRequest /\ RequestInit /\ ReplyInit

StreamsNext ==
    \/ side = "request" /\ RequestNext /\ UNCHANGED <<replyVars, side>>
    \/ side = "reply" /\ ReplyNext /\ UNCHANGED <<requestVars, side>>

StreamsSpec == StreamsInit /\ [][StreamsNext]_streamsvars

(* A reply comes to its end if the upstream sends all of it, unless a read *)
(* ends inside a chunk's head: scan_chunks may then go round for ever.     *)
EveryReplyEnds == (side = "reply" /\ at = "read" /\ ~reply.cut)
                      ~> (at \in {"done", "failed", "abort"} \/ ~aligned)

(***************************************************************************)
(* connection.c, proxy.c: in every split of reads the bytes of a request   *)
(* reach its handler or upstream, and those of a reply its client, all of  *)
(* them, once, in order; nothing is written behind a buffer, nobody waits  *)
(* for bytes that have come, and a failure has a cause. The cases in which *)
(* the code falls short are named in the parts.                            *)
(***************************************************************************)
StreamsFaithful ==
    /\ BytesInOrder /\ HandlersGetTheContent /\ UpstreamGetsRequests
    /\ WaitsOnlyForMore /\ OverrunsOnlyThere
    /\ RelayedInOrder /\ RelayedCompletely /\ FailsForAReason
=============================================================================
