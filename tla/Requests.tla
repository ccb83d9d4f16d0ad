------------------------------ MODULE Requests ------------------------------
(***************************************************************************)
(* A Request of src/request.c over the requests of one connection: the     *)
(* callbacks of the parser fill it, Request_start empties it for the next  *)
(* request, and Request_to_payload makes the message for a handler.        *)
(*                                                                         *)
(* A text is a sequence of characters.  A string is a number, and the heap *)
(* has the text of every string that was made and not destroyed.           *)
(***************************************************************************)
EXTENDS Null, Integers, SequencesExt

CONSTANTS
    Messages,     \* what clients send
    MaxRequests   \* bound: requests on the connection

BSLASH == "\\"
QUOTE == "\""
COLON_CHAR == ":"

(* What the parser's grammar lets through: no part of a request line has a quote, a method and *)
(* a version have no backslash.                                                               *)
IsText(text) == text \in Seq({text[i] : i \in DOMAIN text})

Has(text, ch) == \E i \in DOMAIN text : text[i] = ch

IsMessage(m) ==
    /\ m.json \in BOOLEAN /\ IsText(m.headers)
    /\ \A i \in DOMAIN m.headers : IsText(m.headers[i].text)
    /\ \A text \in {m.path, m.params, m.query, m.uri, m.fragment, m.method, m.version} \ {NULL} :
        IsText(text) /\ ~Has(text, QUOTE)
    /\ m.json => m.path # NULL
    /\ ~m.json => \A text \in {m.method, m.version} : text # NULL /\ ~Has(text, BSLASH)
    /\ ~m.json => m.uri # NULL

ASSUME RequestsAssumption ==
    /\ MaxRequests \in Nat /\ NULL \notin Nat
    /\ \A m \in Messages : IsMessage(m)

Digits == [ch \in {"0", "1", "2"} |-> IF ch = "0" THEN 0 ELSE IF ch = "1" THEN 1 ELSE 2]

VARIABLES
    req,      \* the Request: strings by field, the headers, content_len and json_sent
    heap,     \* [string -> its text and by what callback it was made]
    strings,  \* strings made so far
    stage,    \* "idle", "parse", "parsed" or "closed"
    now,      \* the message, and the callbacks that are left
    count,    \* requests so far
    payload,  \* ghost: the last payload and the message it was made for
    misused   \* ghost: strings used or destroyed when they were not live

requestsvars == <<req, heap, strings, stage, now, count, payload, misused>>

Parts == {"request_method", "version", "uri", "path", "query_string", "fragment", "host_name"}

EmptyRequest ==
    [request_method |-> NULL, version |-> NULL, uri |-> NULL, path |-> NULL, query_string |-> NULL,
     fragment |-> NULL, host_name |-> NULL, host |-> NULL, pattern |-> NULL,
     headers |-> <<>>, content_len |-> 0, json_sent |-> FALSE]

(* The part of the state that a function of request.c changes. *)
Here == [req |-> req, heap |-> heap, strings |-> strings, misused |-> misused]

Becomes(w) ==
    /\ req' = w.req /\ heap' = w.heap /\ strings' = w.strings /\ misused' = w.misused

(* blk2bstr: the new string is w.strings of the result. *)
blk2bstr(w, text, by) ==
    LET s == w.strings + 1 IN
    [w EXCEPT !.strings = s,
              !.heap = [x \in DOMAIN @ \cup {s} |-> IF x = s THEN [text |-> text, by |-> by] ELSE @[x]]]

(* bdestroy of what every place of held has: a string that is at two of them is destroyed *)
(* when it is not there.                                                                  *)
bdestroyAll(w, held) ==
    LET places == {p \in DOMAIN held : held[p] # NULL}
        given == {held[p] : p \in places}
        again == {held[p] : p \in {q \in places : \E o \in places : o # q /\ held[o] = held[q]}} IN
    [w EXCEPT !.misused = @ \cup (given \ DOMAIN w.heap) \cup again,
              !.heap = [x \in DOMAIN @ \ given |-> @[x]]]

-----------------------------------------------------------------------------
(* What a JSON message has before the blank: the path, the parameters with the semicolon in *)
(* front and the query.                                                                     *)
WholePath(m) ==
    m.path \o (IF m.params = NULL THEN <<>> ELSE m.params)
           \o (IF m.query = NULL THEN <<>> ELSE <<"?">> \o m.query)

(* The callbacks of the parser in the order of its grammar: a JSON message with parameters *)
(* or a query has its path told twice, the second time with them.                          *)
Callbacks(m) ==
    LET Optional(name, text) == IF text = NULL THEN <<>> ELSE <<[name |-> name, text |-> text]>> IN
    IF m.json
    THEN Optional("path", m.path)
         \o Optional("query_string", m.query)
         \o (IF m.params = NULL /\ m.query = NULL THEN <<>>
             ELSE <<[name |-> "path", text |-> WholePath(m)]>>)
         \o <<[name |-> "json"], [name |-> "done"]>>
    ELSE <<[name |-> "request_method", text |-> m.method]>>
         \o Optional("path", m.path) \o Optional("query_string", m.query)
         \o <<[name |-> "uri", text |-> m.uri]>>
         \o Optional("fragment", m.fragment)
         \o <<[name |-> "version", text |-> m.version]>>
         \o [i \in DOMAIN m.headers |-> [name |-> "header", key |-> m.headers[i].key, text |-> m.headers[i].text]]
         \o <<[name |-> "done"]>>

(* request_method_cb, fragment_cb, http_version_cb, uri_cb, path_cb, query_string_cb: what *)
(* the field had is not destroyed.                                                         *)
PartCallback(w0, field, text) ==
    LET w == blk2bstr(w0, text, field) IN [w EXCEPT !.req[field] = w.strings]

(* header_field_cb: duplicates are allowed. *)
header_field_cb(w0, key, text) ==
    LET value == blk2bstr(w0, text, "header")
        field == blk2bstr(value, key, "header") IN
    [field EXCEPT !.req.headers = Append(@, [key |-> field.strings, value |-> value.strings])]

TextOf(w, s) == w.heap[s].text

(* Request_get: dict_lookup finds the first of the headers with the name. *)
Request_get(w, key) ==
    LET hits == {i \in DOMAIN w.req.headers : TextOf(w, w.req.headers[i].key) = key} IN
    IF hits = {} THEN NULL
    ELSE w.req.headers[CHOOSE i \in hits : \A j \in hits : i <= j].value

(* The digits that a text begins with. *)
atoi(text) ==
    FoldLeft(LAMBDA acc, ch : IF acc.stop \/ ch \notin DOMAIN Digits THEN [acc EXCEPT !.stop = TRUE]
                              ELSE [acc EXCEPT !.value = @ * 10 + Digits[ch]],
             [value |-> 0, stop |-> FALSE], text).value

(* The host without its port; a colon in front is not a port's. *)
HostName(text) ==
    LET colons == {i \in DOMAIN text : text[i] = COLON_CHAR}
        first == CHOOSE i \in colons : \A j \in colons : i <= j IN
    IF colons = {} \/ 1 \in colons THEN text ELSE SubSeq(text, 1, first - 1)

ContentLen(w) ==
    LET clen == Request_get(w, "Content-Length") IN
    IF clen = NULL THEN w ELSE [w EXCEPT !.req.content_len = atoi(TextOf(w, clen))]

(* header_done_cb: host is the header's own string, host_name a new one. *)
header_done_cb(w0) ==
    LET w == ContentLen(w0)
        host == Request_get(w, "Host")
        told == [w EXCEPT !.req.host = host] IN
    IF host = NULL THEN told
    ELSE PartCallback(told, "host_name", HostName(TextOf(w, host)))

Apply(w, call) ==
    CASE call.name = "header" -> header_field_cb(w, call.key, call.text)
      [] call.name = "json" -> [w EXCEPT !.req.json_sent = TRUE]
      [] call.name = "done" -> header_done_cb(w)
      [] OTHER -> PartCallback(w, call.name, call.text)

-----------------------------------------------------------------------------
(* Request_nuke_parts: host and pattern stay, they belong to others. *)
Request_nuke_parts(w) ==
    [bdestroyAll(w, [f \in Parts |-> w.req[f]])
        EXCEPT !.req = [f \in DOMAIN @ |-> IF f \in Parts THEN NULL ELSE @[f]]]

(* dict_free_nodes with req_free_dict. *)
FreeHeaders(w) ==
    [bdestroyAll(w, [p \in (DOMAIN w.req.headers) \X {"value", "key"} |-> w.req.headers[p[1]][p[2]]])
        EXCEPT !.req.headers = <<>>]

(* http_parser_init, as far as the request sees it. *)
ParserInit(w) == [w EXCEPT !.req.content_len = 0, !.req.json_sent = FALSE]

Request_start(w) == FreeHeaders(Request_nuke_parts(ParserInit(w)))

Request_destroy(w) == [FreeHeaders(Request_nuke_parts(w)) EXCEPT !.req = EmptyRequest]

-----------------------------------------------------------------------------
bfindreplace(text, ch, by) ==
    LET done[i \in 0..Len(text)] ==
            IF i = 0 THEN <<>> ELSE done[i - 1] \o (IF text[i] = ch THEN by ELSE <<text[i]>>)
    IN  done[Len(text)]

(* mutant: in the other order *)
Escaped_QuotesFirst(text) ==
    bfindreplace(bfindreplace(text, QUOTE, <<BSLASH, QUOTE>>), BSLASH, <<BSLASH, BSLASH>>)

(* "MUST GO IN THIS ORDER" *)
Escaped(text) ==
    bfindreplace(bfindreplace(text, BSLASH, <<BSLASH, BSLASH>>), QUOTE, <<BSLASH, QUOTE>>)

(* The JSON object of the payload: the parts that are there, as they are, and the headers *)
(* with their values escaped.                                                             *)
PayloadOf(w) ==
    LET r == w.req
        Part(key, f) == IF r[f] = NULL THEN {} ELSE {[key |-> key, text |-> TextOf(w, r[f])]} IN
    [path |-> TextOf(w, r.path),
     object |-> Part("PATH", "path") \cup Part("VERSION", "version") \cup Part("URI", "uri")
                \cup Part("QUERY", "query_string") \cup Part("FRAGMENT", "fragment")
                \cup (IF r.json_sent THEN {[key |-> "METHOD", text |-> <<"J", "S", "O", "N">>]}
                      ELSE Part("METHOD", "request_method"))
                \cup {[key |-> "PATTERN", text |-> r.pattern]}
                \cup {[key |-> TextOf(w, r.headers[i].key), text |-> Escaped(TextOf(w, r.headers[i].value))]
                         : i \in DOMAIN r.headers}]

-----------------------------------------------------------------------------
RequestsInit ==
    /\ req = EmptyRequest
    /\ heap = <<>> /\ strings = 0
    /\ stage = "idle" /\ now = NULL /\ count = 0
    /\ payload = NULL /\ misused = {}

(* Connection_read_header: Request_start, and then the parser calls back. *)
ReadHeader(m) ==
    /\ stage \in {"idle", "parsed"} /\ count < MaxRequests
    /\ Becomes(Request_start(Here))
    /\ now' = [message |-> m, left |-> Callbacks(m)]
    /\ stage' = "parse"
    /\ count' = count + 1
    /\ UNCHANGED payload

Parse ==
    /\ stage = "parse" /\ Len(now.left) > 1
    /\ Becomes(Apply(Here, Head(now.left)))
    /\ now' = [now EXCEPT !.left = Tail(@)]
    /\ UNCHANGED <<stage, count, payload>>

(* The head is complete: header_done_cb, and the X-Forwarded-For header. *)
Parsed ==
    /\ stage = "parse" /\ Len(now.left) = 1
    /\ Becomes(header_field_cb(Apply(Here, Head(now.left)), "X-Forwarded-For", <<"r">>))
    /\ now' = [now EXCEPT !.left = <<>>]
    /\ stage' = "parsed"
    /\ UNCHANGED <<count, payload>>

(* connection_route_request: the pattern belongs to the Route. *)
Routed ==
    /\ stage = "parsed" /\ req.path # NULL
    /\ req' = [req EXCEPT !.pattern = <<"p">>]
    /\ UNCHANGED <<heap, strings, misused, stage, now, count, payload>>

(* Request_to_payload for a descriptor that is registered. *)
Request_to_payload ==
    /\ stage = "parsed" /\ req.pattern # NULL /\ req.path # NULL
    /\ payload' = [message |-> now.message, sent |-> PayloadOf(Here)]
    /\ UNCHANGED <<req, heap, strings, misused, stage, now, count>>

(* Connection_destroy, also in the middle of a head. *)
Destroyed ==
    /\ stage # "closed"
    /\ Becomes(Request_destroy(Here))
    /\ stage' = "closed" /\ now' = NULL
    /\ UNCHANGED <<count, payload>>

RequestsNext ==
    \/ \E m \in Messages : ReadHeader(m)
    \/ Parse \/ Parsed \/ Routed \/ Request_to_payload \/ Destroyed

RequestsSpec == RequestsInit /\ [][RequestsNext]_requestsvars

-----------------------------------------------------------------------------
(* What a JSON reader makes of the text between two quotes; NULL if the text ends early. *)
JsonChar(acc, ch) ==
    IF acc.ended THEN acc
    ELSE IF acc.escape THEN [acc EXCEPT !.out = Append(@, ch), !.escape = FALSE]
    ELSE IF ch = BSLASH THEN [acc EXCEPT !.escape = TRUE]
    ELSE IF ch = QUOTE THEN [acc EXCEPT !.ended = TRUE]
    ELSE [acc EXCEPT !.out = Append(@, ch)]

JsonStart == [out |-> <<>>, escape |-> FALSE, ended |-> FALSE]

JsonRead(text) ==
    LET read[i \in 0..Len(text)] == IF i = 0 THEN JsonStart ELSE JsonChar(read[i - 1], text[i])
    IN  read[Len(text)]

JsonText(text) ==
    LET end == JsonRead(text) IN IF end.escape \/ end.ended THEN NULL ELSE end.out

PathsTold(m) == {m.path} \cup {text \in {WholePath(m)} : m.json}

Told(m, path) ==
    LET Optional(key, text) == IF text = NULL THEN {} ELSE {[key |-> key, text |-> text]} IN
    {[key |-> "PATH", text |-> path]} \cup Optional("QUERY", m.query)
    \cup {[key |-> "PATTERN", text |-> <<"p">>], [key |-> "X-Forwarded-For", text |-> <<"r">>]}
    \cup IF m.json THEN {[key |-> "METHOD", text |-> <<"J", "S", "O", "N">>]}
         ELSE {[key |-> "METHOD", text |-> m.method], [key |-> "URI", text |-> m.uri],
               [key |-> "VERSION", text |-> m.version]}
              \cup Optional("FRAGMENT", m.fragment)
              \cup {[key |-> m.headers[i].key, text |-> m.headers[i].text] : i \in DOMAIN m.headers}

Backslashed(m) ==
    \E text \in {m.path, m.params, m.uri, m.query, m.fragment} \ {NULL} : \E i \in DOMAIN text : text[i] = BSLASH

(* Request_to_payload: a handler that reads the payload as JSON gets the request of which *)
(* it was made, whatever the headers' values are and whatever requests came before, and   *)
(* nothing else.  (The URI is not escaped: a backslash in it is read as an escape.  The   *)
(* path of a JSON message may have the parameters and the query behind it.)               *)
PayloadTellsTheRequest ==
    payload # NULL /\ ~Backslashed(payload.message) =>
        /\ payload.sent.path \in PathsTold(payload.message)
        /\ {[key |-> f.key, text |-> JsonText(f.text)] : f \in payload.sent.object}
               = Told(payload.message, payload.sent.path)

Reachable ==
    ({req[f] : f \in Parts} \ {NULL})
    \cup UNION {{req.headers[i].key, req.headers[i].value} : i \in DOMAIN req.headers}

(* Over all requests of a connection no string is destroyed twice, and the only strings *)
(* that are lost are paths: those of JSON messages that tell the path twice.            *)
StringsAccounted ==
    /\ misused = {}
    /\ Reachable \subseteq DOMAIN heap
    /\ \A s \in DOMAIN heap \ Reachable : heap[s].by = "path"

(* header_done_cb: what decides the routing and the length of the body is this request's, *)
(* and the host points to a header that is there.                                         *)
HostIsItsOwn ==
    stage = "parsed" =>
        LET hosts == {i \in DOMAIN now.message.headers : now.message.headers[i].key = "Host"}
            lengths == {i \in DOMAIN now.message.headers : now.message.headers[i].key = "Content-Length"} IN
        /\ req.host = NULL <=> now.message.json \/ hosts = {}
        /\ req.host # NULL => /\ req.host \in Reachable
                              /\ heap[req.host_name].text = HostName(heap[req.host].text)
        /\ lengths = {} => req.content_len = 0

(***************************************************************************)
(* request.c: over the requests of a connection, a handler reads the       *)
(* request that the client made and nothing of the one before, and every   *)
(* string is destroyed once.                                               *)
(***************************************************************************)
RequestsFaithful ==
    /\ PayloadTellsTheRequest /\ HostIsItsOwn /\ StringsAccounted
=============================================================================
